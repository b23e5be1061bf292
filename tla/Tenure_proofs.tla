---------------------------- MODULE Tenure_proofs ----------------------------
(***************************************************************************)
(* Tenure for any agreements, lives, intervals and delays the operator may *)
(* configure: the types, what a refused refresh was refused for, that what *)
(* memory takes for extended was, and that a record kept up by its         *)
(* refreshes is alive.                                                     *)
(***************************************************************************)
EXTENDS Tenure, TLAPS

(* The longest from one refresh's end to the next one's. *)
Period == Interval + Late + Delay

(* The time that the refreshes a record may still miss take. *)
Room(m) == (Forgiven - m) * Period

(* The refresh comes in time, and the loop's jobs end in time. *)
InTime ==
    /\ due <= head + Interval /\ head <= due + Late
    /\ loop # "rest" => head <= began + Delay
    /\ loop = "refresh" => due = began + Interval
    /\ loop \in {"poll", "offers"} => asof = began

(* What was once read of a record: its expiry only moved later since, and
   then to a life from some moment that has passed. *)
Behind(r, k) ==
    /\ r.expires <= chain[k].expires
    /\ chain[k].expires <= head + Life \/ chain[k].expires = r.expires

MemoryBehind ==
    /\ \A k \in known \cup {Listing} : Behind(memory[k], k)
    /\ \A r \in page : Behind(r.record, r.key)

(* What was read after the last extend is up to date. *)
SeenIsRead == \A a \in seen \cap known : memory[a].expires = chain[a].expires

(* A record with the life of an extended one was extended, wherever it is
   looked at. *)
MarkIsTrue ==
    /\ Listing \in extended
    /\ \A k \in Key : WasExtended(chain[k]) \/ WasExtended(memory[k]) => k \in extended
    /\ \A r \in page : WasExtended(r.record) => r.key \in extended

(* A refresh that read the head holds nothing that had expired then, and
   nothing that expires later than it would make it. *)
BatchFits ==
    loop = "refresh" /\ asof # Unread =>
        \A k \in batch : /\ k # Listing => chain[k].expires > asof
                         /\ chain[k].expires <= head + Life

(* A record outlives the next refresh, and the ones it may still miss; one
   that a refresh is extending outlives that refresh, and those. *)
LifeLeft ==
    \A k \in extended \ skipped : missed[k] <= Forgiven =>
        chain[k].expires >
            Room(missed[k]) + Delay
              + (IF loop = "refresh" /\ k \in batch THEN began ELSE due + Late)

TInv == /\ TypeOK /\ InTime /\ MemoryBehind /\ SeenIsRead
        /\ MarkIsTrue /\ BatchFits /\ LifeLeft
-----------------------------------------------------------------------------
(* The numbers, without the sets and the product of the assumption. *)
LEMMA Lives ==
    /\ OfferLife \in Nat /\ Life \in Nat /\ LongLife \in Nat /\ Life <= LongLife
    /\ Interval \in Nat /\ Late \in Nat /\ Delay \in Nat /\ Forgiven \in Nat
    /\ OfferLife > 0 /\ OfferLife < Life /\ OfferLife + Delay < Life
    /\ MaxHead \in Nat /\ MaxFaults \in Nat
  BY TenureAssumption DEF Validate

LEMMA ListingIsKey == Listing \in Key /\ Listing \notin Agreement /\ Agreement \subseteq Key
  BY TenureAssumption DEF Key

(* The room shrinks by a period with each refresh missed, and a life is
   longer than all of it and one period more. *)
LEMMA RoomFacts ==
    /\ Period \in Nat /\ Period = Interval + Late + Delay
    /\ \A m \in 0..Forgiven : Room(m) \in Nat /\ Room(m) <= Room(0)
    /\ \A m \in 0..Forgiven : m < Forgiven => Room(m + 1) = Room(m) - Period
    /\ Room(0) + Period < Life
<1>1. Period \in Nat /\ Period = Interval + Late + Delay
  BY Lives DEF Period
<1>2. (Forgiven + 1) * Period < Life
  BY TenureAssumption DEF Period
<1> HIDE DEF Period
<1>3. (Forgiven + 1) * Period = Forgiven * Period + Period
  BY <1>1, Lives
<1>4. Room(0) = Forgiven * Period
  BY <1>1, Lives DEF Room
<1>5. ASSUME NEW m \in 0..Forgiven
      PROVE  /\ Room(m) \in Nat /\ Room(m) <= Room(0)
             /\ m < Forgiven => Room(m + 1) = Room(m) - Period
  <2>1. Forgiven - m \in Nat /\ m \in Nat
    BY Lives
  <2>2. Room(m) \in Nat
    <3> DEFINE n == Forgiven - m
    <3> HIDE DEF n
    <3>1. n \in Nat
      BY <2>1 DEF n
    <3>2. n * Period \in Nat
      BY <3>1, <1>1
    <3> QED BY <3>2 DEF Room, n
  <2>3. Room(m) = Forgiven * Period - m * Period
    BY <1>1, <2>1, Lives DEF Room
  <2>4. m * Period \in Nat /\ Forgiven * Period \in Nat
    BY <1>1, <2>1, Lives
  <2>5. Room(m) <= Room(0)
    BY <1>4, <2>3, <2>4
  <2>6. (Forgiven - (m + 1)) * Period = (Forgiven - m) * Period - Period
    BY <1>1, <2>1, Lives
  <2> QED BY <2>2, <2>5, <2>6 DEF Room
<1> QED BY <1>1, <1>2, <1>3, <1>4, <1>5, Lives

(* The parts of the state, with their types. *)
LEMMA Typed ==
    ASSUME TypeOK
    PROVE  /\ head \in Nat /\ began \in Nat /\ due \in Nat
           /\ \A k \in Key : /\ chain[k] \in Record /\ memory[k] \in Record
                             /\ chain[k].expires \in Nat /\ chain[k].created \in Nat
                             /\ memory[k].expires \in Nat /\ memory[k].created \in Nat
                             /\ missed[k] \in 0..(Forgiven + 1)
           /\ \A r \in page : /\ r.key \in Agreement /\ r.record \in Record
                              /\ r.record.expires \in Nat /\ r.record.created \in Nat
           /\ \A a \in known : a \in Key
<1>1. \A x \in Record : x.expires \in Nat /\ x.created \in Nat
  BY Lives DEF Record
<1>2. head \in Nat /\ began \in Nat /\ due \in Nat
  BY Lives DEF TypeOK
<1>3. \A k \in Key : /\ chain[k] \in Record /\ memory[k] \in Record
                     /\ missed[k] \in 0..(Forgiven + 1)
  BY DEF TypeOK
<1>4. \A r \in page : r.key \in Agreement /\ r.record \in Record
  BY DEF TypeOK
<1>5. \A a \in known : a \in Key
  BY ListingIsKey DEF TypeOK
<1> QED BY <1>1, <1>2, <1>3, <1>4, <1>5

(* A record as it is born. *)
LEMMA BornFacts ==
    ASSUME NEW h \in 0..MaxHead, NEW life \in Nat, life <= LongLife
    PROVE  /\ Born(h, life) \in Record
           /\ Born(h, life).created = h /\ Born(h, life).expires = h + life
  BY Lives DEF Born, Record

LEMMA NoRecordFacts ==
    NoRecord \in Record /\ NoRecord.expires = 0 /\ ~WasExtended(NoRecord)
  BY Lives DEF NoRecord, Record, WasExtended

(* What a landed extend does to the records. *)
LEMMA ExtendFacts ==
    ASSUME TypeOK, NEW ks \in SUBSET Key, Applies(ks), ExtendRecords(ks)
    PROVE  /\ chain' \in [Key -> Record]
           /\ \A k \in ks : /\ chain[k].expires > head /\ chain[k].expires < head + Life
                            /\ chain'[k].expires = head + Life /\ missed'[k] = 0
           /\ \A k \in Key \ ks : chain'[k] = chain[k] /\ missed'[k] = missed[k]
           /\ missed' \in [Key -> 0..(Forgiven + 1)]
           /\ extended' = extended \cup ks /\ skipped' = skipped \ ks
<1>1. \A k \in Key : chain[k] \in Record
  BY Typed
<1>2. head \in 0..MaxHead /\ missed \in [Key -> 0..(Forgiven + 1)]
  BY DEF TypeOK
<1>3. ASSUME NEW k \in Key
      PROVE  /\ [chain[k] EXCEPT !.expires = head + Life] \in Record
             /\ [chain[k] EXCEPT !.expires = head + Life].expires = head + Life
  BY <1>1, <1>2, Lives DEF Record
<1>4. chain' = [k \in Key |-> IF k \in ks THEN [chain[k] EXCEPT !.expires = head + Life]
                              ELSE chain[k]]
  BY DEF ExtendRecords
<1>5. chain' \in [Key -> Record]
  BY <1>1, <1>3, <1>4
<1>6. \A k \in ks : k \in Key /\ chain'[k].expires = head + Life
  BY <1>3, <1>4
<1>7. \A k \in ks : chain[k].expires > head /\ chain[k].expires < head + Life
  BY DEF Applies, Live
<1>8. \A k \in Key \ ks : chain'[k] = chain[k]
  BY <1>4
<1>9. missed' = [k \in Key |-> IF k \in ks THEN 0 ELSE missed[k]]
  BY DEF ExtendRecords
<1>10. missed' \in [Key -> 0..(Forgiven + 1)]
  BY <1>2, <1>9, Lives
<1> QED BY <1>5, <1>6, <1>7, <1>8, <1>9, <1>10 DEF ExtendRecords

(* A refresh that is lost counts once, up to one beyond the forgiven. *)
LEMMA LostFacts ==
    ASSUME TypeOK, NEW ks
    PROVE  /\ Lost(ks) \in [Key -> 0..(Forgiven + 1)]
           /\ \A k \in Key : k \in ks /\ k \in extended \ skipped /\ missed[k] <= Forgiven =>
                                Lost(ks)[k] = missed[k] + 1
           /\ \A k \in Key : k \notin ks => Lost(ks)[k] = missed[k]
           /\ \A k \in Key : missed[k] <= Lost(ks)[k]
<1>1. \A k \in Key : missed[k] \in 0..(Forgiven + 1)
  BY DEF TypeOK
<1>2. Lost(ks) = [k \in Key |-> IF k \in ks \cap (extended \ skipped) /\ missed[k] <= Forgiven
                                THEN missed[k] + 1 ELSE missed[k]]
  BY DEF Lost
<1>3. ASSUME NEW k \in Key
      PROVE  /\ Lost(ks)[k] \in 0..(Forgiven + 1) /\ missed[k] <= Lost(ks)[k]
             /\ k \in ks /\ k \in extended \ skipped /\ missed[k] <= Forgiven =>
                   Lost(ks)[k] = missed[k] + 1
             /\ k \notin ks => Lost(ks)[k] = missed[k]
  BY <1>1, <1>2, Lives
<1> QED BY <1>2, <1>3

(* What the poll says of an agreement in its page is a record it read. *)
LEMMA ReadFacts ==
    ASSUME NEW a \in Listed
    PROVE  \E r \in page : r.key = a /\ r.record = Read(a)
<1>1. \E r \in page : r.key = a
  BY DEF Listed
<1>2. (CHOOSE r \in page : r.key = a) \in page /\ (CHOOSE r \in page : r.key = a).key = a
  BY <1>1
<1> QED BY <1>2 DEF Read

(* The steps of the admission tasks, which touch nothing else. *)
TaskStep ==
    \/ \E a \in Agreement : GivesUp(a) \/ ProbesPass(a) \/ FoundWrong(a) \/ AskExtend(a)
                              \/ ExtendFails(a)
    \/ \E ask \in Ask : Admission(ask)

LEMMA TaskTypes == TypeOK /\ TaskStep => TypeOK'
<1> SUFFICES ASSUME TypeOK, TaskStep PROVE TypeOK'
  OBVIOUS
<1>1. UNCHANGED <<head, chain, used, loose, known, memory, loop, began, asof, page, batch,
                  due, faults, extended, seen, missed, skipped>>
  BY DEF TaskStep, GivesUp, ProbesPass, FoundWrong, AskExtend, ExtendFails, Admission,
         chainVars, memoryVars, loopVars, history
<1>2. /\ task \in [Agreement -> {"none", "waiting", "checking", "extending"}]
      /\ deadline \in [Agreement -> 0..(MaxHead + OfferLife)] /\ asking \subseteq Agreement
      /\ head \in 0..MaxHead
  BY DEF TypeOK
<1>3. task' \in [Agreement -> {"none", "waiting", "checking", "extending"}]
  <2>1. ASSUME NEW ask \in Ask, Admission(ask)
        PROVE  task' = [task EXCEPT ![ask.agreement] = "waiting"]
    BY <2>1 DEF Admission
  <2> QED BY <1>2, <2>1 DEF TaskStep, GivesUp, ProbesPass, FoundWrong, AskExtend,
             ExtendFails,
                            TaskEnds, TaskIs
<1>4. deadline' \in [Agreement -> 0..(MaxHead + OfferLife)]
  <2>1. ASSUME NEW ask \in Ask, Admission(ask)
        PROVE  deadline' = [deadline EXCEPT ![ask.agreement] = head + OfferLife]
    BY <2>1 DEF Admission
  <2>2. 0 \in 0..(MaxHead + OfferLife) /\ head + OfferLife \in 0..(MaxHead + OfferLife)
    BY <1>2, Lives
  <2>3. \A a \in Agreement : [deadline EXCEPT ![a] = 0] \in [Agreement -> 0..(MaxHead + OfferLife)]
    BY <1>2, <2>2
  <2>4. \A a : [deadline EXCEPT ![a] = head + OfferLife]
                  \in [Agreement -> 0..(MaxHead + OfferLife)]
    BY <1>2, <2>2
  <2> QED BY <1>2, <2>1, <2>3, <2>4
          DEF TaskStep, GivesUp, ProbesPass, FoundWrong, AskExtend, ExtendFails, TaskEnds
<1>5. asking' \subseteq Agreement
  BY <1>2 DEF TaskStep, GivesUp, ProbesPass, FoundWrong, AskExtend, ExtendFails, Admission,
              TaskEnds
<1> QED BY <1>1, <1>3, <1>4, <1>5 DEF TypeOK

LEMMA TaskEndTypes ==
    ASSUME TypeOK, NEW a \in Agreement, TaskEnds(a)
    PROVE  /\ task' \in [Agreement -> {"none", "waiting", "checking", "extending"}]
           /\ deadline' \in [Agreement -> 0..(MaxHead + OfferLife)] /\ asking' \subseteq Agreement
<1>1. 0 \in 0..(MaxHead + OfferLife)
  BY Lives
<1> QED BY <1>1 DEF TypeOK, TaskEnds, TaskIs

(* The loop at rest is well typed. *)
LEMMA RestTypes ==
    ASSUME TypeOK, Rest, head' = head
    PROVE  /\ loop' = "rest" /\ began' \in 0..head' /\ asof' \in {Unread} \cup 0..head'
           /\ page' \subseteq [key : Agreement, record : Record] /\ batch' \subseteq Key
  BY Lives DEF TypeOK, Rest

(* A landed extend keeps the records' and the history's types. *)
LEMMA ExtendTypes ==
    ASSUME TypeOK, NEW ks \in SUBSET Key, Applies(ks), ExtendRecords(ks), head' = head
    PROVE  /\ chain' \in [Key -> Record] /\ \A k \in Key : chain'[k].expires <= head' + LongLife
           /\ extended' \subseteq Key /\ skipped' \subseteq Key
           /\ missed' \in [Key -> 0..(Forgiven + 1)]
<1>1. \A k \in Key : chain'[k].expires <= head' + LongLife
  <2> SUFFICES ASSUME NEW k \in Key PROVE chain'[k].expires <= head + LongLife
    OBVIOUS
  <2>1. CASE k \in ks
    BY <2>1, ExtendFacts, Lives, Typed
  <2>2. CASE k \notin ks
    BY <2>2, ExtendFacts DEF TypeOK
  <2> QED BY <2>1, <2>2
<1>2. chain' \in [Key -> Record] /\ missed' \in [Key -> 0..(Forgiven + 1)]
      /\ extended' = extended \cup ks /\ skipped' = skipped \ ks
  BY ExtendFacts
<1> QED BY <1>1, <1>2 DEF TypeOK

LEMMA NextTypes == TypeOK /\ InTime /\ [Next]_vars => TypeOK'
<1> SUFFICES ASSUME TypeOK, InTime, [Next]_vars PROVE TypeOK'
  OBVIOUS
<1>1. CASE HeadAdvances
  <2>1. /\ head' = head + 1 /\ head' \in 0..MaxHead /\ used' = FALSE /\ asking' = {}
        /\ UNCHANGED <<chain, loose, known, memory, task, deadline, loop, began, asof, page,
                       batch, due, faults, extended, seen, missed, skipped>>
    BY <1>1, Lives DEF HeadAdvances, TypeOK, memoryVars, loopVars, history
  <2>2. \A k \in Key : chain'[k].expires <= head' + LongLife
    BY <2>1, Lives, Typed DEF TypeOK
  <2>3. began' \in 0..head' /\ asof' \in {Unread} \cup 0..head'
    BY <2>1, Lives DEF TypeOK, Unread
  <2> QED BY <2>1, <2>2, <2>3 DEF TypeOK
<1>2. CASE LooseLands
  <2>1. UNCHANGED <<head, used, known, memory, task, deadline, asking, loop, began, asof, page,
                    batch, due, faults>> /\ loose' = {} /\ seen' = seen \ (loose \ {Listing})
    BY <1>2 DEF LooseLands, memoryVars, taskVars, loopVars
  <2>2. loose \in SUBSET Key /\ Applies(loose) /\ ExtendRecords(loose)
    BY <1>2 DEF LooseLands, TypeOK
  <2>3. seen' \subseteq Key
    BY <2>1 DEF TypeOK
  <2> QED BY <2>1, <2>2, <2>3, ExtendTypes DEF TypeOK
<1>3. CASE LooseDropped
  BY <1>3 DEF LooseDropped, TypeOK, memoryVars, taskVars, loopVars, history
<1>4. CASE TaskStep
  BY <1>4, TaskTypes
<1>5. ASSUME NEW a \in Agreement, ExtendUnresolved(a) PROVE TypeOK'
  <2>1. UNCHANGED <<head, chain, used, known, memory, loop, began, asof, page, batch, due,
                    extended, seen, missed, skipped>>
        /\ loose' = {a} /\ faults' \in 0..MaxFaults /\ TaskEnds(a)
    BY <1>5, Lives DEF ExtendUnresolved, TypeOK, memoryVars, loopVars, history
  <2>2. loose' \subseteq Key
    BY <2>1, ListingIsKey
  <2> QED BY <2>1, <2>2, TaskEndTypes DEF TypeOK
<1>6. ASSUME NEW a \in Agreement, NEW heard \in BOOLEAN, ExtendLands(a, heard) PROVE TypeOK'
  <2>1. UNCHANGED <<head, loose, known, loop, began, asof, page, batch, due, faults>>
        /\ used' = TRUE /\ TaskEnds(a) /\ Applies({a}) /\ ExtendRecords({a})
    BY <1>6 DEF ExtendLands, loopVars
  <2>2. a \in Key /\ {a} \in SUBSET Key
    BY ListingIsKey
  <2>3. memory' \in [Key -> Record]
    <3>1. head + Life \in 0..(MaxHead + LongLife)
      BY Lives DEF TypeOK
    <3>2. [memory EXCEPT ![a].expires = head + Life] \in [Key -> Record]
      BY <2>2, <3>1 DEF TypeOK, Record
    <3> QED BY <1>6, <3>2 DEF ExtendLands, TypeOK
  <2>4. seen' \subseteq Key
    BY <1>6, <2>2 DEF ExtendLands, TypeOK
  <2>5. used' \in BOOLEAN
    BY <2>1
  <2> QED BY <2>1, <2>2, <2>3, <2>4, <2>5, ExtendTypes, TaskEndTypes DEF TypeOK
<1>7. ASSUME NEW a \in Agreement, NEW heard \in BOOLEAN, Accept(a, heard) PROVE TypeOK'
  <2>1. UNCHANGED <<head, loose, task, deadline, asking, loop, began, asof, page, batch, due,
                    faults, extended, missed, skipped>>
        /\ used' = TRUE
    BY <1>7 DEF Accept, taskVars, loopVars
  <2>2. a \in Key
    BY ListingIsKey
  <2>3. /\ Born(head, OfferLife) \in Record
        /\ Born(head, OfferLife).expires = head + OfferLife
    BY BornFacts, Lives DEF TypeOK
  <2>4. /\ chain' = [chain EXCEPT ![a] = Born(head, OfferLife)]
        /\ chain' \in [Key -> Record]
    BY <1>7, <2>3 DEF Accept, TypeOK
  <2>5. \A k \in Key : chain'[k].expires <= head' + LongLife
    BY <2>1, <2>3, <2>4, Lives DEF TypeOK
  <2>6. memory' \in [Key -> Record]
    <3>1. asof \in 0..MaxHead /\ head + OfferLife \in 0..(MaxHead + LongLife)
      BY <1>7, Lives DEF Accept, TypeOK, InTime
    <3>2. [created |-> asof, expires |-> head + OfferLife] \in Record
      BY <3>1 DEF Record
    <3>3. [memory EXCEPT ![a] = [created |-> asof, expires |-> head + OfferLife]]
             \in [Key -> Record]
      BY <3>2 DEF TypeOK
    <3> QED BY <1>7, <3>3 DEF Accept, TypeOK
  <2>7. known' \subseteq Agreement /\ seen' \subseteq Key
    BY <1>7, <2>2 DEF Accept, TypeOK
  <2>8. used' \in BOOLEAN
    BY <2>1
  <2> QED BY <2>1, <2>4, <2>5, <2>6, <2>7, <2>8 DEF TypeOK
<1>8. CASE PollReads
  <2>1. UNCHANGED <<head, chain, used, loose, known, memory, task, deadline, asking, batch, due,
                    faults, extended, seen, missed, skipped>>
        /\ loop' = "poll" /\ began' = head /\ asof' = head
    BY <1>8 DEF PollReads, chainVars, memoryVars, taskVars, history
  <2>2. page' \subseteq [key : Agreement, record : Record]
    BY <1>8, ListingIsKey DEF PollReads, TypeOK
  <2>3. began' \in 0..head' /\ asof' \in {Unread} \cup 0..head'
    BY <2>1, Typed
  <2> QED BY <2>1, <2>2, <2>3 DEF TypeOK
<1>9. CASE Reconcile
  <2>1. UNCHANGED <<head, chain, used, loose, task, deadline, asking, began, asof, batch, due,
                    faults, extended, missed, skipped>>
        /\ loop' = "offers" /\ page' = {} /\ known' = Listed /\ seen' \subseteq Key
    BY <1>9 DEF Reconcile, chainVars, taskVars
  <2>2. Listed \subseteq Agreement
    BY Typed DEF Listed
  <2>3. \A k \in Listed : Read(k) \in Record
    BY ReadFacts, Typed
  <2>4. \A k \in Key : memory[k] \in Record
    BY Typed
  <2>5. memory' = [k \in Key |-> IF k \in Listed THEN Read(k)
                                 ELSE IF k = Listing THEN memory[k] ELSE NoRecord]
    BY <1>9 DEF Reconcile, Adopted
  <2>6. memory' \in [Key -> Record]
    BY <2>3, <2>4, <2>5, NoRecordFacts
  <2> QED BY <2>1, <2>2, <2>6 DEF TypeOK
<1>10. CASE PollEnds
  <2>1. UNCHANGED <<head, chain, used, loose, known, memory, task, deadline, asking, due, faults,
                    extended, seen, missed, skipped>> /\ Rest
    BY <1>10 DEF PollEnds, chainVars, memoryVars, taskVars, history
  <2> QED BY <2>1, RestTypes DEF TypeOK
<1>11. ASSUME NEW h \in {head, Unread}, NEW eligible \in SUBSET known, RefreshBegins(h, eligible)
       PROVE  TypeOK'
  <2>1. UNCHANGED <<head, chain, used, loose, known, memory, task, deadline, asking, page, faults,
                    extended, seen>>
        /\ loop' = "refresh" /\ began' = head /\ asof' = h /\ due' = head + Interval
    BY <1>11 DEF RefreshBegins, chainVars, memoryVars, taskVars
  <2>2. batch' \subseteq Key
    BY <1>11, ListingIsKey DEF RefreshBegins, RefreshBatch, TypeOK
  <2>3. skipped' \subseteq Key
    BY <1>11, ListingIsKey DEF RefreshBegins, TypeOK
  <2>4. missed' \in [Key -> 0..(Forgiven + 1)]
    <3>1. missed' = Lost(Key \ (seen \cup batch'))
      BY <1>11 DEF RefreshBegins
    <3> QED BY <3>1, LostFacts
  <2>5. began' \in 0..head' /\ asof' \in {Unread} \cup 0..head' /\ due' \in 0..(MaxHead + Interval)
    BY <2>1, Lives DEF TypeOK
  <2> QED BY <2>1, <2>2, <2>3, <2>4, <2>5 DEF TypeOK
<1>12. CASE RefreshLands
  <2>1. UNCHANGED <<head, loose, known, memory, task, deadline, asking, due, faults>>
        /\ used' = TRUE /\ Rest /\ seen' = seen \ (batch \ {Listing})
    BY <1>12 DEF RefreshLands, memoryVars, taskVars
  <2>2. batch \in SUBSET Key /\ Applies(batch) /\ ExtendRecords(batch)
    BY <1>12 DEF RefreshLands, TypeOK
  <2>3. seen' \subseteq Key /\ used' \in BOOLEAN
    BY <2>1 DEF TypeOK
  <2> QED BY <2>1, <2>2, <2>3, ExtendTypes, RestTypes DEF TypeOK
<1>13. CASE RefreshFails
  <2>1. UNCHANGED <<head, chain, used, loose, known, memory, task, deadline, asking, due, faults,
                    extended, seen, skipped>> /\ Rest /\ missed' = Lost(batch)
    BY <1>13 DEF RefreshFails, chainVars, memoryVars, taskVars
  <2> QED BY <2>1, RestTypes, LostFacts DEF TypeOK
<1>14. CASE RefreshUnresolved
  <2>1. UNCHANGED <<head, chain, used, known, memory, task, deadline, asking, due, extended, seen,
                    skipped>> /\ Rest /\ missed' = Lost(batch) /\ loose' = batch
        /\ faults' \in 0..MaxFaults
    BY <1>14, Lives DEF RefreshUnresolved, TypeOK, memoryVars, taskVars
  <2> QED BY <2>1, RestTypes, LostFacts DEF TypeOK
<1>15. CASE Restart
  <2>1. UNCHANGED <<head, used, extended, skipped>> /\ Rest /\ seen' = Key
        /\ due' = head + Interval /\ asking' = {} /\ memory' = chain'
        /\ known' \subseteq Agreement /\ faults' = faults + 1 /\ faults < MaxFaults
        /\ task' = [a \in Agreement |-> "none"] /\ deadline' = [a \in Agreement |-> 0]
    BY <1>15 DEF Restart
  <2>2. Born(head, Life) \in Record /\ Born(head, Life).expires = head + Life
    BY BornFacts, Lives DEF TypeOK
  <2>3. chain' = chain \/ chain' = [chain EXCEPT ![Listing] = Born(head, Life)]
    BY <1>15 DEF Restart
  <2>4. chain' \in [Key -> Record]
    BY <2>2, <2>3 DEF TypeOK
  <2>5. \A k \in Key : chain'[k].expires <= head' + LongLife
    BY <2>1, <2>2, <2>3, Lives DEF TypeOK
  <2>6. missed' \in [Key -> 0..(Forgiven + 1)]
    <3>1. missed' = Lost(Key) \/ missed' = [Lost(Agreement) EXCEPT ![Listing] = 0]
      BY <1>15 DEF Restart
    <3>2. Lost(Key) \in [Key -> 0..(Forgiven + 1)] /\ Lost(Agreement) \in [Key -> 0..(Forgiven + 1)]
      BY LostFacts
    <3>3. 0 \in 0..(Forgiven + 1)
      BY Lives
    <3> QED BY <3>1, <3>2, <3>3
  <2>7. loose' \subseteq Key
    BY <1>15, ListingIsKey DEF Restart, TypeOK
  <2>8. /\ due' \in 0..(MaxHead + Interval) /\ faults' \in 0..MaxFaults
        /\ 0 \in 0..(MaxHead + OfferLife)
    BY <2>1, Lives DEF TypeOK
  <2>9. /\ task' \in [Agreement -> {"none", "waiting", "checking", "extending"}]
        /\ deadline' \in [Agreement -> 0..(MaxHead + OfferLife)]
    BY <2>1, <2>8
  <2>10. memory' \in [Key -> Record] /\ asking' \subseteq Agreement /\ seen' \subseteq Key
    BY <2>1, <2>4
  <2> QED BY <2>1, <2>4, <2>5, <2>6, <2>7, <2>8, <2>9, <2>10, RestTypes DEF TypeOK
<1>16. CASE UNCHANGED vars
  BY <1>16 DEF vars, TypeOK, chainVars, memoryVars, taskVars, loopVars, history
<1> QED BY <1>1, <1>2, <1>3, <1>4, <1>5, <1>6, <1>7, <1>8, <1>9, <1>10, <1>11, <1>12, <1>13,
           <1>14, <1>15, <1>16 DEF Next, TaskStep
-----------------------------------------------------------------------------
LEMMA InitTInv == Init => TInv
<1> SUFFICES ASSUME Init PROVE TInv
  OBVIOUS
<1>1. /\ Born(0, LongLife) \in Record /\ Born(0, LongLife).expires = LongLife
      /\ Born(0, Life) \in Record /\ Born(0, Life).expires = Life
  BY BornFacts, Lives
<1>2. ASSUME NEW k \in Key
      PROVE  /\ chain[k] \in Record /\ chain[k].expires <= LongLife
             /\ k \in extended => chain[k].expires >= Life
             /\ k \notin extended => chain[k] = NoRecord
             /\ memory[k] = chain[k] /\ missed[k] = 0
  BY <1>1, NoRecordFacts, Lives DEF Init
<1>3. /\ head = 0 /\ due = Interval /\ loop = "rest" /\ page = {} /\ Listing \in extended
      /\ known \subseteq Agreement /\ memory = chain
  BY DEF Init
<1>4. TypeOK
  <2>1. /\ chain \in [Key -> Record] /\ memory \in [Key -> Record]
        /\ \A k \in Key : chain[k].expires <= head + LongLife
    BY <1>2, <1>3, Lives DEF Init
  <2>2. extended \subseteq Key /\ seen \subseteq Key /\ skipped \subseteq Key
    BY ListingIsKey, TenureAssumption DEF Init, Key
  <2>3. /\ 0 \in 0..MaxHead /\ 0 \in 0..(MaxHead + OfferLife) /\ 0 \in 0..(Forgiven + 1)
        /\ 0 \in 0..MaxFaults /\ Interval \in 0..(MaxHead + Interval) /\ 0 \in 0..0
    BY Lives
  <2>4. /\ missed \in [Key -> 0..(Forgiven + 1)] /\ deadline \in [Agreement -> 0..(MaxHead + OfferLife)]
        /\ task \in [Agreement -> {"none", "waiting", "checking", "extending"}]
    BY <2>3 DEF Init
  <2>5. /\ asking = {} /\ loop = "rest" /\ began = 0 /\ asof = 0 /\ page = {} /\ batch = {}
        /\ due = Interval /\ loose = {} /\ faults = 0 /\ head = 0
    BY DEF Init
  <2>6. used \in BOOLEAN
    BY DEF Init
  <2> QED BY <1>3, <2>1, <2>2, <2>3, <2>4, <2>5, <2>6 DEF TypeOK
<1>5. InTime /\ BatchFits
  BY <1>3, Lives DEF InTime, BatchFits
<1>6. MemoryBehind /\ SeenIsRead
  <2>1. \A k \in known \cup {Listing} : k \in Key
    BY <1>3, ListingIsKey
  <2> QED BY <1>2, <1>3, <1>4, <2>1, Typed DEF MemoryBehind, SeenIsRead, Behind
<1>7. MarkIsTrue
  BY <1>2, <1>3, NoRecordFacts DEF MarkIsTrue
<1>8. LifeLeft
  <2> SUFFICES ASSUME NEW k \in extended \ skipped
               PROVE  chain[k].expires > Room(missed[k]) + Delay + (due + Late)
    BY <1>3 DEF LifeLeft
  <2>1. k \in Key
    BY <1>4 DEF TypeOK
  <2>2. chain[k].expires >= Life /\ missed[k] = 0 /\ chain[k].expires \in Nat
    BY <1>2, <1>4, <2>1, Typed
  <2>3. Room(0) \in Nat /\ Room(0) + Interval + Late + Delay < Life
    BY RoomFacts, Lives
  <2> QED BY <1>3, <2>2, <2>3, Lives
<1> QED BY <1>4, <1>5, <1>6, <1>7, <1>8 DEF TInv

(* Steps that leave the chain, memory and the loop alone. *)
LEMMA StillKeeps ==
    ASSUME TInv, TypeOK',
           UNCHANGED <<head, chain, known, memory, loop, began, asof, page, batch, due,
                       extended, seen, missed, skipped>>
    PROVE  TInv'
<1>1. InTime' /\ BatchFits' /\ SeenIsRead' /\ LifeLeft'
  BY DEF TInv, InTime, BatchFits, SeenIsRead, LifeLeft
<1>2. MemoryBehind' /\ MarkIsTrue'
  BY DEF TInv, MemoryBehind, Behind, MarkIsTrue
<1> QED BY <1>1, <1>2 DEF TInv

LEMMA HeadKeeps ==
    ASSUME TInv, TypeOK', HeadAdvances
    PROVE  TInv'
<1>1. /\ head' = head + 1 /\ head < due + Late /\ (loop # "rest" => head < began + Delay)
      /\ UNCHANGED <<chain, known, memory, loop, began, asof, page, batch, due,
                     extended, seen, missed, skipped>>
  BY DEF HeadAdvances, memoryVars, loopVars, history
<1>2. TypeOK
  BY DEF TInv
<1>3. InTime'
  BY <1>1, <1>2, Typed, Lives DEF TInv, InTime
<1>4. ASSUME NEW k \in Key, chain[k].expires <= head + Life
      PROVE  chain'[k].expires <= head' + Life
  BY <1>1, <1>2, <1>4, Typed, Lives
<1>5. MemoryBehind'
  <2>1. \A k \in known \cup {Listing} : k \in Key
    BY <1>2, Typed, ListingIsKey
  <2>2. \A r \in page : r.key \in Key
    BY <1>2, Typed, ListingIsKey
  <2>3. \A k \in known' \cup {Listing} : Behind(memory[k], k)'
    BY <1>1, <1>4, <2>1 DEF TInv, MemoryBehind, Behind
  <2>4. \A r \in page' : Behind(r.record, r.key)'
    BY <1>1, <1>4, <2>2 DEF TInv, MemoryBehind, Behind
  <2> QED BY <2>3, <2>4 DEF MemoryBehind
<1>6. BatchFits'
  <2>1. \A k \in batch : k \in Key
    BY <1>2 DEF TypeOK
  <2> QED BY <1>1, <1>2, <2>1, Typed, Lives DEF TInv, BatchFits
<1>7. SeenIsRead' /\ MarkIsTrue' /\ LifeLeft'
  BY <1>1 DEF TInv, SeenIsRead, MarkIsTrue, LifeLeft
<1> QED BY <1>3, <1>5, <1>6, <1>7 DEF TInv

(* A life from now leaves room for all the refreshes a record may miss. *)
LEMMA FullLife ==
    ASSUME TInv
    PROVE  /\ head + Life > Room(0) + Delay + began
           /\ head + Life > Room(0) + Delay + (due + Late)
<1>1. head \in Nat /\ began \in Nat /\ due \in Nat /\ began <= head /\ due <= head + Interval
  BY Typed DEF TInv, TypeOK, InTime
<1>2. Room(0) \in Nat /\ Room(0) + (Interval + Late + Delay) < Life
  BY RoomFacts, Lives
<1> QED BY <1>1, <1>2, Lives

(* An extend lands: the loop goes on, or it was the loop's and is over. *)
LEMMA ExtendKeeps ==
    ASSUME TInv, TypeOK', NEW ks \in SUBSET Key, Applies(ks), ExtendRecords(ks),
           UNCHANGED <<head, known, due>>,
           \/ UNCHANGED <<loop, began, asof, page, batch>>
           \/ loop = "refresh" /\ batch = ks /\ Rest,
           \/ memory' = memory
           \/ \E a \in ks : memory' = [memory EXCEPT ![a].expires = head + Life],
           \A a \in seen' \cap known : IF a \in ks THEN memory'[a].expires = head + Life
                                       ELSE a \in seen
    PROVE  TInv'
<1>1. /\ \A k \in ks : /\ chain[k].expires > head /\ chain[k].expires < head + Life
                       /\ chain'[k].expires = head + Life /\ missed'[k] = 0
      /\ \A k \in Key \ ks : chain'[k] = chain[k] /\ missed'[k] = missed[k]
      /\ extended' = extended \cup ks /\ skipped' = skipped \ ks
  BY ExtendFacts DEF TInv
<1>2. /\ TypeOK /\ head \in Nat /\ Life \in Nat /\ Listing \in Key
      /\ \A k \in known : k \in Key
      /\ \A r \in page : r.key \in Key /\ r.record.expires \in Nat
      /\ \A k \in Key : chain[k].expires \in Nat /\ memory[k].expires \in Nat
  BY Typed, Lives, ListingIsKey DEF TInv
<1>3. \A k \in Key :
         \/ memory'[k] = memory[k]
         \/ k \in ks /\ memory'[k].expires = head + Life
  <2>1. ASSUME NEW a \in ks, memory' = [memory EXCEPT ![a].expires = head + Life]
        PROVE  /\ memory'[a].expires = head + Life
               /\ \A k \in Key : k # a => memory'[k] = memory[k]
    <3>1. memory[a] \in Record /\ a \in Key /\ memory \in [Key -> Record]
      BY <1>2, Typed DEF TypeOK
    <3> QED BY <2>1, <3>1 DEF Record
  <2> QED BY <2>1
<1>4. InTime'
  BY <1>2, Lives DEF TInv, InTime, Rest
<1>5. ASSUME NEW r, NEW k \in Key, r.expires \in Nat, Behind(r, k)
      PROVE  /\ r.expires <= chain'[k].expires
             /\ chain'[k].expires <= head' + Life \/ chain'[k].expires = r.expires
  <2>1. CASE k \in ks
    BY <1>1, <1>2, <1>5, <2>1 DEF Behind
  <2>2. CASE k \notin ks
    BY <1>1, <1>2, <1>5, <2>2 DEF Behind
  <2> QED BY <2>1, <2>2
<1>6. MemoryBehind'
  <2>1. ASSUME NEW k \in known' \cup {Listing} PROVE Behind(memory[k], k)'
    <3>0. k \in Key /\ Behind(memory[k], k) /\ memory[k].expires \in Nat
      BY <1>2 DEF TInv, MemoryBehind
    <3>1. CASE memory'[k] = memory[k]
      BY <1>5, <3>0, <3>1 DEF Behind
    <3>2. CASE k \in ks /\ memory'[k].expires = head + Life
      BY <1>1, <1>2, <3>2 DEF Behind
    <3> QED BY <1>2, <1>3, <3>1, <3>2
  <2>2. page' \subseteq page
    BY DEF Rest
  <2>3. ASSUME NEW r \in page' PROVE Behind(r.record, r.key)'
    <3>1. r.key \in Key /\ Behind(r.record, r.key) /\ r.record.expires \in Nat
      BY <1>2, <2>2 DEF TInv, MemoryBehind
    <3> QED BY <1>5, <3>1 DEF Behind
  <2> QED BY <2>1, <2>3 DEF MemoryBehind
<1>7. SeenIsRead'
  <2> SUFFICES ASSUME NEW a \in seen' \cap known PROVE memory'[a].expires = chain'[a].expires
    BY DEF SeenIsRead
  <2>1. CASE a \in ks
    BY <1>1, <2>1
  <2>2. CASE a \notin ks
    BY <1>1, <1>2, <1>3, <2>2 DEF TInv, SeenIsRead
  <2> QED BY <2>1, <2>2
<1>8. MarkIsTrue'
  <2>1. page' \subseteq page
    BY DEF Rest
  <2>2. ASSUME NEW k \in Key, WasExtended(chain'[k]) \/ WasExtended(memory'[k])
        PROVE  k \in extended'
    BY <1>1, <1>3, <2>2 DEF TInv, MarkIsTrue
  <2> QED BY <1>1, <2>1, <2>2 DEF TInv, MarkIsTrue, WasExtended
<1>9. BatchFits'
  <2> SUFFICES ASSUME loop' = "refresh", asof' # Unread, NEW k \in batch'
               PROVE  /\ k # Listing => chain'[k].expires > asof'
                      /\ chain'[k].expires <= head + Life
    BY DEF BatchFits
  <2>1. UNCHANGED <<loop, asof, batch>>
    BY DEF Rest
  <2>2. k \in Key /\ asof \in Int
    BY <1>2, <2>1, Lives DEF TypeOK, Unread
  <2>3. /\ k # Listing => chain[k].expires > asof
        /\ chain[k].expires <= head + Life
    BY <2>1 DEF TInv, BatchFits
  <2> QED BY <1>1, <1>2, <2>1, <2>2, <2>3
<1>10. LifeLeft'
  <2> SUFFICES ASSUME NEW k \in extended' \ skipped', missed'[k] <= Forgiven
               PROVE  chain'[k].expires >
                        Room(missed'[k]) + Delay
                          + (IF loop' = "refresh" /\ k \in batch' THEN began' ELSE due + Late)
    BY DEF LifeLeft
  <2>1. CASE k \in ks
    <3>1. chain'[k].expires = head + Life /\ missed'[k] = 0
      BY <1>1, <2>1
    <3>2. loop' = "refresh" => began' = began
      BY DEF Rest
    <3> QED BY <3>1, <3>2, FullLife
  <2>2. CASE k \notin ks
    <3>1. k \in Key /\ k \in extended \ skipped /\ chain'[k] = chain[k] /\ missed'[k] = missed[k]
      BY <1>1, <1>2, <2>2 DEF TypeOK
    <3>2. \/ UNCHANGED <<loop, began, batch>>
          \/ k \notin batch /\ loop' = "rest"
      BY <2>2 DEF Rest
    <3> QED BY <3>1, <3>2 DEF TInv, LifeLeft
  <2> QED BY <2>1, <2>2
<1> QED BY <1>4, <1>6, <1>7, <1>8, <1>9, <1>10 DEF TInv

(* A record kept up outlives the refreshes it may still miss. *)
LEMMA AliveForNow ==
    ASSUME TInv, NEW k \in extended \ skipped, missed[k] <= Forgiven
    PROVE  /\ k \in Key /\ missed[k] \in 0..Forgiven /\ Room(missed[k]) \in Nat
           /\ chain[k].expires > head + Room(missed[k])
<1>1. k \in Key /\ missed[k] \in 0..(Forgiven + 1) /\ chain[k].expires \in Nat
      /\ head \in Nat /\ began \in Nat /\ due \in Nat
  BY Typed DEF TInv, TypeOK
<1>2. missed[k] \in 0..Forgiven /\ Room(missed[k]) \in Nat
  BY <1>1, RoomFacts, Lives
<1>3. CASE loop = "refresh" /\ k \in batch
  <2>1. chain[k].expires > Room(missed[k]) + Delay + began /\ head <= began + Delay
    BY <1>3 DEF TInv, LifeLeft, InTime
  <2> QED BY <1>1, <1>2, <2>1, Lives
<1>4. CASE ~(loop = "refresh" /\ k \in batch)
  <2>1. chain[k].expires > Room(missed[k]) + Delay + (due + Late) /\ head <= due + Late
    BY <1>4 DEF TInv, LifeLeft, InTime
  <2> QED BY <1>1, <1>2, <2>1, Lives
<1> QED BY <1>1, <1>2, <1>3, <1>4

(* An accepted offer: a record nobody extended, of an agreement that memory
   does not know. *)
LEMMA AcceptKeeps ==
    ASSUME TInv, TypeOK', NEW a \in Agreement, NEW heard \in BOOLEAN, Accept(a, heard)
    PROVE  TInv'
<1>1. /\ loop = "offers" /\ head > asof /\ a \notin known /\ chain[a] = NoRecord
      /\ chain' = [chain EXCEPT ![a] = Born(head, OfferLife)]
      /\ known' = IF heard THEN known \cup {a} ELSE known
      /\ memory' = IF heard
                   THEN [memory EXCEPT ![a] = [created |-> asof, expires |-> head + OfferLife]]
                   ELSE memory
      /\ seen' = seen \cup {a}
      /\ UNCHANGED <<head, loop, began, asof, page, batch, due, extended, missed, skipped>>
  BY DEF Accept, taskVars, loopVars
<1>2. /\ TypeOK /\ head \in Nat /\ began \in Nat /\ Listing \in Key /\ a \in Key /\ a # Listing
      /\ \A k \in known : k \in Key /\ k # a
      /\ \A r \in page : r.key \in Key /\ r.record.expires \in Nat
      /\ \A k \in Key : chain[k].expires \in Nat /\ memory[k].expires \in Nat
      /\ chain \in [Key -> Record] /\ memory \in [Key -> Record]
  BY <1>1, Typed, ListingIsKey DEF TInv, TypeOK
<1>3. Born(head, OfferLife).created = head /\ Born(head, OfferLife).expires = head + OfferLife
  BY BornFacts, <1>2, Lives DEF TypeOK
<1>4. /\ chain'[a].created = head /\ chain'[a].expires = head + OfferLife /\ chain[a].expires = 0
      /\ \A k \in Key : k # a => chain'[k] = chain[k]
  BY <1>1, <1>2, <1>3, NoRecordFacts
<1>5. /\ \A k \in Key : k # a => memory'[k] = memory[k]
      /\ \/ memory'[a] = memory[a] /\ known' = known
         \/ memory'[a] = [created |-> asof, expires |-> head + OfferLife] /\ known' = known \cup {a}
  BY <1>1, <1>2
<1>6. asof = began /\ head <= asof + Delay
  BY <1>1 DEF TInv, InTime
<1>7. InTime' /\ BatchFits'
  BY <1>1 DEF TInv, InTime, BatchFits
<1>8. MemoryBehind'
  <2>1. ASSUME NEW k \in known' \cup {Listing} PROVE Behind(memory[k], k)'
    <3>1. CASE k = a
      <4>1. memory'[a] = [created |-> asof, expires |-> head + OfferLife]
        BY <1>2, <1>5, <3>1
      <4>2. memory'[a].expires = head + OfferLife
        BY <4>1
      <4> QED BY <1>1, <1>2, <1>4, <3>1, <4>2, Lives DEF Behind
    <3>2. CASE k # a
      <4>1. k \in known \cup {Listing} /\ k \in Key
        BY <1>2, <1>5, <3>2
      <4>2. memory'[k] = memory[k] /\ chain'[k] = chain[k] /\ head' = head
        BY <1>1, <1>4, <1>5, <3>2, <4>1
      <4> QED BY <4>1, <4>2 DEF TInv, MemoryBehind, Behind
    <3> QED BY <3>1, <3>2
  <2>2. ASSUME NEW r \in page' PROVE Behind(r.record, r.key)'
    <3>1. r.key \in Key /\ r.record.expires \in Nat /\ Behind(r.record, r.key)
      BY <1>1, <1>2 DEF TInv, MemoryBehind
    <3>2. CASE r.key = a
      <4>1. r.record.expires <= 0
        BY <1>4, <3>1, <3>2 DEF Behind
      <4> QED BY <1>1, <1>2, <1>4, <3>1, <3>2, <4>1, Lives DEF Behind
    <3>3. CASE r.key # a
      BY <1>1, <1>4, <3>1, <3>3 DEF Behind
    <3> QED BY <3>2, <3>3
  <2> QED BY <2>1, <2>2 DEF MemoryBehind
<1>9. SeenIsRead'
  <2> SUFFICES ASSUME NEW b \in seen' \cap known' PROVE memory'[b].expires = chain'[b].expires
    BY DEF SeenIsRead
  <2>1. CASE b = a
    <3>1. memory'[a] = [created |-> asof, expires |-> head + OfferLife]
      BY <1>2, <1>5, <2>1
    <3> QED BY <1>4, <2>1, <3>1
  <2>2. CASE b # a
    BY <1>1, <1>2, <1>4, <1>5, <2>2 DEF TInv, SeenIsRead
  <2> QED BY <2>1, <2>2
<1>10. MarkIsTrue'
  <2>1. ~WasExtended(chain'[a])
    BY <1>2, <1>4, Lives DEF WasExtended
  <2>2. memory'[a] = memory[a] \/ ~WasExtended(memory'[a])
    <3>1. ~WasExtended([created |-> asof, expires |-> head + OfferLife])
      BY <1>2, <1>6, Lives DEF WasExtended
    <3> QED BY <1>5, <3>1
  <2>3. \A k \in Key : WasExtended(chain'[k]) \/ WasExtended(memory'[k]) => k \in extended
    BY <1>4, <1>5, <2>1, <2>2 DEF TInv, MarkIsTrue
  <2> QED BY <1>1, <2>3 DEF TInv, MarkIsTrue, WasExtended
<1>11. LifeLeft'
  <2>1. ASSUME a \in extended \ skipped, missed[a] <= Forgiven PROVE FALSE
    <3>1. Room(missed[a]) \in Nat /\ chain[a].expires > head + Room(missed[a])
      BY <2>1, AliveForNow
    <3> QED BY <1>2, <1>4, <3>1
  <2>2. \A k \in extended \ skipped : k \in Key
    BY <1>2 DEF TypeOK
  <2> QED BY <1>1, <1>4, <2>1, <2>2 DEF TInv, LifeLeft
<1> QED BY <1>7, <1>8, <1>9, <1>10, <1>11 DEF TInv

LEMMA PollReadsKeeps ==
    ASSUME TInv, TypeOK', PollReads
    PROVE  TInv'
<1>1. /\ loop = "rest" /\ loop' = "poll" /\ began' = head /\ asof' = head
      /\ page' = {[key |-> a, record |-> chain[a]] : a \in {b \in Agreement : Live(b)}}
      /\ UNCHANGED <<head, chain, known, memory, batch, due, extended, seen, missed, skipped>>
  BY DEF PollReads, chainVars, memoryVars, taskVars, history
<1>2. \A k \in Key : chain[k].expires \in Nat
  BY Typed DEF TInv
<1>3. \A r \in page' : r.key \in Key /\ r.record = chain[r.key]
  BY <1>1, ListingIsKey
<1>4. InTime' /\ BatchFits' /\ SeenIsRead'
  BY <1>1, Lives, Typed DEF TInv, InTime, BatchFits, SeenIsRead
<1>5. MemoryBehind'
  <2>1. \A r \in page' : Behind(r.record, r.key)'
    BY <1>1, <1>2, <1>3 DEF Behind
  <2>2. \A k \in known' \cup {Listing} : Behind(memory[k], k)'
    BY <1>1 DEF TInv, MemoryBehind, Behind
  <2> QED BY <2>1, <2>2 DEF MemoryBehind
<1>6. MarkIsTrue'
  BY <1>1, <1>3 DEF TInv, MarkIsTrue, WasExtended
<1>7. LifeLeft'
  BY <1>1 DEF TInv, LifeLeft
<1> QED BY <1>4, <1>5, <1>6, <1>7 DEF TInv

LEMMA ReconcileKeeps ==
    ASSUME TInv, TypeOK', Reconcile
    PROVE  TInv'
<1>1. /\ loop = "poll" /\ loop' = "offers" /\ page' = {} /\ known' = Listed
      /\ memory' = [k \in Key |-> IF k \in Listed THEN Read(k)
                                  ELSE IF k = Listing THEN memory[k] ELSE NoRecord]
      /\ seen' = {k \in Key : k \in Listed => Read(k) = chain[k]}
      /\ UNCHANGED <<head, chain, began, asof, batch, due, extended, missed, skipped>>
  BY DEF Reconcile, Adopted, chainVars, taskVars
<1>2. Listing \in Key /\ \A k \in Listed : k \in Key /\ k # Listing
  BY Typed, ListingIsKey DEF TInv, Listed
<1>3. \A k \in Listed : /\ memory'[k] = Read(k) /\ Behind(Read(k), k)
                        /\ WasExtended(Read(k)) => k \in extended
  BY <1>1, <1>2, ReadFacts DEF TInv, MemoryBehind, MarkIsTrue
<1>4. /\ memory'[Listing] = memory[Listing]
      /\ \A k \in Key : k \notin Listed /\ k # Listing => memory'[k] = NoRecord
  BY <1>1, <1>2
<1>5. InTime' /\ BatchFits' /\ LifeLeft'
  BY <1>1 DEF TInv, InTime, BatchFits, LifeLeft
<1>6. MemoryBehind'
  <2>1. \A k \in known' \cup {Listing} : Behind(memory[k], k)'
    BY <1>1, <1>3, <1>4 DEF TInv, MemoryBehind, Behind
  <2> QED BY <1>1, <2>1 DEF MemoryBehind
<1>7. SeenIsRead'
  BY <1>1, <1>3 DEF SeenIsRead
<1>8. MarkIsTrue'
  <2>1. \A k \in Key : WasExtended(memory'[k]) => k \in extended
    BY <1>3, <1>4, NoRecordFacts DEF TInv, MarkIsTrue
  <2> QED BY <1>1, <2>1 DEF TInv, MarkIsTrue, WasExtended
<1> QED BY <1>5, <1>6, <1>7, <1>8 DEF TInv

LEMMA PollEndsKeeps ==
    ASSUME TInv, TypeOK', PollEnds
    PROVE  TInv'
<1>1. /\ loop # "refresh" /\ loop' = "rest" /\ page' = {}
      /\ UNCHANGED <<head, chain, known, memory, due, extended, seen, missed, skipped>>
  BY DEF PollEnds, Rest, chainVars, memoryVars, taskVars, history
<1>2. InTime' /\ BatchFits' /\ SeenIsRead' /\ LifeLeft'
  BY <1>1 DEF TInv, InTime, BatchFits, SeenIsRead, LifeLeft
<1>3. MemoryBehind' /\ MarkIsTrue'
  BY <1>1 DEF TInv, MemoryBehind, Behind, MarkIsTrue, WasExtended
<1> QED BY <1>2, <1>3 DEF TInv

(* The refresh begins.  A record is in its batch, or a poll did not come and
   the refresh is lost to it, or its expiry is a longer life away. *)
LEMMA RefreshBeginsKeeps ==
    ASSUME TInv, TypeOK', NEW h \in {head, Unread}, NEW eligible \in SUBSET known,
           RefreshBegins(h, eligible)
    PROVE  TInv'
<1>1. /\ loop = "rest" /\ head >= due /\ loop' = "refresh" /\ began' = head /\ asof' = h
      /\ due' = head + Interval /\ batch' = RefreshBatch(h, eligible)
      /\ skipped' = skipped \cup (Agreement \ eligible)
      /\ missed' = Lost(Key \ (seen \cup batch'))
      /\ UNCHANGED <<head, chain, known, memory, page, extended, seen>>
  BY DEF RefreshBegins, chainVars, memoryVars, taskVars
<1>2. /\ TypeOK /\ head \in Nat /\ due \in Nat /\ Listing \in Key
      /\ \A k \in eligible : k \in known /\ k \in Key
      /\ \A k \in Key : chain[k].expires \in Nat /\ memory[k].expires \in Nat
  BY Typed, ListingIsKey DEF TInv
<1>3. InTime'
  BY <1>1, <1>2, Lives DEF InTime
<1>4. MemoryBehind' /\ SeenIsRead' /\ MarkIsTrue'
  BY <1>1 DEF TInv, MemoryBehind, Behind, SeenIsRead, MarkIsTrue, WasExtended
<1>5. BatchFits'
  <2> SUFFICES ASSUME h # Unread, NEW k \in batch'
               PROVE  /\ k # Listing => chain[k].expires > h
                      /\ chain[k].expires <= head + Life
    BY <1>1 DEF BatchFits
  <2>1. h = head /\ k \in known \cup {Listing} /\ k \in Key
    BY <1>1, <1>2 DEF RefreshBatch
  <2>2. /\ k # Listing => ~(memory[k].expires <= h)
        /\ ~(memory[k].expires > h + Life)
    BY <1>1 DEF RefreshBatch, Expired, ExpiresLater
  <2>3. Behind(memory[k], k)
    BY <2>1 DEF TInv, MemoryBehind
  <2> QED BY <1>2, <2>1, <2>2, <2>3, Lives DEF Behind
<1>6. LifeLeft'
  <2> SUFFICES ASSUME NEW k \in extended \ skipped', missed'[k] <= Forgiven
               PROVE  chain[k].expires >
                        Room(missed'[k]) + Delay
                          + (IF k \in batch' THEN head ELSE head + Interval + Late)
    BY <1>1, <1>2, Lives DEF LifeLeft
  <2>1. k \in Key /\ k \in extended \ skipped /\ (k = Listing \/ k \in eligible)
    BY <1>1, <1>2 DEF TypeOK, Key
  <2>2. missed[k] \in Nat /\ missed[k] <= missed'[k] /\ missed'[k] \in 0..(Forgiven + 1)
    BY <1>1, <1>2, <2>1, LostFacts, Typed
  <2>3. missed[k] <= Forgiven
    BY <2>2, Lives
  <2>4. /\ missed[k] \in 0..Forgiven /\ Room(missed[k]) \in Nat
        /\ chain[k].expires > Room(missed[k]) + Delay + (due + Late) /\ head <= due + Late
    BY <1>1, <2>1, <2>3, AliveForNow DEF TInv, LifeLeft, InTime
  <2>5. CASE k \in batch'
    <3>1. missed'[k] = missed[k]
      BY <1>1, <1>2, <2>1, <2>5, LostFacts
    <3> QED BY <1>2, <2>1, <2>4, <2>5, <3>1, Lives
  <2>6. CASE k \notin batch' /\ k \notin seen
    <3>1. missed'[k] = missed[k] + 1
      BY <1>1, <1>2, <2>1, <2>3, <2>6, LostFacts
    <3>2. Room(missed'[k]) = Room(missed[k]) - (Interval + Late + Delay)
      BY <2>4, <3>1, RoomFacts, Lives
    <3> QED BY <1>2, <2>1, <2>4, <2>6, <3>2, Lives
  <2>7. CASE k \notin batch' /\ k \in seen
    <3>1. missed'[k] = missed[k]
      BY <1>1, <1>2, <2>1, <2>7, LostFacts
    <3>2. \/ k # Listing /\ h # Unread /\ memory[k].expires <= h
          \/ h # Unread /\ memory[k].expires > h + Life
      BY <1>1, <2>1, <2>7 DEF RefreshBatch, Expired, ExpiresLater
    <3>3. chain[k].expires > head
      BY <1>2, <2>1, <2>4, Lives
    <3>4. h = head /\ memory[k].expires > head + Life
      <4>1. k # Listing => memory[k].expires = chain[k].expires
        BY <1>2, <2>1, <2>7 DEF TInv, SeenIsRead
      <4> QED BY <1>2, <2>1, <3>2, <3>3, <4>1, Lives
    <3>5. Behind(memory[k], k)
      BY <1>2, <2>1 DEF TInv, MemoryBehind
    <3>6. Room(missed[k]) <= Room(0) /\ Room(0) \in Nat /\ Room(0) + (Interval + Late + Delay) < Life
      BY <2>4, RoomFacts, Lives
    <3> QED BY <1>2, <2>1, <2>4, <2>7, <3>1, <3>4, <3>5, <3>6, Lives DEF Behind
  <2> QED BY <2>5, <2>6, <2>7
<1> QED BY <1>3, <1>4, <1>5, <1>6 DEF TInv

(* The refresh ends and nothing was extended. *)
LEMMA RefreshLostKeeps ==
    ASSUME TInv, TypeOK', loop = "refresh", Rest, missed' = Lost(batch),
           UNCHANGED <<head, chain, known, memory, due, extended, seen, skipped>>
    PROVE  TInv'
<1>1. loop' = "rest" /\ page' = {} /\ TypeOK
  BY DEF Rest, TInv
<1>2. InTime' /\ BatchFits' /\ SeenIsRead'
  BY <1>1 DEF TInv, InTime, BatchFits, SeenIsRead
<1>3. MemoryBehind' /\ MarkIsTrue'
  BY <1>1 DEF TInv, MemoryBehind, Behind, MarkIsTrue, WasExtended
<1>4. LifeLeft'
  <2> SUFFICES ASSUME NEW k \in extended \ skipped, missed'[k] <= Forgiven
               PROVE  chain[k].expires > Room(missed'[k]) + Delay + (due + Late)
    BY <1>1 DEF LifeLeft
  <2>1. k \in Key /\ chain[k].expires \in Nat /\ due \in Nat /\ began \in Nat
    BY <1>1, Typed DEF TypeOK
  <2>2. missed[k] \in Nat /\ missed[k] <= missed'[k] /\ missed'[k] \in 0..(Forgiven + 1)
    BY <1>1, <2>1, LostFacts, Typed
  <2>3. missed[k] <= Forgiven
    BY <2>2, Lives
  <2>4. missed[k] \in 0..Forgiven /\ Room(missed[k]) \in Nat
    BY <2>3, AliveForNow
  <2>5. CASE k \in batch
    <3>1. missed'[k] = missed[k] + 1
      BY <1>1, <2>1, <2>3, <2>5, LostFacts
    <3>2. Room(missed'[k]) = Room(missed[k]) - (Interval + Late + Delay)
      BY <2>4, <3>1, RoomFacts, Lives
    <3>3. chain[k].expires > Room(missed[k]) + Delay + began /\ due = began + Interval
      BY <2>3, <2>5 DEF TInv, LifeLeft, InTime
    <3> QED BY <2>1, <2>4, <3>2, <3>3, Lives
  <2>6. CASE k \notin batch
    <3>1. missed'[k] = missed[k]
      BY <1>1, <2>1, <2>6, LostFacts
    <3> QED BY <2>3, <2>6, <3>1 DEF TInv, LifeLeft
  <2> QED BY <2>5, <2>6
<1> QED BY <1>2, <1>3, <1>4 DEF TInv

LEMMA RestartKeeps ==
    ASSUME TInv, TypeOK', Restart
    PROVE  TInv'
<1>1. /\ chain' = IF Live(Listing) THEN chain ELSE [chain EXCEPT ![Listing] = Born(head, Life)]
      /\ missed' = IF Live(Listing) THEN Lost(Key) ELSE [Lost(Agreement) EXCEPT ![Listing] = 0]
      /\ known' = {a \in Agreement : Live(a)} /\ memory' = chain' /\ seen' = Key
      /\ loop' = "rest" /\ page' = {} /\ due' = head + Interval
      /\ UNCHANGED <<head, extended, skipped>>
  BY DEF Restart, Rest
<1>2. /\ TypeOK /\ head \in Nat /\ Listing \in Key /\ Listing \notin Agreement
      /\ \A k \in known' : k \in Key
      /\ \A k \in Key : chain[k].expires \in Nat /\ chain'[k].expires \in Nat
      /\ \A k \in Key : k # Listing => k \in Agreement
  <2>1. \A k \in Key : chain'[k].expires \in Nat
    <3>1. \A x \in Record : x.expires \in Nat
      BY Lives DEF Record
    <3> QED BY <3>1 DEF TypeOK
  <2> QED BY <1>1, <2>1, Typed, ListingIsKey DEF TInv, Key
<1>3. Born(head, Life).expires = head + Life
  BY BornFacts, <1>2, Lives DEF TypeOK
<1>4. ASSUME NEW k \in Key
      PROVE  \/ chain'[k] = chain[k] /\ missed'[k] = Lost(Key)[k]
             \/ k = Listing /\ chain'[k].expires = head + Life /\ missed'[k] = 0
  <2>1. CASE Live(Listing)
    BY <1>1, <2>1
  <2>2. CASE ~Live(Listing)
    <3>1. /\ chain' = [chain EXCEPT ![Listing] = Born(head, Life)]
          /\ missed' = [Lost(Agreement) EXCEPT ![Listing] = 0]
      BY <1>1, <2>2
    <3>2. chain \in [Key -> Record] /\ Lost(Agreement) \in [Key -> 0..(Forgiven + 1)]
      BY <1>2, LostFacts DEF TypeOK
    <3>3. CASE k = Listing
      BY <1>3, <3>1, <3>2, <3>3
    <3>4. CASE k # Listing
      <4>1. Lost(Agreement)[k] = Lost(Key)[k]
        BY <1>2, <3>4 DEF Lost
      <4> QED BY <3>1, <3>2, <3>4, <4>1
    <3> QED BY <3>3, <3>4
  <2> QED BY <2>1, <2>2
<1>5. InTime' /\ BatchFits' /\ SeenIsRead'
  BY <1>1, <1>2, Lives DEF InTime, BatchFits, SeenIsRead
<1>6. MemoryBehind'
  BY <1>1, <1>2 DEF MemoryBehind, Behind
<1>7. MarkIsTrue'
  <2>1. \A k \in Key : WasExtended(chain'[k]) => k \in extended
    BY <1>4 DEF TInv, MarkIsTrue
  <2> QED BY <1>1, <2>1 DEF TInv, MarkIsTrue, WasExtended
<1>8. LifeLeft'
  <2> SUFFICES ASSUME NEW k \in extended \ skipped, missed'[k] <= Forgiven
               PROVE  chain'[k].expires > Room(missed'[k]) + Delay + (head + Interval + Late)
    BY <1>1 DEF LifeLeft
  <2>1. k \in Key
    BY <1>2 DEF TypeOK
  <2>2. CASE chain'[k] = chain[k] /\ missed'[k] = Lost(Key)[k]
    <3>1. missed[k] \in Nat /\ missed[k] <= missed'[k]
      BY <1>2, <2>1, <2>2, LostFacts, Typed
    <3>2. missed[k] <= Forgiven
      BY <1>2, <2>1, <2>2, <3>1, LostFacts, Lives
    <3>3. missed'[k] = missed[k] + 1
      BY <1>2, <2>1, <2>2, <3>2, LostFacts
    <3>4. /\ missed[k] \in 0..Forgiven /\ Room(missed[k]) \in Nat
          /\ chain[k].expires > head + Room(missed[k])
      BY <3>2, AliveForNow
    <3>5. Room(missed'[k]) = Room(missed[k]) - (Interval + Late + Delay)
      BY <3>3, <3>4, RoomFacts, Lives
    <3> QED BY <1>2, <2>1, <2>2, <3>4, <3>5, Lives
  <2>3. CASE k = Listing /\ chain'[k].expires = head + Life /\ missed'[k] = 0
    <3>1. Room(0) \in Nat /\ Room(0) + (Interval + Late + Delay) < Life
      BY RoomFacts, Lives
    <3> QED BY <1>2, <2>3, <3>1, Lives
  <2> QED BY <1>4, <2>1, <2>2, <2>3
<1> QED BY <1>5, <1>6, <1>7, <1>8 DEF TInv

LEMMA NextTInv == TInv /\ [Next]_vars => TInv'
<1> SUFFICES ASSUME TInv, [Next]_vars PROVE TInv'
  OBVIOUS
<1>0. TypeOK' /\ TypeOK
  BY NextTypes DEF TInv
<1>1. CASE HeadAdvances
  BY <1>0, <1>1, HeadKeeps
<1>2. CASE LooseLands
  <2>1. /\ loose \in SUBSET Key /\ Applies(loose) /\ ExtendRecords(loose)
        /\ seen' = seen \ (loose \ {Listing}) /\ Listing \notin known
        /\ UNCHANGED <<head, known, due, loop, began, asof, page, batch, memory>>
    BY <1>0, <1>2, ListingIsKey DEF LooseLands, TypeOK, memoryVars, loopVars
  <2> QED BY <1>0, <2>1, ExtendKeeps
<1>3. CASE LooseDropped
  BY <1>0, <1>3, StillKeeps DEF LooseDropped, memoryVars, loopVars, history
<1>4. CASE TaskStep
  BY <1>0, <1>4, StillKeeps
     DEF TaskStep, GivesUp, ProbesPass, FoundWrong, AskExtend, ExtendFails, Admission,
         chainVars, memoryVars, loopVars, history
<1>5. ASSUME NEW a \in Agreement, ExtendUnresolved(a) PROVE TInv'
  BY <1>0, <1>5, StillKeeps DEF ExtendUnresolved, memoryVars, loopVars, history
<1>6. ASSUME NEW a \in Agreement, NEW heard \in BOOLEAN, ExtendLands(a, heard) PROVE TInv'
  <2> DEFINE ks == {a}
  <2>1. /\ ks \in SUBSET Key /\ Applies(ks) /\ ExtendRecords(ks) /\ a \in ks
        /\ \A k \in ks : k = a
        /\ UNCHANGED <<head, known, due, loop, began, asof, page, batch>>
    BY <1>6, ListingIsKey DEF ExtendLands, loopVars
  <2>2. \/ memory' = memory
        \/ memory' = [memory EXCEPT ![a].expires = head + Life]
    BY <1>6 DEF ExtendLands
  <2>3. ASSUME NEW b \in seen' \cap known
        PROVE  IF b \in ks THEN memory'[b].expires = head + Life ELSE b \in seen
    <3>1. CASE b = a
      <4>1. memory' = [memory EXCEPT ![a].expires = head + Life]
        BY <1>6, <2>3, <3>1 DEF ExtendLands
      <4>2. memory \in [Key -> Record] /\ a \in Key
        BY <1>0, ListingIsKey DEF TypeOK
      <4>3. memory'[a].expires = head + Life
        BY <4>1, <4>2 DEF Record
      <4> QED BY <3>1, <4>3
    <3>2. CASE b # a
      BY <1>6, <2>3, <3>2 DEF ExtendLands
    <3> QED BY <3>1, <3>2
  <2> HIDE DEF ks
  <2> QED BY <1>0, <2>1, <2>2, <2>3, ExtendKeeps
<1>7. ASSUME NEW a \in Agreement, NEW heard \in BOOLEAN, Accept(a, heard) PROVE TInv'
  BY <1>0, <1>7, AcceptKeeps
<1>8. CASE PollReads
  BY <1>0, <1>8, PollReadsKeeps
<1>9. CASE Reconcile
  BY <1>0, <1>9, ReconcileKeeps
<1>10. CASE PollEnds
  BY <1>0, <1>10, PollEndsKeeps
<1>11. ASSUME NEW h \in {head, Unread}, NEW eligible \in SUBSET known, RefreshBegins(h, eligible)
       PROVE  TInv'
  BY <1>0, <1>11, RefreshBeginsKeeps
<1>12. CASE RefreshLands
  <2>1. /\ batch \in SUBSET Key /\ Applies(batch) /\ ExtendRecords(batch)
        /\ seen' = seen \ (batch \ {Listing}) /\ Listing \notin known
        /\ loop = "refresh" /\ Rest /\ UNCHANGED <<head, known, due, memory>>
    BY <1>0, <1>12, ListingIsKey DEF RefreshLands, TypeOK, memoryVars
  <2> QED BY <1>0, <2>1, ExtendKeeps
<1>13. CASE RefreshFails \/ RefreshUnresolved
  <2>1. /\ loop = "refresh" /\ Rest /\ missed' = Lost(batch)
        /\ UNCHANGED <<head, chain, known, memory, due, extended, seen, skipped>>
    BY <1>13 DEF RefreshFails, RefreshUnresolved, chainVars, memoryVars
  <2> QED BY <1>0, <2>1, RefreshLostKeeps
<1>14. CASE Restart
  BY <1>0, <1>14, RestartKeeps
<1>15. CASE UNCHANGED vars
  BY <1>0, <1>15, StillKeeps DEF vars, chainVars, memoryVars, loopVars, history
<1> QED BY <1>1, <1>2, <1>3, <1>4, <1>5, <1>6, <1>7, <1>8, <1>9, <1>10, <1>11, <1>12, <1>13,
           <1>14, <1>15 DEF Next, TaskStep

LEMMA TInvHolds == Spec => []TInv
<1> QED BY InitTInv, NextTInv, PTL DEF Spec

-----------------------------------------------------------------------------
(* The records, memory, the tasks and the loop keep their types, and a
   refresh's date and the loop's job stay within their time. *)
THEOREM TenureTypeOK == Spec => []TypeOK
<1>1. TInv => TypeOK
  BY DEF TInv
<1> QED BY <1>1, TInvHolds, PTL

(* A refresh that read the head is refused for what happened after the read,
   and for nothing that memory could have told it (refresh_batch). *)
THEOREM RefusalIsExplained == Spec => []RefusalExplained
<1>1. TInv => RefusalExplained
  <2> SUFFICES ASSUME TInv, loop = "refresh", asof # Unread, ~Applies(batch)
               PROVE  \E k \in batch :
                         \/ chain[k].expires \in (asof + 1)..head
                         \/ chain[k].expires = head + Life
                         \/ k = Listing /\ ~Live(Listing)
    BY DEF RefusalExplained
  <2>1. PICK k \in batch : ~(Live(k) /\ chain[k].expires < head + Life)
    BY DEF Applies
  <2>2. k \in Key /\ chain[k].expires \in Nat /\ head \in Nat /\ asof \in Nat
    BY Typed DEF TInv, TypeOK
  <2>3. /\ k # Listing => chain[k].expires > asof
        /\ chain[k].expires <= head + Life
    BY DEF TInv, BatchFits
  <2>4. CASE Live(k)
    BY <2>1, <2>2, <2>3, <2>4, Lives
  <2>5. CASE ~Live(k)
    BY <2>2, <2>3, <2>5 DEF Live
  <2> QED BY <2>4, <2>5
<1> QED BY <1>1, TInvHolds, PTL

(* A record whose provider was eligible at every refresh is alive, unless it
   missed more refreshes than are forgiven (Agent::refresh; config.rs:
   agreement_life, refresh_interval). *)
THEOREM RecordsKeptAlive == Spec => []KeptAlive
<1>1. TInv => KeptAlive
  <2> SUFFICES ASSUME TInv, NEW k \in extended \ skipped, missed[k] <= Forgiven PROVE Live(k)
    BY DEF KeptAlive
  <2>1. k \in Key /\ Room(missed[k]) \in Nat /\ chain[k].expires > head + Room(missed[k])
    BY AliveForNow
  <2> QED BY <2>1, Typed DEF TInv, Live
<1> QED BY <1>1, TInvHolds, PTL

(* What memory takes for extended was extended (was_extended): the creation
   block it guesses for a record it accepted is off by less than the lives
   differ. *)
THEOREM ExtendedWasExtended == Spec => []ExtendedMeansExtended
<1>1. TInv => ExtendedMeansExtended
  BY Typed DEF TInv, MarkIsTrue, ExtendedMeansExtended
<1> QED BY <1>1, TInvHolds, PTL
=============================================================================
