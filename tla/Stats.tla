------------------------------- MODULE Stats --------------------------------
(***************************************************************************)
(* The hourly statistics (crates/lb/src/stats.rs): a ring of buckets for   *)
(* each counter, closed by the tick task at every full hour and at a stop  *)
(* as a difference of readings, saved to a file, and read back by the next *)
(* process.  Providers join and leave the pool meanwhile; each time a new  *)
(* entry is made, with counters at zero.                                   *)
(*                                                                         *)
(* A provider's two counters are read one after the other and closed       *)
(* together, and so are the LB's three: one stands for each.  Hours are    *)
(* counted from 0 and the clock is not set back.                           *)
(***************************************************************************)
EXTENDS Integers, Sequences, FiniteSets, SequencesExt

CONSTANTS
    Provider,    \* providers, by pool id
    Lb,          \* the LB's own answers
    Hours,       \* buckets a ring holds
    MaxHour,     \* bound: hours that pass
    MaxAnswers,  \* bound: answers of all counters
    MaxStarts,   \* bound: processes
    MaxJoins,    \* bound: times a provider joins
    MaxLate      \* bound: full hours a tick may be late

ASSUME StatsAssumption ==
    /\ Lb \notin Provider /\ Hours \in Nat \ {0}
    /\ MaxHour \in Nat /\ MaxAnswers \in Nat /\ MaxStarts \in Nat
    /\ MaxJoins \in Nat /\ MaxLate \in Nat

Key == Provider \cup {Lb}
None == -1  \* Ring::last before the first tick

VARIABLES
    hour,     \* the hour on the wall clock
    task,     \* what the tick task does: "off" when there is no process
    open,     \* the hour whose end it waits for
    members,  \* providers in the pool
    reading,  \* the counter on each entry, and the LB's
    rings,    \* Stats
    file,     \* the file: the rings as they were saved last
    starts,   \* processes so far
    answered, \* history: answers given
    missed,   \* history: answers known not to be in any bucket
    fresh,    \* history: answers since the last close that read the counter
    unsaved,  \* history: answers since the close that is in the file
    unread,   \* history: answers in the file that the process could not read
    cut,      \* history: hours a counter was not there for the whole of
    rejoined, \* history: providers that came back within one process
    joins     \* how often a provider has joined

poolVars == <<members, reading>>
countVars == <<answered, missed, fresh, unsaved, unread>>
vars == <<hour, task, open, members, reading, rings, file, starts, answered, missed,
          fresh, unsaved, unread, cut, rejoined, joins>>

(* `gone' is history: the counts of buckets the ring no longer holds. *)
EmptyRing == [buckets |-> <<>>, last |-> None, gone |-> 0]
NoRings == [k \in Key |-> EmptyRing]
Zeros == [k \in Key |-> 0]

Init ==
    /\ hour = 0 /\ task = "off" /\ open = 0 /\ members = {} /\ reading = Zeros
    /\ rings = NoRings /\ file = NoRings /\ starts = 0
    /\ answered = Zeros /\ missed = Zeros /\ fresh = Zeros /\ unsaved = Zeros
    /\ unread = Zeros /\ cut = [k \in Key |-> {}] /\ rejoined = {} /\ joins = 0

Running == task # "off"

(* The hour that answers count towards: a tick that is late closes its own. *)
Counting == IF task = "waiting" THEN open ELSE hour
Count(bs) ==
    LET upTo[i \in 0..Len(bs)] == IF i = 0 THEN 0 ELSE upTo[i - 1] + bs[i].count
    IN upTo[Len(bs)]

(* All that a ring counted. *)
Total(ring) == Count(ring.buckets) + ring.gone

(***************************************************************************)
(* Ring::close and Stats::close.                                           *)
(***************************************************************************)

(* Variant for the checks: a bucket of its own at every close. *)
NeverSameHour(ring, start) == FALSE

(* A stop left a bucket for this hour. *)
SameHour(ring, start) == ring.buckets # <<>> /\ Last(ring.buckets).start = start

(* Variant for the checks: only a stop makes an hour partial. *)
CutByStop(ring, stopping) == stopping

Partial(ring, stopping) == stopping \/ ring.last = None

(* Variant for the checks: the reading, not what it grew by. *)
SinceTheStart(ring, now) == now

(* A saturating difference. *)
Since(ring, now) == IF ring.last = None THEN now
                    ELSE IF now >= ring.last THEN now - ring.last ELSE 0

(* Variant for the checks: room is made one bucket late. *)
FullLate(ring) == Len(ring.buckets) > Hours

Full(ring) == Len(ring.buckets) = Hours

CloseRing(ring, start, now, stopping) ==
    LET n == Len(ring.buckets)
        count == Since(ring, now)
        bucket == [start |-> start, count |-> count, partial |-> Partial(ring, stopping)]
        merged == [ring.buckets EXCEPT ![n].count = @ + count, ![n].partial = TRUE]
        room == IF Full(ring) THEN Tail(ring.buckets) ELSE ring.buckets
    IN IF SameHour(ring, start)
       THEN [ring EXCEPT !.buckets = merged, !.last = now]
       ELSE [buckets |-> Append(room, bucket),
             last |-> now,
             gone |-> ring.gone + (IF Full(ring) THEN Head(ring.buckets).count ELSE 0)]

(* Every counter of the pool as it is now. *)
Close(start, stopping) ==
    [k \in Key |-> IF k \in members \cup {Lb}
                   THEN CloseRing(rings[k], start, reading[k], stopping) ELSE rings[k]]

(* A provider whose newest hour is older than a ring holds is dropped. *)
Retain(r, start) ==
    [k \in Key |-> IF k = Lb \/ r[k].buckets = <<>> THEN r[k]
                   ELSE IF Last(r[k].buckets).start >= start - Hours THEN r[k]
                   ELSE [EmptyRing EXCEPT !.gone = Total(r[k])]]

(* What the close read is no longer fresh. *)
Closed == fresh' = [k \in Key |-> IF k \in members \cup {Lb} THEN 0 ELSE fresh[k]]

(***************************************************************************)
(* The tick task: run and save.                                            *)
(***************************************************************************)
Tick ==
    /\ task = "waiting" /\ open < hour
    /\ rings' = Retain(Close(open, FALSE), open)
    /\ Closed /\ task' = "saving"
    /\ UNCHANGED <<hour, open, poolVars, file, starts, answered, missed, unsaved, unread,
                   cut, rejoined, joins>>

(* The shutdown wins the select, possibly when a tick is due. *)
Stop ==
    /\ task = "waiting"
    /\ rings' = Close(hour, TRUE)
    /\ Closed /\ task' = "last save" /\ cut' = [k \in Key |-> cut[k] \cup {hour}]
    /\ UNCHANGED <<hour, open, poolVars, file, starts, answered, missed, unsaved, unread,
                   rejoined, joins>>

Saving == task \in {"saving", "last save"}

(* The task's next round, or its return after a stop. *)
Continue ==
    IF task = "saving" THEN task' = "waiting" /\ open' = hour
    ELSE task' = "stopped" /\ UNCHANGED open

(* Variant for the checks: the file itself is written, and what is cut short
   does not parse. *)
WriteInPlace == file' \in {rings, NoRings}

(* A temporary file, which no process reads, until the rename replaces the
   file by it. *)
Replace == file' = rings

Save ==
    /\ Saving
    /\ Replace /\ unsaved' = fresh /\ Continue
    /\ missed' = [k \in Key |-> missed[k] + unread[k]] /\ unread' = Zeros
    /\ UNCHANGED <<hour, poolVars, rings, starts, answered, fresh, cut, rejoined, joins>>

(* It cannot be written: the next hour tries again. *)
SaveFails ==
    /\ Saving
    /\ Continue
    /\ UNCHANGED <<hour, poolVars, rings, file, starts, countVars, cut, rejoined, joins>>

(***************************************************************************)
(* Processes.                                                              *)
(***************************************************************************)

(* Stats::load: `last' is not saved. *)
Load == [k \in Key |-> [file[k] EXCEPT !.last = None]]

StartWith(history) ==
    /\ task = "off" /\ starts < MaxStarts /\ starts' = starts + 1
    /\ task' = "waiting" /\ open' = hour /\ rings' = history
    /\ cut' = [k \in Key |-> cut[k] \cup {hour}]
    /\ UNCHANGED <<hour, poolVars, file, answered, missed, fresh, unsaved, rejoined, joins>>

Start == StartWith(Load) /\ UNCHANGED unread

(* A file that is there and cannot be read or parsed: the process starts
   without history, and its first save replaces the file. *)
StartWithout == StartWith(NoRings) /\ unread' = [k \in Key |-> Total(file[k])]

(* The process ends: it crashes, or its last request after a stop is done. *)
End ==
    /\ Running /\ task' = "off"
    /\ missed' = [k \in Key |-> missed[k] + unsaved[k]]
    /\ fresh' = Zeros /\ unsaved' = Zeros /\ unread' = Zeros
    /\ cut' = [k \in Key |-> cut[k] \cup {Counting}]
    /\ open' = hour /\ members' = {} /\ reading' = Zeros /\ rings' = NoRings
    /\ UNCHANGED <<hour, file, starts, answered, rejoined, joins>>

(***************************************************************************)
(* The pool and its counters, and time.                                    *)
(***************************************************************************)
Join(p) ==
    /\ Running /\ p \notin members /\ joins < MaxJoins /\ joins' = joins + 1
    /\ members' = members \cup {p}
    /\ rejoined' = IF rings[p].last # None THEN rejoined \cup {p} ELSE rejoined
    /\ cut' = [cut EXCEPT ![p] = @ \cup {Counting}]
    /\ UNCHANGED <<hour, task, open, reading, rings, file, starts, countVars>>

(* What the entry counted since the last close goes with it. *)
Leave(p) ==
    /\ Running /\ p \in members
    /\ members' = members \ {p} /\ reading' = [reading EXCEPT ![p] = 0]
    /\ missed' = [missed EXCEPT ![p] = @ + fresh[p]]
    /\ unsaved' = [unsaved EXCEPT ![p] = @ - fresh[p]] /\ fresh' = [fresh EXCEPT ![p] = 0]
    /\ cut' = [cut EXCEPT ![p] = @ \cup {Counting}]
    /\ UNCHANGED <<hour, task, open, rings, file, starts, answered, unread, rejoined,
                   joins>>

Answer(k) ==
    /\ Running /\ k \in members \cup {Lb}
    /\ FoldFunction(LAMBDA n, sum : n + sum, 0, answered) < MaxAnswers
    /\ reading' = [reading EXCEPT ![k] = @ + 1] /\ answered' = [answered EXCEPT ![k] = @ + 1]
    /\ fresh' = [fresh EXCEPT ![k] = @ + 1] /\ unsaved' = [unsaved EXCEPT ![k] = @ + 1]
    /\ UNCHANGED <<hour, task, open, members, rings, file, starts, missed, unread, cut,
                   rejoined, joins>>

NextHour ==
    /\ hour < MaxHour /\ hour' = hour + 1
    /\ Running => hour - open <= MaxLate
    /\ UNCHANGED <<task, open, poolVars, rings, file, starts, countVars, cut, rejoined, joins>>

Next ==
    \/ Tick \/ Stop \/ Save \/ SaveFails
    \/ Start \/ StartWithout \/ End
    \/ \E p \in Provider : Join(p) \/ Leave(p)
    \/ \E k \in Key : Answer(k)
    \/ NextHour

Spec == Init /\ [][Next]_vars
-----------------------------------------------------------------------------
Bucket == [start: Nat, count: Nat, partial: BOOLEAN]
Rings == [Key -> [buckets: Seq(Bucket), last: Nat \cup {None}, gone: Nat]]

(* Types, and no ring is longer than HOURS. *)
TypeOK ==
    /\ hour \in 0..MaxHour /\ open \in 0..hour
    /\ task \in {"off", "waiting", "saving", "last save", "stopped"}
    /\ members \subseteq Provider /\ reading \in [Key -> Nat]
    /\ rings \in Rings /\ file \in Rings
    /\ \A k \in Key : Len(rings[k].buckets) <= Hours
    /\ fresh \in [Key -> Nat] /\ unsaved \in [Key -> Nat]

(* The rings there are, or will be when a process starts and reads the file. *)
Kept == IF Running THEN rings ELSE Load

(* Stats::report: what the route serves of a counter from an hour on, by the
   places of its buckets in the ring: the filter keeps their order. *)
Report(k, since) == {i \in DOMAIN Kept[k].buckets : Kept[k].buckets[i].start >= since}

Accounted(k) == Total(Kept[k]) + fresh[k] + unread[k] + missed[k]

(* No answer is in two buckets, and none is missing that need not be: over
   any starts, stops, crashes and failed saves, all that is lost is what
   came after the close that the file holds, what an entry counted since
   the last close when its provider left (STATS.md: "A crash loses the hour
   in progress"), and a file that a process could not read and saved over.
   A provider that came back within one process is counted at most once;
   see RejoinIsCounted. *)
CountedOnce ==
    \A k \in Key : /\ Accounted(k) <= answered[k]
                   /\ k \notin rejoined => Accounted(k) = answered[k]

(* A report has one row an hour, in order, also when a process stopped and
   another started within the hour (close: "the counts are added to it"): a
   reader that asks again from its last hour on relies on it. *)
OneBucketAnHour ==
    \A k \in Key : \A i, j \in Report(k, 0) :
        i < j => Kept[k].buckets[i].start < Kept[k].buckets[j].start

(* A bucket that is not marked partial is a whole hour: the process ran and
   the provider was in the pool from its start to its close (Bucket: "Not a
   whole hour: cut by a start or a stop"). *)
WholeMeansWhole ==
    \A k \in Key \ rejoined : \A i \in Report(k, 0) :
        ~Kept[k].buckets[i].partial => Kept[k].buckets[i].start \notin cut[k]

(* The file forgets nothing that its writer had read: a save shortens the
   history of a counter only by what the process could not read when it
   started, and only its first save does (save: "so a crash mid-write leaves
   the last good file in place"; load: "the next save replaces it"). *)
FileKeeps ==
    [][\A k \in Key : Total(file'[k]) + (unread[k] - unread'[k]) >= Total(file[k])]_file

(* What STATS.md says of `served': "the same number the counter records
   carry", so a provider that left and came back is counted like any other. *)
RejoinIsCounted == \A k \in Key : Accounted(k) = answered[k]

(* What STATS.md says under "Completed hours only": "The hour in progress is
   not served". *)
InProgressNotServed ==
    task = "waiting" => \A k \in Key : \A i \in Report(k, 0) :
                            Kept[k].buckets[i].start < hour
=============================================================================
