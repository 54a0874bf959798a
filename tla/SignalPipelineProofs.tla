------------------------ MODULE SignalPipelineProofs ------------------------
(***************************************************************************)
(* Proofs about SignalPipeline, for any number of slots, jobs, signals,    *)
(* components, attempts and failures: no reference to a work item dangles; *)
(* a component has one active work item at most and everything linked to   *)
(* it is its own, no work item is announced twice, a completed job is      *)
(* persisted, and no document is left out of its work item's count.        *)
(***************************************************************************)
EXTENDS SignalPipeline, SumTheorems, SequenceTheorems, FiniteSetTheorems, TLAPS

-----------------------------------------------------------------------------
(* Type correctness.                                                       *)

(* The local states of a run, when n work items exist. *)
Locals(n) == [pc : Location, job : Jobs \cup {NoWorker}, links : Seq(1..n),
              made : SUBSET (1..n), fresh : SUBSET Signals,
              found : (1..n) \cup {None}, locked : BOOLEAN]

Persisting == {"insert", "count", "announce", "finish"}

(* A run has a job; while it resolves, a signal is left to resolve, and    *)
(* then none; and it seeds a session with a work item it found.            *)
Shaped(r) ==
  /\ r.pc # "idle" => r.job \in Jobs
  /\ r.pc \in Resolving  => Len(r.links) < Len(Batch[r.job])
  /\ r.pc \in Persisting => Len(r.links) = Len(Batch[r.job])
  /\ r.pc = "seed" => r.found # None

Legal(r, n) == r \in Locals(n) /\ Shaped(r)

(* A job that somebody holds is active, and one that may still run has an  *)
(* attempt left.                                                           *)
QueueShaped ==
  \A j \in Jobs :
    /\ holder[j] # NoWorker => status[j] = "active"
    /\ status[j] \in {"waiting", "active"} => attempts[j] < MaxAttempts

TypeInv == TypeOK /\ QueueShaped /\ \A w \in Workers : Shaped(run[w])

(* What TypeOK says of the runs and of the table. *)
LEMMA Unfold ==
  ASSUME TypeInv
  PROVE  /\ items \in Seq(Row) /\ Len(items) \in Nat
         /\ DOMAIN items = 1..Len(items)
         /\ run \in [Workers -> Locals(Len(items))]
         /\ \A w \in Workers : Legal(run[w], Len(items))
<1>1. items \in Seq(Row)
  BY DEF TypeInv, TypeOK
<1>2. Len(items) \in Nat /\ DOMAIN items = 1..Len(items)
  BY <1>1
<1>3. Local = Locals(Len(items))
  BY <1>2 DEF Local, Locals
<1> QED
  BY <1>1, <1>2, <1>3 DEF TypeInv, TypeOK, Legal

(* Local states stay legal when the table grows. *)
LEMMA LocalsGrow ==
  ASSUME NEW m \in Nat, NEW n \in Nat, m <= n, NEW r \in Locals(m)
  PROVE  r \in Locals(n)
<1>1. 1..m \subseteq 1..n
  OBVIOUS
<1>2. r.links \in Seq(1..n)
  <2>1. r.links \in Seq(1..m)
    BY DEF Locals
  <2> QED
    BY <1>1, <2>1, SeqMonotonic
<1>3. r = [pc |-> r.pc, job |-> r.job, links |-> r.links, made |-> r.made,
           fresh |-> r.fresh, found |-> r.found, locked |-> r.locked]
  BY DEF Locals
<1>4. r.made \in SUBSET (1..n) /\ r.found \in (1..n) \cup {None}
  BY <1>1 DEF Locals
<1> QED
  BY <1>2, <1>3, <1>4 DEF Locals

(* One slot moves to a legal local state and the others stay: the runs of  *)
(* the new state are legal.                                                *)
LEMMA SlotMoves ==
  ASSUME TypeInv, NEW w \in Workers, NEW n \in Nat, Len(items) <= n,
         NEW r, Legal(r, n), Becomes(w, r)
  PROVE  /\ run' \in [Workers -> Locals(n)]
         /\ \A q \in Workers : Shaped(run'[q])
<1>1. run' = [run EXCEPT ![w] = r]
  BY DEF Becomes
<1>2. ASSUME NEW q \in Workers
      PROVE  run[q] \in Locals(n) /\ Shaped(run[q])
  BY LocalsGrow, Unfold DEF Legal
<1>3. run \in [Workers -> Locals(n)]
  BY <1>2, Unfold
<1> QED
  BY <1>1, <1>2, <1>3 DEF Legal

-----------------------------------------------------------------------------
(* The local state after each kind of step.                                *)

(* The idle slot. *)
LEMMA IdleLegal == ASSUME NEW n \in Nat PROVE Legal(Idle, n)
<1>1. <<>> \in Seq(1..n)
  OBVIOUS
<1> QED
  BY <1>1 DEF Legal, Locals, Shaped, Idle, Location, Resolving, Persisting, None

(* A batch is a sequence of signals with one at least. *)
LEMMA BatchFacts ==
  ASSUME NEW j \in Jobs
  PROVE  /\ Batch[j] \in Seq(Signals) /\ Len(Batch[j]) \in Nat /\ Len(Batch[j]) > 0
         /\ DOMAIN Batch[j] = 1..Len(Batch[j])
<1>1. Batch[j] \in Seq(Signals) /\ Batch[j] # <<>>
  BY PipelineAssumption
<1> QED
  BY <1>1

(* The signal being resolved has a component. *)
LEMMA SubjectType ==
  ASSUME TypeInv, NEW w \in Workers, run[w].pc \in Resolving
  PROVE  /\ run[w].job \in Jobs
         /\ Len(run[w].links) \in Nat
         /\ Len(run[w].links) + 1 \in DOMAIN BatchOf(w)
         /\ Subject(w) \in Components
<1>1. run[w].job \in Jobs /\ Len(run[w].links) < Len(Batch[run[w].job])
  BY Unfold DEF Legal, Shaped, Resolving
<1>2. Len(run[w].links) \in Nat
  BY Unfold DEF Legal, Locals
<1>3. Len(run[w].links) + 1 \in DOMAIN BatchOf(w)
  BY <1>1, <1>2, BatchFacts DEF BatchOf
<1>4. BatchOf(w)[Len(run[w].links) + 1] \in Signals
  BY <1>1, <1>3, BatchFacts DEF BatchOf
<1> QED
  BY <1>1, <1>2, <1>3, <1>4, PipelineAssumption DEF Subject

(* A change of place among those that ask for nothing new. *)
LEMMA GotoLegal ==
  ASSUME TypeInv, NEW w \in Workers, NEW place,
         \/ run[w].pc \in Resolving /\ place \in Resolving \ {"seed"}
         \/ run[w].pc \in Persisting /\ place \in Persisting
  PROVE  Legal([run[w] EXCEPT !.pc = place], Len(items))
<1>1. run[w] \in Locals(Len(items)) /\ Shaped(run[w])
  BY Unfold DEF Legal
<1>2. [run[w] EXCEPT !.pc = place] \in Locals(Len(items))
  BY <1>1 DEF Locals, Location, Resolving, Persisting
<1>3. Shaped([run[w] EXCEPT !.pc = place])
  BY <1>1 DEF Shaped, Locals, Resolving, Persisting
<1> QED
  BY <1>2, <1>3 DEF Legal

(* The local state after a signal is resolved. *)
AfterLink(w, i) ==
  LET resolved == Append(run[w].links, i)
      next     == IF Len(resolved) = Len(BatchOf(w)) THEN "insert" ELSE "session"
  IN [run[w] EXCEPT !.pc = next, !.links = resolved, !.found = None, !.locked = FALSE]

LEMMA LinkLegal ==
  ASSUME TypeInv, NEW w \in Workers, run[w].pc \in Resolving, NEW i \in DOMAIN items
  PROVE  Legal(AfterLink(w, i), Len(items)) /\ (Link(w, i) <=> Becomes(w, AfterLink(w, i)))
<1> DEFINE n        == Len(items)
           resolved == Append(run[w].links, i)
           next     == IF Len(resolved) = Len(BatchOf(w)) THEN "insert" ELSE "session"
<1>1. run[w] \in Locals(n) /\ Shaped(run[w]) /\ i \in 1..n
  BY Unfold DEF Legal
<1>2. run[w].links \in Seq(1..n)
  BY <1>1 DEF Locals
<1>3. resolved \in Seq(1..n) /\ Len(resolved) = Len(run[w].links) + 1
  BY <1>1, <1>2
<1>4. /\ run[w].job \in Jobs /\ Len(run[w].links) \in Nat
      /\ Len(run[w].links) < Len(BatchOf(w)) /\ Len(BatchOf(w)) \in Nat
  BY <1>1, SubjectType, BatchFacts DEF Shaped, BatchOf
<1>5. AfterLink(w, i) = [run[w] EXCEPT !.pc = next, !.links = resolved,
                                     !.found = None, !.locked = FALSE]
  BY DEF AfterLink
<1>6. next \in {"insert", "session"}
  OBVIOUS
<1>7. AfterLink(w, i) \in Locals(n)
  <2> HIDE DEF resolved, next, n
  <2> QED
    BY <1>1, <1>3, <1>5, <1>6 DEF Locals, Location, Resolving
<1>8. /\ AfterLink(w, i).pc = next /\ AfterLink(w, i).links = resolved
      /\ AfterLink(w, i).job = run[w].job
  <2> HIDE DEF resolved, next, n
  <2> QED
    BY <1>1, <1>5 DEF Locals
<1>9. Shaped(AfterLink(w, i))
  BY <1>3, <1>4, <1>8 DEF Shaped, Resolving, Persisting, BatchOf
<1>10. Link(w, i) <=> Becomes(w, AfterLink(w, i))
  BY DEF Link, AfterLink
<1> QED
  BY <1>7, <1>9, <1>10 DEF Legal

(* The local state of a run that found work item i. *)
LEMMA FoundLegal ==
  ASSUME TypeInv, NEW w \in Workers, run[w].pc \in Resolving, NEW i \in DOMAIN items
  PROVE  Legal([run[w] EXCEPT !.pc = "seed", !.found = i], Len(items))
<1>1. run[w] \in Locals(Len(items)) /\ Shaped(run[w]) /\ i \in 1..Len(items)
  BY Unfold DEF Legal
<1>2. [run[w] EXCEPT !.pc = "seed", !.found = i] \in Locals(Len(items))
  BY <1>1 DEF Locals, Location, Resolving
<1>3. Shaped([run[w] EXCEPT !.pc = "seed", !.found = i])
  BY <1>1 DEF Shaped, Locals, Resolving, Persisting, None
<1> QED
  BY <1>2, <1>3 DEF Legal

(* The local state of a run that created a work item. *)
Made(w) == [run[w] EXCEPT !.pc = "seed", !.found = Len(items) + 1,
                          !.made = @ \cup {Len(items) + 1}]

LEMMA MadeLegal ==
  ASSUME TypeInv, NEW w \in Workers, run[w].pc \in Resolving
  PROVE  Legal(Made(w), Len(items) + 1)
<1> DEFINE n == Len(items) + 1
<1>1. Len(items) \in Nat /\ run[w] \in Locals(Len(items)) /\ Shaped(run[w])
  BY Unfold DEF Legal
<1>2. run[w] \in Locals(n)
  BY <1>1, LocalsGrow
<1>3. n \in 1..n /\ n # None
  BY <1>1 DEF None
<1>4. Made(w) = [run[w] EXCEPT !.pc = "seed", !.found = n, !.made = @ \cup {n}]
  BY DEF Made
<1> HIDE DEF n
<1> DEFINE made == run[w].made \cup {n}
<1>7. made \in SUBSET (1..n)
  BY <1>2, <1>3 DEF Locals
<1>8. Made(w) = [run[w] EXCEPT !.pc = "seed", !.found = n, !.made = made]
  BY <1>2, <1>4 DEF Locals
<1> HIDE DEF made
<1>5. Made(w) \in Locals(n)
  BY <1>2, <1>3, <1>7, <1>8 DEF Locals, Location, Resolving
<1>6. Shaped(Made(w))
  BY <1>1, <1>2, <1>3, <1>8 DEF Shaped, Locals, Resolving, Persisting
<1> QED
  BY <1>5, <1>6 DEF Legal, n

(* The local state of a run that inserted a signal. *)
LEMMA FreshLegal ==
  ASSUME TypeInv, NEW w \in Workers, run[w].pc = "insert", NEW s \in Signals
  PROVE  Legal([run[w] EXCEPT !.fresh = @ \cup {s}], Len(items))
<1>1. run[w] \in Locals(Len(items)) /\ Shaped(run[w])
  BY Unfold DEF Legal
<1>2. [run[w] EXCEPT !.fresh = @ \cup {s}] \in Locals(Len(items))
  BY <1>1 DEF Locals
<1>3. Shaped([run[w] EXCEPT !.fresh = @ \cup {s}])
  BY <1>1 DEF Shaped, Locals, Resolving, Persisting
<1> QED
  BY <1>2, <1>3 DEF Legal

-----------------------------------------------------------------------------
(* The table.                                                              *)

(* What may happen to the table in a step: its rows keep their component,  *)
(* and none is removed.                                                    *)
Extends(new) == /\ new \in Seq(Row)
                /\ Len(items) <= Len(new)
                /\ \A i \in DOMAIN items : new[i].component = items[i].component

LEMMA SameExtends == ASSUME TypeInv PROVE Extends(items)
BY Unfold DEF Extends

(* A new row. *)
LEMMA RowExtends ==
  ASSUME TypeInv, NEW w \in Workers, run[w].pc \in Resolving
  PROVE  /\ NewRow(w) \in Row
         /\ Extends(Append(items, NewRow(w)))
         /\ Len(Append(items, NewRow(w))) = Len(items) + 1
<1>1. NewRow(w) \in Row
  BY SubjectType DEF NewRow, Row
<1> HIDE DEF NewRow
<1> QED
  BY <1>1, Unfold DEF Extends

(* Rows are changed in place, and keep their component. *)
LEMMA ChangedExtends ==
  ASSUME TypeInv, NEW new, DOMAIN new = DOMAIN items,
         \A i \in DOMAIN items : new[i] \in Row /\ new[i].component = items[i].component,
         new = [i \in DOMAIN items |-> new[i]]
  PROVE  Extends(new) /\ Len(new) = Len(items)
<1>1. new \in [1..Len(items) -> Row] /\ Len(items) \in Nat
  BY Unfold
<1>2. new \in Seq(Row) /\ Len(new) = Len(items)
  BY <1>1
<1> QED
  BY <1>2, Unfold DEF Extends

(* How often a run counts into a work item. *)
LEMMA IncrementType ==
  ASSUME TypeInv, NEW w \in Workers, NEW i
  PROVE  Increment(w, i) \in Nat
<1> DEFINE S == {k \in DOMAIN run[w].links :
                   run[w].links[k] = i /\ BatchOf(w)[k] \in run[w].fresh}
<1>1. run[w].links \in Seq(1..Len(items))
  BY Unfold DEF Legal, Locals
<1>2. DOMAIN run[w].links = 1..Len(run[w].links) /\ Len(run[w].links) \in Nat
  BY <1>1
<1>3. IsFiniteSet(1..Len(run[w].links))
  BY <1>2, FS_Interval
<1>4. S \subseteq 1..Len(run[w].links)
  BY <1>2
<1>5. Cardinality(S) \in Nat
  <2> HIDE DEF S
  <2> QED
    BY <1>3, <1>4, FS_Subset, FS_CardinalityType
<1> QED
  BY <1>5 DEF Increment

(* Increments change counts only. *)
LEMMA CountedExtends ==
  ASSUME TypeInv, NEW w \in Workers, NEW these, Counted(w, these)
  PROVE  /\ Extends(items') /\ Len(items') = Len(items)
         /\ \A i \in DOMAIN items :
              /\ items'[i].component = items[i].component
              /\ items'[i].active = items[i].active
              /\ items'[i].announced = items[i].announced
              /\ items'[i].count =
                   IF i \in these THEN items[i].count + Increment(w, i) ELSE items[i].count
<1>1. \A i \in DOMAIN items : items[i] \in Row /\ Increment(w, i) \in Nat
  BY Unfold, IncrementType
<1>2. items' = [i \in DOMAIN items |->
                  IF i \in these THEN [items[i] EXCEPT !.count = @ + Increment(w, i)]
                                 ELSE items[i]]
  BY DEF Counted
<1>3. ASSUME NEW i \in DOMAIN items
      PROVE  /\ items'[i] \in Row
             /\ items'[i].component = items[i].component
             /\ items'[i].active = items[i].active
             /\ items'[i].announced = items[i].announced
             /\ items'[i].count =
                  IF i \in these THEN items[i].count + Increment(w, i) ELSE items[i].count
  BY <1>1, <1>2 DEF Row
<1>4. DOMAIN items' = DOMAIN items /\ items' = [i \in DOMAIN items |-> items'[i]]
  BY <1>2
<1>5. Extends(items') /\ Len(items') = Len(items)
  BY <1>3, <1>4, ChangedExtends
<1> QED
  BY <1>3, <1>5

(* An announcement changes announced only. *)
LEMMA AnnounceExtends ==
  ASSUME TypeInv, NEW w \in Workers, Announce(w)
  PROVE  /\ Extends(items') /\ Len(items') = Len(items)
         /\ \A i \in DOMAIN items :
              /\ items'[i].component = items[i].component
              /\ items'[i].active = items[i].active
              /\ items'[i].count = items[i].count
              /\ items'[i].announced =
                   IF i \in CreatedWorkItems(w) THEN items[i].announced + 1
                                                ELSE items[i].announced
<1>1. \A i \in DOMAIN items : items[i] \in Row
  BY Unfold
<1>2. items' = [i \in DOMAIN items |->
                  IF i \in CreatedWorkItems(w) THEN [items[i] EXCEPT !.announced = @ + 1]
                                               ELSE items[i]]
  BY DEF Announce
<1>3. ASSUME NEW i \in DOMAIN items
      PROVE  /\ items'[i] \in Row
             /\ items'[i].component = items[i].component
             /\ items'[i].active = items[i].active
             /\ items'[i].count = items[i].count
             /\ items'[i].announced =
                  IF i \in CreatedWorkItems(w) THEN items[i].announced + 1
                                               ELSE items[i].announced
  BY <1>1, <1>2 DEF Row
<1>4. DOMAIN items' = DOMAIN items /\ items' = [i \in DOMAIN items |-> items'[i]]
  BY <1>2
<1>5. Extends(items') /\ Len(items') = Len(items)
  BY <1>3, <1>4, ChangedExtends
<1> QED
  BY <1>3, <1>5

(* A close changes one row's active only. *)
LEMMA CloseExtends ==
  ASSUME TypeInv, NEW k \in DOMAIN items, CloseItem(k)
  PROVE  /\ Extends(items') /\ Len(items') = Len(items)
         /\ \A i \in DOMAIN items :
              /\ items'[i].component = items[i].component
              /\ items'[i].active => items[i].active
              /\ items'[i].count = items[i].count
              /\ items'[i].announced = items[i].announced
<1>1. \A i \in DOMAIN items : items[i] \in Row
  BY Unfold
<1>2. items' = [items EXCEPT ![k].active = FALSE]
  BY DEF CloseItem
<1>3. ASSUME NEW i \in DOMAIN items
      PROVE  /\ items'[i] \in Row
             /\ items'[i].component = items[i].component
             /\ items'[i].active => items[i].active
             /\ items'[i].count = items[i].count
             /\ items'[i].announced = items[i].announced
  BY <1>1, <1>2 DEF Row
<1>4. DOMAIN items' = DOMAIN items /\ items' = [i \in DOMAIN items |-> items'[i]]
  BY <1>2, Unfold
<1>5. Extends(items') /\ Len(items') = Len(items)
  BY <1>3, <1>4, ChangedExtends
<1> QED
  BY <1>3, <1>5

-----------------------------------------------------------------------------
(* Type correctness, variable by variable.                                 *)

ReferTo(n)  == (1..n) \cup {None}
StoredType  == stored' \in [Signals -> ReferTo(Len(items'))]
SessionType == session' \in [Components -> ReferTo(Len(items'))]
RunType     == /\ run' \in [Workers -> Locals(Len(items'))]
               /\ \A q \in Workers : Shaped(run'[q])
QueueType   == /\ status \in [Jobs -> JobState]
               /\ holder \in [Jobs -> Workers \cup {NoWorker}]
               /\ attempts \in [Jobs -> 0..MaxAttempts]
               /\ stalls \in [Jobs -> Nat]
               /\ QueueShaped

LEMMA TypeParts ==
  ASSUME TypeInv, Extends(items'), StoredType, SessionType, RunType, QueueType',
         lock' \subseteq Components, mishaps' \in [Failures -> Nat]
  PROVE  TypeInv'
<1>1. items' \in Seq(Row)
  BY DEF Extends
<1>2. Len(items') \in Nat /\ DOMAIN items' = 1..Len(items')
  BY <1>1
<1>3. Local' = Locals(Len(items'))
  BY <1>2 DEF Local, Locals
<1>4. TypeOK'
  BY <1>1, <1>2, <1>3
     DEF TypeOK, StoredType, SessionType, RunType, QueueType, ReferTo
<1> QED
  BY <1>4 DEF TypeInv, QueueType, RunType

(* What a step leaves alone is still typed. *)
LEMMA KeptTypes ==
  ASSUME TypeInv, Extends(items')
  PROVE  /\ UNCHANGED stored => StoredType
         /\ UNCHANGED session => SessionType
         /\ UNCHANGED run => RunType
         /\ UNCHANGED queue => QueueType'
         /\ UNCHANGED lock => lock' \subseteq Components
         /\ UNCHANGED mishaps => mishaps' \in [Failures -> Nat]
<1>1. Len(items) \in Nat /\ DOMAIN items = 1..Len(items)
  BY Unfold
<1>2. Len(items') \in Nat /\ Len(items) <= Len(items')
  BY DEF Extends
<1>3. ReferTo(Len(items)) \subseteq ReferTo(Len(items'))
  BY <1>1, <1>2 DEF ReferTo
<1>4. /\ stored \in [Signals -> ReferTo(Len(items))]
      /\ session \in [Components -> ReferTo(Len(items))]
  BY <1>1 DEF TypeInv, TypeOK, ReferTo
<1>5. UNCHANGED stored => StoredType
  BY <1>3, <1>4 DEF StoredType
<1>6. UNCHANGED session => SessionType
  BY <1>3, <1>4 DEF SessionType
<1>7. ASSUME UNCHANGED run PROVE RunType
  <2>1. ASSUME NEW q \in Workers
        PROVE  run[q] \in Locals(Len(items')) /\ Shaped(run[q])
    BY <1>1, <1>2, LocalsGrow, Unfold DEF Legal
  <2> QED
    BY <1>7, <2>1, Unfold DEF RunType
<1>8. UNCHANGED queue => QueueType'
  BY DEF TypeInv, TypeOK, QueueType, queue, QueueShaped
<1>9. /\ UNCHANGED lock => lock' \subseteq Components
      /\ UNCHANGED mishaps => mishaps' \in [Failures -> Nat]
  BY DEF TypeInv, TypeOK
<1> QED
  BY <1>5, <1>6, <1>7, <1>8, <1>9

(* A slot that becomes r, with the table as it is after the step. *)
LEMMA MovedRuns ==
  ASSUME TypeInv, Extends(items'), NEW w \in Workers, NEW r,
         Legal(r, Len(items')), Becomes(w, r)
  PROVE  RunType
<1>1. Len(items') \in Nat /\ Len(items) <= Len(items')
  BY DEF Extends
<1> QED
  BY <1>1, SlotMoves DEF RunType

LEMMA SameTable == ASSUME TypeInv, UNCHANGED items PROVE Extends(items')
BY SameExtends DEF Extends

LEMMA MishapType ==
  ASSUME TypeInv, NEW kind, Mishap(kind)
  PROVE  mishaps' \in [Failures -> Nat]
BY DEF Mishap, TypeInv, TypeOK

(* A run under way has a job. *)
LEMMA UnderWay ==
  ASSUME TypeInv, NEW w \in Workers, run[w].pc # "idle"
  PROVE  run[w].job \in Jobs
BY Unfold DEF Legal, Shaped

(* An attempt that fails leaves the queue typed and the slot idle. *)
LEMMA FailedAttempt ==
  ASSUME TypeInv, NEW w \in Workers, run[w].pc # "idle", AttemptFails(w),
         Extends(items')
  PROVE  QueueType' /\ RunType
<1> DEFINE j == run[w].job
<1>1. j \in Jobs
  BY UnderWay
<1>2. RunType
  <2>1. Len(items') \in Nat /\ Becomes(w, Idle)
    BY DEF Extends, AttemptFails
  <2> QED
    BY <2>1, IdleLegal, MovedRuns
<1>3. CASE ~ Holds(w)
  <2>1. UNCHANGED queue
    BY <1>3 DEF AttemptFails
  <2> QED
    BY <1>2, <2>1, KeptTypes
<1>4. CASE Holds(w)
  <2> HIDE DEF j
  <2>1. holder[j] = w /\ w # NoWorker
    BY <1>4, PipelineAssumption DEF Holds, j
  <2>2. /\ status' = [status EXCEPT ![j] = IF Retries(j) THEN "waiting" ELSE "exhausted"]
        /\ attempts' = [attempts EXCEPT ![j] = @ + 1]
        /\ holder' = [holder EXCEPT ![j] = NoWorker]
        /\ stalls' = stalls
    BY <1>4 DEF AttemptFails, j
  <2>3. /\ status \in [Jobs -> JobState]
        /\ holder \in [Jobs -> Workers \cup {NoWorker}]
        /\ attempts \in [Jobs -> 0..MaxAttempts]
        /\ stalls \in [Jobs -> Nat]
        /\ QueueShaped
    BY DEF TypeInv, TypeOK
  <2>4. attempts[j] < MaxAttempts /\ attempts[j] \in Nat /\ MaxAttempts \in Nat
    BY <1>1, <2>1, <2>3, PipelineAssumption DEF QueueShaped
  <2>5. /\ status' \in [Jobs -> JobState]
        /\ holder' \in [Jobs -> Workers \cup {NoWorker}]
        /\ attempts' \in [Jobs -> 0..MaxAttempts]
    BY <1>1, <2>2, <2>3, <2>4 DEF JobState
  <2>6. QueueShaped'
    BY <1>1, <2>2, <2>3, <2>4 DEF QueueShaped, Retries
  <2> QED
    BY <1>2, <2>2, <2>3, <2>5, <2>6 DEF QueueType
<1> QED
  BY <1>3, <1>4

-----------------------------------------------------------------------------
(* Type correctness, action by action.                                     *)

(* Finding a work item. *)
LEMMA FindsMoves ==
  ASSUME TypeInv, UNCHANGED items, NEW w \in Workers, run[w].pc \in Resolving, Finds(w)
  PROVE  RunType
<1>1. PICK i \in Active(Subject(w)) : Becomes(w, [run[w] EXCEPT !.pc = "seed", !.found = i])
  BY DEF Finds
<1>2. i \in DOMAIN items
  BY DEF Active
<1> HIDE DEF Active
<1> QED
  BY <1>1, <1>2, FoundLegal, SameTable, MovedRuns

(* Linking a signal to a work item. *)
LEMMA LinkMoves ==
  ASSUME TypeInv, UNCHANGED items, NEW w \in Workers, run[w].pc \in Resolving,
         NEW i \in DOMAIN items, Link(w, i)
  PROVE  RunType
BY LinkLegal, SameTable, MovedRuns

(* Going to another place. *)
LEMMA GotoMoves ==
  ASSUME TypeInv, Extends(items'), Len(items') = Len(items), NEW w \in Workers, NEW place,
         \/ run[w].pc \in Resolving /\ place \in Resolving \ {"seed"}
         \/ run[w].pc \in Persisting /\ place \in Persisting,
         Goto(w, place)
  PROVE  RunType
BY GotoLegal, MovedRuns DEF Goto

(* The session and the found work item, where they are used. *)
LEMMA References ==
  ASSUME TypeInv, NEW w \in Workers
  PROVE  /\ run[w].pc \in Resolving /\ session[Subject(w)] # None
              => session[Subject(w)] \in DOMAIN items
         /\ At(w, "seed") => run[w].found \in DOMAIN items
<1>1. run[w].pc \in Resolving => Subject(w) \in Components
  BY SubjectType
<1>2. session \in [Components -> DOMAIN items \cup {None}]
  BY DEF TypeInv, TypeOK
<1>3. At(w, "seed") => run[w].found \in DOMAIN items
  BY Unfold DEF At, Legal, Shaped, Locals
<1> QED
  BY <1>1, <1>2, <1>3

LEMMA SeededType ==
  ASSUME TypeInv, Extends(items'), NEW w \in Workers, At(w, "seed"), Seeded(w)
  PROVE  SessionType
<1>1. Subject(w) \in Components
  BY SubjectType DEF At, Resolving
<1>2. run[w].found \in 1..Len(items')
  BY References, Unfold DEF Extends
<1>3. session \in [Components -> DOMAIN items \cup {None}]
  BY DEF TypeInv, TypeOK
<1>4. session \in [Components -> ReferTo(Len(items'))]
  BY <1>3, Unfold DEF Extends, ReferTo
<1> QED
  BY <1>1, <1>2, <1>4 DEF Seeded, SessionType, ReferTo

LEMMA UnlockType ==
  ASSUME TypeInv, NEW w, Unlock(w)
  PROVE  lock' \subseteq Components
BY DEF Unlock, TypeInv, TypeOK

(* The steps of a run that resolves. *)
LEMMA ResolveType ==
  ASSUME TypeInv, NEW w \in Workers, Resolve(w)
  PROVE  TypeInv'
<1>1. CASE ReadSession(w)
  <2>1. /\ run[w].pc \in Resolving /\ UNCHANGED <<stores, redis, queue, mishaps>>
    BY <1>1 DEF ReadSession, At, Resolving
  <2>2. UNCHANGED <<items, stored, session, lock>>
    BY <2>1 DEF stores, redis
  <2>3. Extends(items') /\ Len(items') = Len(items)
    BY <2>2, SameTable
  <2>4. RunType
    <3>1. CASE session[Subject(w)] # None
      BY <1>1, <2>1, <2>2, <3>1, References, LinkMoves DEF ReadSession
    <3>2. CASE session[Subject(w)] = None
      BY <1>1, <2>1, <2>3, <3>2, GotoMoves DEF ReadSession, Resolving
    <3> QED
      BY <3>1, <3>2
  <2> QED
    BY <2>1, <2>2, <2>3, <2>4, KeptTypes, TypeParts
<1>2. CASE TryLock(w)
  <2>1. run[w].pc = "lock" /\ UNCHANGED <<items, stored, session>> /\ UNCHANGED queue
        /\ UNCHANGED mishaps
    BY <1>2 DEF TryLock, At, stores
  <2>2. Extends(items') /\ Len(items') = Len(items) /\ Subject(w) \in Components
    BY <2>1, SameTable, SubjectType DEF Resolving
  <2>3. RunType /\ lock' \subseteq Components
    <3>1. CASE Subject(w) \in lock
      <4>1. Goto(w, "poll") /\ UNCHANGED lock
        BY <1>2, <3>1 DEF TryLock
      <4> QED
        BY <2>1, <2>2, <4>1, GotoMoves, KeptTypes DEF Resolving
    <3>2. CASE Subject(w) \notin lock
      <4> DEFINE r == [run[w] EXCEPT !.pc = "find", !.locked = TRUE]
      <4>1. lock' = lock \cup {Subject(w)} /\ Becomes(w, r)
        BY <1>2, <3>2 DEF TryLock
      <4>2. run[w] \in Locals(Len(items)) /\ Shaped(run[w])
        BY Unfold DEF Legal
      <4>3. Legal(r, Len(items))
        <5>1. r \in Locals(Len(items))
          BY <4>2 DEF Locals, Location, Resolving
        <5>2. Shaped(r)
          BY <2>1, <4>2 DEF Shaped, Locals, Resolving, Persisting
        <5> QED
          BY <5>1, <5>2 DEF Legal
      <4> HIDE DEF r
      <4>4. RunType
        BY <2>2, <4>1, <4>3, MovedRuns
      <4> QED
        BY <2>2, <4>1, <4>4 DEF TypeInv, TypeOK
    <3> QED
      BY <3>1, <3>2
  <2> QED
    BY <2>1, <2>2, <2>3, KeptTypes, TypeParts
<1>3. CASE PollHits(w)
  <2>1. /\ run[w].pc \in Resolving /\ UNCHANGED <<stores, redis, queue, mishaps>>
        /\ session[Subject(w)] # None /\ Link(w, session[Subject(w)])
    BY <1>3 DEF PollHits, At, Resolving
  <2>2. UNCHANGED <<items, stored, session, lock>>
    BY <2>1 DEF stores, redis
  <2>3. Extends(items') /\ RunType
    BY <2>1, <2>2, SameTable, References, LinkMoves
  <2> QED
    BY <2>1, <2>2, <2>3, KeptTypes, TypeParts
<1>4. CASE PollGivesUp(w)
  <2>1. /\ run[w].pc \in Resolving /\ UNCHANGED <<stores, redis, queue, mishaps>>
        /\ Goto(w, "find")
    BY <1>4 DEF PollGivesUp, At, Resolving
  <2>2. UNCHANGED <<items, stored, session, lock>>
    BY <2>1 DEF stores, redis
  <2>3. Extends(items') /\ RunType
    BY <2>1, <2>2, SameTable, GotoMoves DEF Resolving
  <2> QED
    BY <2>1, <2>2, <2>3, KeptTypes, TypeParts
<1>5. CASE Find(w)
  <2>1. /\ run[w].pc \in Resolving /\ UNCHANGED <<stores, redis, queue, mishaps>>
        /\ Finds(w) \/ Goto(w, "create")
    BY <1>5 DEF Find, At, Resolving
  <2>2. UNCHANGED <<items, stored, session, lock>>
    BY <2>1 DEF stores, redis
  <2>3. Extends(items') /\ RunType
    BY <2>1, <2>2, SameTable, GotoMoves, FindsMoves DEF Resolving
  <2> QED
    BY <2>1, <2>2, <2>3, KeptTypes, TypeParts
<1>6. CASE Create(w)
  <2>1. /\ run[w].pc \in Resolving /\ UNCHANGED <<stored, redis, queue, mishaps>>
        /\ items' = Append(items, NewRow(w)) /\ Becomes(w, Made(w))
    BY <1>6 DEF Create, At, Resolving, Made
  <2>2. UNCHANGED <<session, lock>>
    BY <2>1 DEF redis
  <2>3. Extends(items') /\ Len(items') = Len(items) + 1
    BY <2>1, RowExtends
  <2>4. RunType
    BY <2>1, <2>3, MadeLegal, MovedRuns
  <2> QED
    BY <2>1, <2>2, <2>3, <2>4, KeptTypes, TypeParts
<1>7. CASE CreateConflicts(w)
  <2>1. /\ run[w].pc \in Resolving /\ UNCHANGED <<stores, redis, queue, mishaps>>
        /\ Goto(w, "refind")
    BY <1>7 DEF CreateConflicts, At, Resolving
  <2>2. UNCHANGED <<items, stored, session, lock>>
    BY <2>1 DEF stores, redis
  <2>3. Extends(items') /\ RunType
    BY <2>1, <2>2, SameTable, GotoMoves DEF Resolving
  <2> QED
    BY <2>1, <2>2, <2>3, KeptTypes, TypeParts
<1>8. CASE Refind(w)
  <2>1. /\ run[w].pc \in Resolving /\ run[w].pc # "idle"
        /\ UNCHANGED <<items, stored, session, mishaps>>
        /\ \/ Finds(w) /\ UNCHANGED <<lock, queue>>
           \/ Unlock(w) /\ AttemptFails(w)
    BY <1>8 DEF Refind, At, Resolving, stores
  <2>2. Extends(items')
    BY <2>1, SameTable
  <2>3. RunType /\ QueueType' /\ lock' \subseteq Components
    <3>1. CASE Finds(w) /\ UNCHANGED <<lock, queue>>
      BY <2>1, <2>2, <3>1, FindsMoves, KeptTypes
    <3>2. CASE Unlock(w) /\ AttemptFails(w)
      BY <2>1, <2>2, <3>2, UnlockType, FailedAttempt
    <3> QED
      BY <2>1, <3>1, <3>2
  <2> QED
    BY <2>1, <2>2, <2>3, KeptTypes, TypeParts
<1>9. CASE Seed(w)
  <2>1. /\ run[w].pc \in Resolving /\ At(w, "seed") /\ UNCHANGED <<items, stored>>
        /\ UNCHANGED queue /\ UNCHANGED mishaps
        /\ Seeded(w) /\ Unlock(w) /\ Link(w, run[w].found)
    BY <1>9 DEF Seed, At, Resolving, stores
  <2>2. Extends(items') /\ RunType /\ SessionType /\ lock' \subseteq Components
    BY <2>1, SameTable, References, LinkMoves, SeededType, UnlockType
  <2> QED
    BY <2>1, <2>2, KeptTypes, TypeParts
<1> QED
  BY <1>1, <1>2, <1>3, <1>4, <1>5, <1>6, <1>7, <1>8, <1>9 DEF Resolve

(* The steps of a run that takes a job, persists, counts, announces, ends. *)
LEMMA TakeType ==
  ASSUME TypeInv, NEW w \in Workers, NEW j \in Jobs, Take(w, j)
  PROVE  TypeInv'
<1> DEFINE r == [Idle EXCEPT !.pc = "session", !.job = j]
<1>1. /\ UNCHANGED <<items, stored, session, lock, mishaps>> /\ UNCHANGED <<attempts, stalls>>
      /\ status[j] = "waiting" /\ Becomes(w, r)
      /\ status' = [status EXCEPT ![j] = "active"]
      /\ holder' = [holder EXCEPT ![j] = w]
  BY DEF Take, stores, redis
<1>2. Extends(items') /\ Len(items') \in Nat
  BY <1>1, SameTable, Unfold
<1>3. Legal(r, Len(items'))
  <2>1. r \in Locals(Len(items'))
    <3>1. Idle \in Locals(Len(items'))
      BY <1>2, IdleLegal DEF Legal
    <3> QED
      BY <3>1 DEF Locals, Location, Resolving
  <2>2. Shaped(r)
    BY BatchFacts DEF Shaped, Resolving, Persisting, Idle
  <2> QED
    BY <2>1, <2>2 DEF Legal
<1> HIDE DEF r
<1>4. RunType
  BY <1>1, <1>2, <1>3, MovedRuns
<1>5. QueueType'
  BY <1>1 DEF QueueType, TypeInv, TypeOK, QueueShaped, JobState
<1> QED
  BY <1>1, <1>2, <1>4, <1>5, KeptTypes, TypeParts

LEMMA InsertType ==
  ASSUME TypeInv, NEW w \in Workers, Insert(w)
  PROVE  TypeInv'
<1>1. PICK k \in DOMAIN BatchOf(w) :
        /\ stored' = [stored EXCEPT ![BatchOf(w)[k]] = run[w].links[k]]
        /\ Becomes(w, [run[w] EXCEPT !.fresh = @ \cup {BatchOf(w)[k]}])
  BY DEF Insert
<1>2. /\ run[w].pc = "insert" /\ run[w].pc # "idle"
      /\ UNCHANGED <<items, session, lock, mishaps>> /\ UNCHANGED queue
  BY DEF Insert, At, redis
<1>3. Extends(items')
  BY <1>2, SameTable
<1>4. run[w].job \in Jobs /\ Len(run[w].links) = Len(BatchOf(w))
      /\ run[w].links \in Seq(1..Len(items))
  BY <1>2, UnderWay, Unfold DEF Legal, Shaped, Locals, Persisting, BatchOf
<1>5. BatchOf(w)[k] \in Signals /\ k \in 1..Len(run[w].links)
  BY <1>4, BatchFacts DEF BatchOf
<1>6. run[w].links[k] \in 1..Len(items)
  BY <1>4, <1>5
<1>7. RunType
  BY <1>1, <1>2, <1>3, <1>5, FreshLegal, MovedRuns
<1>8. StoredType
  <2>1. stored \in [Signals -> ReferTo(Len(items))]
    BY Unfold DEF TypeInv, TypeOK, ReferTo
  <2>2. run[w].links[k] \in ReferTo(Len(items))
    BY <1>6 DEF ReferTo
  <2> QED
    BY <1>1, <1>2, <2>1, <2>2, <1>5 DEF StoredType
<1> QED
  BY <1>2, <1>3, <1>7, <1>8, KeptTypes, TypeParts

LEMMA CountType ==
  ASSUME TypeInv, NEW w \in Workers, At(w, "count"),
         NEW these, Counted(w, these), UNCHANGED <<stored, redis>>,
         RunType, QueueType', mishaps' \in [Failures -> Nat]
  PROVE  TypeInv'
<1>1. UNCHANGED stored /\ UNCHANGED session /\ UNCHANGED lock /\ Extends(items')
  BY CountedExtends DEF redis
<1> QED
  BY <1>1, KeptTypes, TypeParts

(* The steps of a run that has resolved its batch. *)
LEMMA PersistType ==
  ASSUME TypeInv, NEW w \in Workers,
         InsertReturns(w) \/ Count(w) \/ Announce(w) \/ Finish(w)
  PROVE  TypeInv'
<1>1. CASE InsertReturns(w)
  <2>1. run[w].pc \in Persisting /\ Goto(w, "count") /\ "count" \in Persisting
        /\ UNCHANGED <<items, stored, session, lock, mishaps>> /\ UNCHANGED queue
    BY <1>1 DEF InsertReturns, At, Persisting, stores, redis
  <2>2. Extends(items') /\ Len(items') = Len(items)
    BY <2>1, SameTable
  <2>3. RunType
    BY <2>1, <2>2, GotoMoves
  <2> QED
    BY <2>1, <2>2, <2>3, KeptTypes, TypeParts
<1>2. CASE Count(w)
  <2>1. At(w, "count") /\ run[w].pc \in Persisting /\ Goto(w, "announce")
        /\ "announce" \in Persisting /\ Counted(w, Touched(w))
        /\ UNCHANGED <<stored, redis>> /\ UNCHANGED queue /\ UNCHANGED mishaps
    BY <1>2 DEF Count, At, Persisting
  <2>2. Extends(items') /\ Len(items') = Len(items)
    BY <2>1, CountedExtends
  <2>3. RunType
    BY <2>1, <2>2, GotoMoves
  <2> QED
    BY <2>1, <2>2, <2>3, KeptTypes, CountType
<1>3. CASE Announce(w)
  <2>1. run[w].pc \in Persisting /\ Goto(w, "finish") /\ "finish" \in Persisting
        /\ UNCHANGED <<stored, session, lock, mishaps>> /\ UNCHANGED queue
    BY <1>3 DEF Announce, At, Persisting, redis
  <2>2. Extends(items') /\ Len(items') = Len(items)
    BY <1>3, AnnounceExtends
  <2>3. RunType
    BY <2>1, <2>2, GotoMoves
  <2> QED
    BY <2>1, <2>2, <2>3, KeptTypes, TypeParts
<1>4. CASE Finish(w)
  <2>1. run[w].job \in Jobs
    BY <1>4, UnderWay DEF Finish, At
  <2>2. UNCHANGED <<items, stored, session, lock, mishaps>> /\ UNCHANGED <<attempts, stalls>>
        /\ Becomes(w, Idle)
    BY <1>4 DEF Finish, stores, redis
  <2>3. Extends(items') /\ Len(items') \in Nat
    BY <2>2, SameTable, Unfold
  <2>4. RunType
    BY <2>2, <2>3, IdleLegal, MovedRuns
  <2>5. QueueType'
    <3>1. CASE Holds(w)
      <4>1. /\ status' = [status EXCEPT ![run[w].job] = "completed"]
            /\ holder' = [holder EXCEPT ![run[w].job] = NoWorker]
        BY <1>4, <3>1 DEF Finish
      <4> QED
        BY <2>1, <2>2, <4>1 DEF QueueType, TypeInv, TypeOK, QueueShaped, JobState
    <3>2. CASE ~ Holds(w)
      BY <1>4, <2>2, <2>3, <3>2, KeptTypes DEF Finish, queue
    <3> QED
      BY <3>1, <3>2
  <2> QED
    BY <2>2, <2>3, <2>4, <2>5, KeptTypes, TypeParts
<1> QED
  BY <1>1, <1>2, <1>3, <1>4

(* The failures. *)
LEMMA FailureType ==
  ASSUME TypeInv, NEW w \in Workers, Failure(w)
  PROVE  TypeInv'
<1>1. CASE Crash(w)
  <2>1. run[w].job \in Jobs
    BY <1>1, UnderWay DEF Crash, At
  <2>2. UNCHANGED <<items, stored, session, lock>> /\ UNCHANGED <<status, attempts, stalls>>
        /\ Becomes(w, Idle) /\ mishaps' \in [Failures -> Nat]
    BY <1>1, MishapType DEF Crash, stores, redis
  <2>3. Extends(items') /\ Len(items') \in Nat
    BY <2>2, SameTable, Unfold
  <2>4. RunType
    BY <2>2, <2>3, IdleLegal, MovedRuns
  <2>5. QueueType'
    <3>1. CASE Holds(w)
      <4>1. holder' = [holder EXCEPT ![run[w].job] = NoWorker]
        BY <1>1, <3>1 DEF Crash
      <4> QED
        BY <2>1, <2>2, <4>1 DEF QueueType, TypeInv, TypeOK, QueueShaped
    <3>2. CASE ~ Holds(w)
      BY <1>1, <2>2, <2>3, <3>2, KeptTypes DEF Crash, queue
    <3> QED
      BY <3>1, <3>2
  <2> QED
    BY <2>2, <2>3, <2>4, <2>5, KeptTypes, TypeParts
<1>2. CASE Throw(w)
  <2>1. /\ run[w].pc # "idle" /\ UNCHANGED items /\ UNCHANGED stored
        /\ mishaps' \in [Failures -> Nat] /\ AttemptFails(w)
        /\ UNCHANGED lock \/ Unlock(w)
        /\ UNCHANGED session \/ (At(w, "seed") /\ Seeded(w))
    BY <1>2, MishapType DEF Throw, stores, Resolving
  <2>2. Extends(items')
    BY <2>1, SameTable
  <2>3. SessionType /\ lock' \subseteq Components
    BY <2>1, <2>2, SeededType, UnlockType, KeptTypes
  <2>4. QueueType' /\ RunType
    BY <2>1, <2>2, FailedAttempt
  <2> QED
    BY <2>1, <2>2, <2>3, <2>4, KeptTypes, TypeParts
<1>3. CASE CountFails(w)
  <2>1. PICK these \in SUBSET Touched(w) : Counted(w, these)
    BY <1>3 DEF CountFails
  <2>2. At(w, "count") /\ run[w].pc # "idle" /\ AttemptFails(w)
        /\ UNCHANGED <<stored, redis>> /\ mishaps' \in [Failures -> Nat]
    BY <1>3, MishapType DEF CountFails, At
  <2>3. Extends(items')
    BY <2>1, CountedExtends
  <2>4. QueueType' /\ RunType
    BY <2>2, <2>3, FailedAttempt
  <2> QED
    BY <2>1, <2>2, <2>4, CountType
<1>4. CASE CreateUnacknowledged(w)
  <2>1. run[w].pc \in Resolving /\ items' = Append(items, NewRow(w))
        /\ UNCHANGED <<stored, session, lock, run>> /\ UNCHANGED queue
        /\ mishaps' \in [Failures -> Nat]
    BY <1>4, MishapType DEF CreateUnacknowledged, At, Resolving, redis
  <2>2. Extends(items')
    BY <2>1, RowExtends
  <2> QED
    BY <2>1, <2>2, KeptTypes, TypeParts
<1>5. CASE CountUnacknowledged(w)
  <2>1. PICK i \in Touched(w) : Counted(w, {i})
    BY <1>5 DEF CountUnacknowledged
  <2>2. At(w, "count") /\ UNCHANGED <<stored, redis>> /\ UNCHANGED queue
        /\ UNCHANGED run /\ mishaps' \in [Failures -> Nat]
    BY <1>5, MishapType DEF CountUnacknowledged
  <2>3. Extends(items')
    BY <2>1, CountedExtends
  <2> QED
    BY <2>1, <2>2, <2>3, KeptTypes, CountType
<1> QED
  BY <1>1, <1>2, <1>3, <1>4, <1>5 DEF Failure

(* The queue's own steps. *)
LEMMA QueueStepType ==
  ASSUME TypeInv, NEW j \in Jobs,
         Stall(j) \/ Requeue(j) \/ FailStalledOut(j) \/ DeadLetter(j) \/ DeadLetterLost(j)
  PROVE  TypeInv'
<1>1. UNCHANGED <<items, stored, session, lock, run>>
  BY DEF Stall, Requeue, FailStalledOut, DeadLetter, DeadLetterLost, stores, redis
<1>2. mishaps' \in [Failures -> Nat]
  BY MishapType DEF Stall, Requeue, FailStalledOut, DeadLetter, DeadLetterLost, TypeInv, TypeOK
<1>3. QueueType'
  <2>1. /\ status \in [Jobs -> JobState] /\ stalls \in [Jobs -> Nat]
        /\ holder \in [Jobs -> Workers \cup {NoWorker}]
        /\ attempts \in [Jobs -> 0..MaxAttempts] /\ MaxAttempts \in Nat
        /\ QueueShaped
    BY PipelineAssumption DEF TypeInv, TypeOK
  <2>2. CASE Stall(j) \/ DeadLetter(j) \/ DeadLetterLost(j)
    BY <2>1, <2>2 DEF Stall, DeadLetter, DeadLetterLost, QueueType, QueueShaped, JobState
  <2>3. CASE Requeue(j)
    BY <2>1, <2>3 DEF Requeue, QueueType, QueueShaped, JobState
  <2>4. CASE FailStalledOut(j)
    <3>1. attempts[j] \in Nat /\ attempts[j] < MaxAttempts
      BY <2>1, <2>4 DEF FailStalledOut, QueueShaped
    <3> QED
      BY <2>1, <2>4, <3>1 DEF FailStalledOut, QueueType, QueueShaped, JobState
  <2> QED
    BY <2>2, <2>3, <2>4
<1> QED
  BY <1>1, <1>2, <1>3, SameTable, KeptTypes, TypeParts

(* The stores' own steps: what expires, and what the workflow closes. *)
LEMMA StoreStepType ==
  ASSUME TypeInv,
         \/ \E c \in Components : SessionLapses(c) \/ LockLapses(c)
         \/ \E i \in DOMAIN items : CloseItem(i)
  PROVE  TypeInv'
<1>1. ASSUME NEW c \in Components, SessionLapses(c) \/ LockLapses(c)
      PROVE  TypeInv'
  <2>1. UNCHANGED <<items, stored, run, mishaps>> /\ UNCHANGED queue
        /\ lock' \subseteq Components
    BY <1>1 DEF SessionLapses, LockLapses, stores, TypeInv, TypeOK
  <2>2. SessionType
    <3>1. session \in [Components -> ReferTo(Len(items'))]
      BY <2>1, Unfold DEF TypeInv, TypeOK, ReferTo
    <3>2. session' = session \/ session' = [session EXCEPT ![c] = None]
      BY <1>1 DEF SessionLapses, LockLapses
    <3> QED
      BY <3>1, <3>2 DEF SessionType, ReferTo
  <2> QED
    BY <2>1, <2>2, SameTable, KeptTypes, TypeParts
<1>2. ASSUME NEW i \in DOMAIN items, CloseItem(i)
      PROVE  TypeInv'
  <2>1. UNCHANGED <<stored, session, lock, run, mishaps>> /\ UNCHANGED queue
    BY <1>2 DEF CloseItem, redis
  <2>2. Extends(items')
    BY <1>2, CloseExtends
  <2> QED
    BY <2>1, <2>2, KeptTypes, TypeParts
<1> QED
  BY <1>1, <1>2

LEMMA InitType == Init => TypeInv
<1> SUFFICES ASSUME Init PROVE TypeInv
  OBVIOUS
<1>1. items = <<>> /\ items \in Seq(Row) /\ Len(items) = 0 /\ DOMAIN items = 1..0
  BY DEF Init
<1>2. Legal(Idle, 0)
  BY IdleLegal
<1>3. Local = Locals(0)
  BY <1>1 DEF Local, Locals
<1>4. TypeOK
  BY <1>1, <1>2, <1>3, PipelineAssumption DEF Init, TypeOK, Legal, JobState
<1> QED
  BY <1>2, <1>4, PipelineAssumption DEF Init, TypeInv, QueueShaped, Legal

LEMMA NextType == TypeInv /\ [Next]_vars => TypeInv'
<1> SUFFICES ASSUME TypeInv, [Next]_vars PROVE TypeInv'
  OBVIOUS
<1>1. CASE UNCHANGED vars
  <2>1. UNCHANGED <<items, stored, session, lock, run, mishaps>> /\ UNCHANGED queue
    BY <1>1 DEF vars, queue
  <2> QED
    BY <2>1, SameTable, KeptTypes, TypeParts
<1>2. CASE \E w \in Workers : Progress(w) \/ Failure(w)
  BY <1>2, TakeType, ResolveType, InsertType, PersistType, FailureType DEF Progress
<1>3. CASE \E j \in Jobs : \/ Stall(j) \/ Requeue(j) \/ FailStalledOut(j)
                           \/ DeadLetter(j) \/ DeadLetterLost(j)
  BY <1>3, QueueStepType
<1>4. CASE \/ \E c \in Components : SessionLapses(c) \/ LockLapses(c)
           \/ \E i \in DOMAIN items : CloseItem(i)
  BY <1>4, StoreStepType
<1> QED
  BY <1>1, <1>2, <1>3, <1>4 DEF Next

(* Whatever the workers, the failures and the closes do, every reference   *)
(* to a work item (in a document, a session or a run under way) is to one  *)
(* that exists, and no job is tried more than MaxAttempts times.           *)
THEOREM TypeCorrect == Spec => []TypeOK
<1>1. TypeInv => TypeOK
  BY DEF TypeInv
<1> QED
  BY <1>1, InitType, NextType, PTL DEF Spec

-----------------------------------------------------------------------------
(* One active work item per component, and every link to one of its own.   *)
(* Sessions and documents take their links from the runs, so the invariant *)
(* says the same of the links of every run and of the work item it seeds.  *)

Unique == \A i, j \in DOMAIN items :
            /\ items[i].component = items[j].component
            /\ items[i].active /\ items[j].active
            => i = j

StoredOwn == \A s \in Signals :
               stored[s] # None => items[stored[s]].component = ComponentOf[s]

SessionOwn == \A c \in Components :
                session[c] # None => items[session[c]].component = c

(* The links of local state r, and what it is about to seed, in a table.   *)
Own(r, table) ==
  r.pc # "idle" =>
    /\ \A k \in DOMAIN r.links :
         table[r.links[k]].component = ComponentOf[Batch[r.job][k]]
    /\ r.pc = "seed" =>
         table[r.found].component = ComponentOf[Batch[r.job][Len(r.links) + 1]]

OwnInv == /\ TypeInv /\ Unique /\ StoredOwn /\ SessionOwn
          /\ \A w \in Workers : Own(run[w], items)

(* A legal local state that owns its links does so in any later table. *)
LEMMA OwnStays ==
  ASSUME TypeInv, Extends(items'), NEW r, Legal(r, Len(items)), Own(r, items)
  PROVE  Own(r, items')
<1>1. r.links \in Seq(1..Len(items)) /\ r.found \in ReferTo(Len(items)) /\ Shaped(r)
  BY DEF Legal, Locals, ReferTo
<1>2. \A k \in DOMAIN r.links : r.links[k] \in DOMAIN items
  BY <1>1, Unfold
<1>3. r.pc = "seed" => r.found \in DOMAIN items
  BY <1>1, Unfold DEF Shaped, ReferTo
<1> QED
  BY <1>2, <1>3 DEF Own, Extends

LEMMA OwnRuns ==
  ASSUME OwnInv, Extends(items')
  PROVE  /\ UNCHANGED run => \A q \in Workers : Own(run'[q], items')
         /\ \A w \in Workers : \A r :
              Becomes(w, r) /\ Own(r, items') => \A q \in Workers : Own(run'[q], items')
<1>1. \A q \in Workers : Own(run[q], items')
  BY OwnStays, Unfold DEF OwnInv
<1>2. run \in [Workers -> Locals(Len(items))]
  BY Unfold DEF OwnInv
<1>3. ASSUME NEW w \in Workers, NEW r, Becomes(w, r), Own(r, items')
      PROVE  \A q \in Workers : Own(run'[q], items')
  BY <1>1, <1>2, <1>3 DEF Becomes
<1> QED
  BY <1>1, <1>3

(* Documents and sessions that a step leaves alone. *)
LEMMA OwnKept ==
  ASSUME OwnInv, Extends(items')
  PROVE  /\ UNCHANGED stored => StoredOwn'
         /\ UNCHANGED session => SessionOwn'
<1>1. /\ stored \in [Signals -> DOMAIN items \cup {None}]
      /\ session \in [Components -> DOMAIN items \cup {None}]
  BY DEF OwnInv, TypeInv, TypeOK
<1> QED
  BY <1>1 DEF OwnInv, StoredOwn, SessionOwn, Extends

(* No row becomes active and none is added. *)
Calms == Len(items') = Len(items) /\ \A i \in DOMAIN items : items'[i].active => items[i].active

LEMMA UniqueKept ==
  ASSUME OwnInv, Extends(items'), Calms
  PROVE  Unique'
<1>1. DOMAIN items' = DOMAIN items
  BY Unfold DEF Extends, Calms, OwnInv
<1> QED
  BY <1>1 DEF OwnInv, Unique, Extends, Calms

LEMMA SameCalms == ASSUME UNCHANGED items PROVE Calms
BY DEF Calms

(* The unique index admits a new row only where no row is active. *)
LEMMA UniqueCreate ==
  ASSUME OwnInv, NEW w \in Workers, run[w].pc \in Resolving, IndexAllows(Subject(w)),
         items' = Append(items, NewRow(w))
  PROVE  Unique'
<1>1. /\ items \in Seq(Row) /\ NewRow(w) \in Row /\ DOMAIN items = 1..Len(items)
      /\ Len(items) \in Nat
  BY Unfold, RowExtends DEF OwnInv
<1>2. NewRow(w).component = Subject(w)
  BY DEF NewRow
<1>3. \A i \in DOMAIN items : ~ (items[i].component = Subject(w) /\ items[i].active)
  BY DEF IndexAllows, Active
<1> HIDE DEF NewRow
<1>4. /\ DOMAIN items' = 1..(Len(items) + 1)
      /\ \A i \in DOMAIN items : items'[i] = items[i]
      /\ items'[Len(items) + 1] = NewRow(w)
  BY <1>1
<1>5. ASSUME NEW i \in DOMAIN items', NEW j \in DOMAIN items',
             items'[i].component = items'[j].component, items'[i].active, items'[j].active
      PROVE  i = j
  <2>1. CASE i \in DOMAIN items /\ j \in DOMAIN items
    BY <1>4, <1>5, <2>1 DEF OwnInv, Unique
  <2>2. CASE i \notin DOMAIN items /\ j \notin DOMAIN items
    BY <1>1, <1>4, <2>2
  <2>3. CASE i \in DOMAIN items /\ j \notin DOMAIN items
    <3>1. j = Len(items) + 1
      BY <1>1, <1>4, <2>3
    <3> QED
      BY <1>2, <1>3, <1>4, <1>5, <2>3, <3>1
  <2>4. CASE i \notin DOMAIN items /\ j \in DOMAIN items
    <3>1. i = Len(items) + 1
      BY <1>1, <1>4, <2>4
    <3> QED
      BY <1>2, <1>3, <1>4, <1>5, <2>4, <3>1
  <2> QED
    BY <2>1, <2>2, <2>3, <2>4
<1> QED
  BY <1>5 DEF Unique

-----------------------------------------------------------------------------
(* The local state after a step owns its links.                            *)

LEMMA IdleOwn == \A table : Own(Idle, table)
BY DEF Own, Idle

LEMMA GotoOwn ==
  ASSUME OwnInv, Extends(items'), NEW w \in Workers, NEW place,
         run[w].pc # "idle", place # "seed", Goto(w, place)
  PROVE  \A q \in Workers : Own(run'[q], items')
<1> DEFINE r == [run[w] EXCEPT !.pc = place]
<1>1. run[w] \in Locals(Len(items))
  BY Unfold DEF OwnInv, Legal
<1>2. Own(run[w], items')
  BY OwnStays, Unfold DEF OwnInv
<1>3. r.pc = place /\ r.links = run[w].links /\ r.job = run[w].job
  BY <1>1 DEF Locals
<1>4. Becomes(w, r)
  BY DEF Goto
<1> HIDE DEF r
<1>5. Own(r, items')
  BY <1>2, <1>3 DEF Own
<1> QED
  BY <1>4, <1>5, OwnRuns

(* A signal is resolved to a work item of its component. *)
LEMMA LinkOwn ==
  ASSUME OwnInv, Extends(items'), NEW w \in Workers, run[w].pc \in Resolving,
         NEW i \in DOMAIN items, items[i].component = Subject(w), Link(w, i)
  PROVE  \A q \in Workers : Own(run'[q], items')
<1> DEFINE resolved == Append(run[w].links, i)
<1>1. run[w] \in Locals(Len(items)) /\ run[w].links \in Seq(1..Len(items))
  BY Unfold DEF OwnInv, Legal, Locals
<1>2. Own(run[w], items') /\ run[w].pc # "idle"
  BY OwnStays, Unfold DEF OwnInv, Resolving
<1>3. /\ AfterLink(w, i).pc # "seed" /\ AfterLink(w, i).links = resolved
      /\ AfterLink(w, i).job = run[w].job
  BY <1>1 DEF AfterLink, Locals
<1>4. items'[i].component = ComponentOf[Batch[run[w].job][Len(run[w].links) + 1]]
  BY DEF Extends, Subject, BatchOf
<1>5. /\ DOMAIN resolved = 1..(Len(run[w].links) + 1)
      /\ \A k \in DOMAIN run[w].links : resolved[k] = run[w].links[k]
      /\ resolved[Len(run[w].links) + 1] = i
      /\ DOMAIN run[w].links = 1..Len(run[w].links)
      /\ Len(run[w].links) \in Nat
  BY <1>1, Unfold DEF OwnInv
<1> HIDE DEF resolved
<1>6. ASSUME NEW k \in DOMAIN resolved
      PROVE  items'[resolved[k]].component = ComponentOf[Batch[run[w].job][k]]
  <2>1. k \in DOMAIN run[w].links \/ k = Len(run[w].links) + 1
    BY <1>5
  <2> QED
    BY <1>2, <1>4, <1>5, <2>1 DEF Own
<1>7. Own(AfterLink(w, i), items')
  BY <1>3, <1>6 DEF Own
<1>8. Becomes(w, AfterLink(w, i))
  BY LinkLegal DEF OwnInv
<1> QED
  BY <1>7, <1>8, OwnRuns

(* A run goes on to seed row i, which is of its signal's component. *)
LEMMA SeedingOwn ==
  ASSUME OwnInv, Extends(items'), NEW w \in Workers, run[w].pc \in Resolving,
         NEW r, NEW i, items'[i].component = Subject(w), Becomes(w, r),
         r.pc = "seed", r.found = i, r.links = run[w].links, r.job = run[w].job
  PROVE  \A q \in Workers : Own(run'[q], items')
<1>1. Own(run[w], items') /\ run[w].pc # "idle"
  BY OwnStays, Unfold DEF OwnInv, Resolving
<1>2. Own(r, items')
  BY <1>1 DEF Own, Subject, BatchOf
<1> QED
  BY <1>2, OwnRuns

LEMMA FindsOwn ==
  ASSUME OwnInv, Extends(items'), NEW w \in Workers, run[w].pc \in Resolving, Finds(w)
  PROVE  \A q \in Workers : Own(run'[q], items')
<1>1. PICK i \in Active(Subject(w)) : Becomes(w, [run[w] EXCEPT !.pc = "seed", !.found = i])
  BY DEF Finds
<1> DEFINE r == [run[w] EXCEPT !.pc = "seed", !.found = i]
<1>2. i \in DOMAIN items /\ items[i].component = Subject(w)
  BY DEF Active
<1>3. items'[i].component = Subject(w)
  BY <1>2 DEF Extends
<1>4. r.pc = "seed" /\ r.found = i /\ r.links = run[w].links /\ r.job = run[w].job
  BY Unfold DEF OwnInv, Legal, Locals
<1>5. Becomes(w, r)
  BY <1>1
<1> HIDE DEF r
<1> QED
  BY <1>3, <1>4, <1>5, SeedingOwn

(* The session is seeded with a work item of its component. *)
LEMMA SeededOwn ==
  ASSUME OwnInv, Extends(items'), NEW w \in Workers, At(w, "seed"), Seeded(w)
  PROVE  SessionOwn'
<1>1. run[w].found \in DOMAIN items /\ items[run[w].found].component = Subject(w)
  BY References DEF OwnInv, Own, At, Subject, BatchOf
<1>2. items'[run[w].found].component = Subject(w) /\ Subject(w) \in Components
  BY <1>1, SubjectType DEF Extends, OwnInv, At, Resolving
<1>3. session \in [Components -> DOMAIN items \cup {None}]
  BY DEF OwnInv, TypeInv, TypeOK
<1>4. \A c \in Components : session[c] # None => items'[session[c]].component = c
  BY <1>3 DEF OwnInv, SessionOwn, Extends
<1> QED
  BY <1>2, <1>3, <1>4 DEF Seeded, SessionOwn

-----------------------------------------------------------------------------
(* The invariant, action by action.                                        *)

(* What is left to show of a step. *)
OwnNext == Unique' /\ StoredOwn' /\ SessionOwn' /\ \A q \in Workers : Own(run'[q], items')

(* A slot gives up. *)
LEMMA GivesUpOwn ==
  ASSUME OwnInv, Extends(items'), NEW w \in Workers, Becomes(w, Idle)
  PROVE  \A q \in Workers : Own(run'[q], items')
BY OwnRuns, IdleOwn

(* A step that touches no table, document or session. *)
LEMMA RunsOnlyOwn ==
  ASSUME OwnInv, UNCHANGED <<items, stored, session>>,
         Extends(items') => \A q \in Workers : Own(run'[q], items')
  PROVE  OwnNext
BY SameTable, SameCalms, UniqueKept, OwnKept DEF OwnNext, OwnInv

LEMMA ResolveOwn ==
  ASSUME OwnInv, NEW w \in Workers, Resolve(w)
  PROVE  OwnNext
<1> USE DEF Resolving
<1>1. ASSUME run[w].pc \in Resolving, session[Subject(w)] # None
      PROVE  /\ session[Subject(w)] \in DOMAIN items
             /\ items[session[Subject(w)]].component = Subject(w)
  BY <1>1, References, SubjectType DEF OwnInv, SessionOwn
<1>2. CASE ReadSession(w) \/ PollHits(w) \/ PollGivesUp(w)
  <2>1. /\ run[w].pc \in Resolving /\ run[w].pc # "idle"
        /\ UNCHANGED <<items, stored, session>>
        /\ \/ session[Subject(w)] # None /\ Link(w, session[Subject(w)])
           \/ Goto(w, "lock") \/ Goto(w, "find")
    BY <1>2 DEF ReadSession, PollHits, PollGivesUp, At, stores, redis
  <2>2. ASSUME Extends(items')
        PROVE  \A q \in Workers : Own(run'[q], items')
    BY <1>1, <2>1, <2>2, LinkOwn, GotoOwn
  <2> QED
    BY <2>1, <2>2, RunsOnlyOwn
<1>3. CASE TryLock(w)
  <2>1. run[w].pc = "lock" /\ UNCHANGED <<items, stored, session>>
        /\ \/ Goto(w, "poll")
           \/ Becomes(w, [run[w] EXCEPT !.pc = "find", !.locked = TRUE])
    BY <1>3 DEF TryLock, At, stores
  <2>2. ASSUME Extends(items')
        PROVE  \A q \in Workers : Own(run'[q], items')
    <3>1. CASE Goto(w, "poll")
      BY <2>1, <2>2, <3>1, GotoOwn
    <3>2. CASE Becomes(w, [run[w] EXCEPT !.pc = "find", !.locked = TRUE])
      <4> DEFINE r == [run[w] EXCEPT !.pc = "find", !.locked = TRUE]
      <4>1. r.pc = "find" /\ r.links = run[w].links /\ r.job = run[w].job
        BY Unfold DEF OwnInv, Legal, Locals
      <4>2. Own(run[w], items') /\ Becomes(w, r)
        BY <2>2, <3>2, OwnStays, Unfold DEF OwnInv
      <4> HIDE DEF r
      <4>3. Own(r, items')
        BY <2>1, <4>1, <4>2 DEF Own
      <4> QED
        BY <2>2, <4>2, <4>3, OwnRuns
    <3> QED
      BY <2>1, <3>1, <3>2
  <2> QED
    BY <2>1, <2>2, RunsOnlyOwn
<1>4. CASE Find(w) \/ CreateConflicts(w) \/ Refind(w)
  <2>1. /\ run[w].pc \in Resolving /\ run[w].pc # "idle"
        /\ UNCHANGED <<items, stored, session>>
        /\ \/ Finds(w) \/ Goto(w, "create") \/ Goto(w, "refind")
           \/ Becomes(w, Idle)
    BY <1>4 DEF Find, CreateConflicts, Refind, AttemptFails, At, stores, redis
  <2>2. ASSUME Extends(items')
        PROVE  \A q \in Workers : Own(run'[q], items')
    BY <2>1, <2>2, FindsOwn, GotoOwn, GivesUpOwn
  <2> QED
    BY <2>1, <2>2, RunsOnlyOwn
<1>5. CASE Create(w)
  <2>1. /\ run[w].pc \in Resolving /\ IndexAllows(Subject(w))
        /\ UNCHANGED <<stored, session>>
        /\ items' = Append(items, NewRow(w)) /\ Becomes(w, Made(w))
    BY <1>5 DEF Create, At, redis, Made
  <2>2. Extends(items')
    BY <2>1, RowExtends DEF OwnInv
  <2>3. items'[Len(items) + 1].component = Subject(w)
    <3>1. items' = Append(items, NewRow(w)) /\ NewRow(w) \in Row /\ items \in Seq(Row)
      BY <2>1, RowExtends, Unfold DEF OwnInv
    <3>2. NewRow(w).component = Subject(w)
      BY DEF NewRow
    <3> HIDE DEF NewRow
    <3> QED
      BY <3>1, <3>2
  <2>4. /\ Made(w).pc = "seed" /\ Made(w).found = Len(items) + 1
        /\ Made(w).links = run[w].links /\ Made(w).job = run[w].job
    BY Unfold DEF OwnInv, Legal, Locals, Made
  <2>5. \A q \in Workers : Own(run'[q], items')
    BY <2>1, <2>2, <2>3, <2>4, SeedingOwn
  <2> QED
    BY <2>1, <2>2, <2>5, UniqueCreate, OwnKept DEF OwnNext
<1>6. CASE Seed(w)
  <2>1. /\ run[w].pc \in Resolving /\ At(w, "seed") /\ UNCHANGED <<items, stored>>
        /\ Seeded(w) /\ Link(w, run[w].found)
    BY <1>6 DEF Seed, At, stores
  <2>2. Extends(items') /\ Calms
    BY <2>1, SameTable, SameCalms DEF OwnInv
  <2>3. run[w].found \in DOMAIN items /\ items[run[w].found].component = Subject(w)
    BY <2>1, References DEF OwnInv, Own, At, Subject, BatchOf
  <2> QED
    BY <2>1, <2>2, <2>3, LinkOwn, SeededOwn, UniqueKept, OwnKept DEF OwnNext
<1> QED
  BY <1>2, <1>3, <1>4, <1>5, <1>6 DEF Resolve

LEMMA InsertOwn ==
  ASSUME OwnInv, NEW w \in Workers, Insert(w)
  PROVE  OwnNext
<1>1. PICK k \in DOMAIN BatchOf(w) :
        /\ stored' = [stored EXCEPT ![BatchOf(w)[k]] = run[w].links[k]]
        /\ Becomes(w, [run[w] EXCEPT !.fresh = @ \cup {BatchOf(w)[k]}])
  BY DEF Insert
<1> DEFINE r == [run[w] EXCEPT !.fresh = @ \cup {BatchOf(w)[k]}]
<1>2. run[w].pc = "insert" /\ UNCHANGED <<items, session>>
  BY DEF Insert, At, redis
<1>3. Extends(items') /\ Calms
  BY <1>2, SameTable, SameCalms DEF OwnInv
<1>4. /\ run[w].job \in Jobs /\ Len(run[w].links) = Len(BatchOf(w))
      /\ run[w].links \in Seq(1..Len(items)) /\ Own(run[w], items')
  BY <1>2, <1>3, UnderWay, OwnStays, Unfold
     DEF OwnInv, Legal, Shaped, Locals, Persisting, BatchOf
<1>5. BatchOf(w)[k] \in Signals /\ k \in DOMAIN run[w].links
  BY <1>4, BatchFacts DEF BatchOf
<1>6. r.pc = "insert" /\ r.links = run[w].links /\ r.job = run[w].job
  BY <1>2, Unfold DEF OwnInv, Legal, Locals
<1>7. Becomes(w, r)
  BY <1>1
<1> HIDE DEF r
<1>8. \A q \in Workers : Own(run'[q], items')
  <2>1. Own(r, items')
    BY <1>2, <1>4, <1>6 DEF Own
  <2> QED
    BY <1>3, <1>7, <2>1, OwnRuns
<1>9. StoredOwn'
  <2>1. stored \in [Signals -> DOMAIN items \cup {None}]
    BY DEF OwnInv, TypeInv, TypeOK
  <2>2. items[run[w].links[k]].component = ComponentOf[BatchOf(w)[k]]
    BY <1>2, <1>5 DEF OwnInv, Own, BatchOf
  <2>3. \A s \in Signals : stored'[s] = IF s = BatchOf(w)[k] THEN run[w].links[k] ELSE stored[s]
    BY <1>1, <1>5, <2>1
  <2> QED
    BY <1>2, <2>2, <2>3 DEF OwnInv, StoredOwn
<1> QED
  BY <1>2, <1>3, <1>8, <1>9, UniqueKept, OwnKept DEF OwnNext

LEMMA PersistOwn ==
  ASSUME OwnInv, NEW w \in Workers,
         \/ \E j \in Jobs : Take(w, j)
         \/ InsertReturns(w) \/ Count(w) \/ Announce(w) \/ Finish(w)
  PROVE  OwnNext
<1>1. ASSUME NEW j \in Jobs, Take(w, j)
      PROVE  OwnNext
  <2> DEFINE r == [Idle EXCEPT !.pc = "session", !.job = j]
  <2>1. UNCHANGED <<items, stored, session>> /\ Becomes(w, r)
    BY <1>1 DEF Take, stores, redis
  <2>2. r.links = <<>> /\ r.pc = "session"
    BY DEF Idle
  <2> HIDE DEF r
  <2>3. Own(r, items')
    BY <2>2 DEF Own
  <2> QED
    BY <2>1, <2>3, OwnRuns, RunsOnlyOwn
<1>2. CASE InsertReturns(w) \/ Finish(w)
  <2>1. /\ UNCHANGED <<items, stored, session>>
        /\ \/ run[w].pc # "idle" /\ Goto(w, "count")
           \/ Becomes(w, Idle)
    BY <1>2 DEF InsertReturns, Finish, At, stores, redis
  <2> QED
    BY <2>1, GotoOwn, GivesUpOwn, RunsOnlyOwn
<1>3. CASE Count(w)
  <2>1. /\ run[w].pc # "idle" /\ Goto(w, "announce") /\ Counted(w, Touched(w))
        /\ UNCHANGED stored /\ UNCHANGED session
    BY <1>3 DEF Count, At, redis
  <2>2. Extends(items') /\ Calms
    BY <2>1, CountedExtends DEF OwnInv, Calms
  <2> QED
    BY <2>1, <2>2, GotoOwn, UniqueKept, OwnKept DEF OwnNext
<1>4. CASE Announce(w)
  <2>1. /\ run[w].pc # "idle" /\ Goto(w, "finish")
        /\ UNCHANGED stored /\ UNCHANGED session
    BY <1>4 DEF Announce, At, redis
  <2>2. Extends(items') /\ Calms
    BY <1>4, AnnounceExtends DEF OwnInv, Calms
  <2> QED
    BY <2>1, <2>2, GotoOwn, UniqueKept, OwnKept DEF OwnNext
<1> QED
  BY <1>1, <1>2, <1>3, <1>4

LEMMA FailureOwn ==
  ASSUME OwnInv, NEW w \in Workers, Failure(w)
  PROVE  OwnNext
<1>1. CASE Crash(w)
  <2>1. UNCHANGED <<items, stored, session>> /\ Becomes(w, Idle)
    BY <1>1 DEF Crash, stores, redis
  <2> QED
    BY <2>1, GivesUpOwn, RunsOnlyOwn
<1>2. CASE Throw(w)
  <2>1. /\ UNCHANGED items /\ UNCHANGED stored /\ Becomes(w, Idle)
        /\ UNCHANGED session \/ (At(w, "seed") /\ Seeded(w))
    BY <1>2 DEF Throw, AttemptFails, stores
  <2>2. Extends(items') /\ Calms
    BY <2>1, SameTable, SameCalms DEF OwnInv
  <2> QED
    BY <2>1, <2>2, GivesUpOwn, SeededOwn, UniqueKept, OwnKept DEF OwnNext
<1>3. CASE CountFails(w) \/ CountUnacknowledged(w)
  <2>1. PICK these : Counted(w, these)
    BY <1>3 DEF CountFails, CountUnacknowledged
  <2>2. /\ UNCHANGED stored /\ UNCHANGED session
        /\ Becomes(w, Idle) \/ UNCHANGED run
    BY <1>3 DEF CountFails, CountUnacknowledged, AttemptFails, redis
  <2>3. Extends(items') /\ Calms
    BY <2>1, CountedExtends DEF OwnInv, Calms
  <2>4. \A q \in Workers : Own(run'[q], items')
    BY <2>2, <2>3, GivesUpOwn, OwnRuns
  <2> QED
    BY <2>2, <2>3, <2>4, UniqueKept, OwnKept DEF OwnNext
<1>4. CASE CreateUnacknowledged(w)
  <2>1. /\ run[w].pc \in Resolving /\ IndexAllows(Subject(w))
        /\ items' = Append(items, NewRow(w))
        /\ UNCHANGED stored /\ UNCHANGED session /\ UNCHANGED run
    BY <1>4 DEF CreateUnacknowledged, At, Resolving, redis
  <2>2. Extends(items')
    BY <2>1, RowExtends DEF OwnInv
  <2> QED
    BY <2>1, <2>2, UniqueCreate, OwnKept, OwnRuns DEF OwnNext
<1> QED
  BY <1>1, <1>2, <1>3, <1>4 DEF Failure

LEMMA OtherOwn ==
  ASSUME OwnInv,
         \/ \E j \in Jobs : \/ Stall(j) \/ Requeue(j) \/ FailStalledOut(j)
                            \/ DeadLetter(j) \/ DeadLetterLost(j)
         \/ \E c \in Components : SessionLapses(c) \/ LockLapses(c)
         \/ \E i \in DOMAIN items : CloseItem(i)
         \/ UNCHANGED vars
  PROVE  OwnNext
<1>1. CASE \/ \E j \in Jobs : \/ Stall(j) \/ Requeue(j) \/ FailStalledOut(j)
                              \/ DeadLetter(j) \/ DeadLetterLost(j)
           \/ \E c \in Components : LockLapses(c)
           \/ UNCHANGED vars
  <2>1. UNCHANGED <<items, stored, session>> /\ UNCHANGED run
    BY <1>1 DEF Stall, Requeue, FailStalledOut, DeadLetter, DeadLetterLost, LockLapses, vars,
                stores, redis
  <2> QED
    BY <2>1, OwnRuns, RunsOnlyOwn
<1>2. ASSUME NEW c \in Components, SessionLapses(c)
      PROVE  OwnNext
  <2>1. UNCHANGED items /\ UNCHANGED stored /\ UNCHANGED run
        /\ session' = [session EXCEPT ![c] = None]
    BY <1>2 DEF SessionLapses, stores
  <2>2. Extends(items') /\ Calms
    BY <2>1, SameTable, SameCalms DEF OwnInv
  <2>3. SessionOwn'
    BY <2>1 DEF OwnInv, SessionOwn, TypeInv, TypeOK
  <2> QED
    BY <2>1, <2>2, <2>3, OwnRuns, UniqueKept, OwnKept DEF OwnNext
<1>3. ASSUME NEW i \in DOMAIN items, CloseItem(i)
      PROVE  OwnNext
  <2>1. UNCHANGED stored /\ UNCHANGED session /\ UNCHANGED run
    BY <1>3 DEF CloseItem, redis
  <2>2. Extends(items') /\ Calms
    BY <1>3, CloseExtends DEF OwnInv, Calms
  <2> QED
    BY <2>1, <2>2, OwnRuns, UniqueKept, OwnKept DEF OwnNext
<1> QED
  BY <1>1, <1>2, <1>3

LEMMA InitOwn == Init => OwnInv
<1> SUFFICES ASSUME Init PROVE OwnInv
  OBVIOUS
<1>1. TypeInv /\ DOMAIN items = {}
  BY InitType DEF Init
<1>2. \A w \in Workers : Own(run[w], items)
  BY IdleOwn DEF Init
<1> QED
  BY <1>1, <1>2 DEF Init, OwnInv, Unique, StoredOwn, SessionOwn

LEMMA NextOwn == OwnInv /\ [Next]_vars => OwnInv'
<1> SUFFICES ASSUME OwnInv, [Next]_vars PROVE OwnInv'
  OBVIOUS
<1>1. TypeInv'
  BY NextType DEF OwnInv
<1>2. OwnNext
  <2>1. CASE \E w \in Workers : Progress(w) \/ Failure(w)
    BY <2>1, ResolveOwn, InsertOwn, PersistOwn, FailureOwn DEF Progress
  <2>2. CASE ~ \E w \in Workers : Progress(w) \/ Failure(w)
    BY <2>2, OtherOwn DEF Next
  <2> QED
    BY <2>1, <2>2
<1> QED
  BY <1>1, <1>2 DEF OwnInv, OwnNext

(* Whatever becomes of locks and sessions, however often and by however    *)
(* many slots a batch is run, and whichever calls fail: a component has    *)
(* one active work item at most, and documents and sessions name work      *)
(* items of their own component.                                           *)
THEOREM OneActiveWorkItem == Spec => []OneWorkItemPerComponent
<1>1. OwnInv => OneWorkItemPerComponent
  BY DEF OwnInv, Unique, StoredOwn, SessionOwn, OneWorkItemPerComponent
<1> QED
  BY <1>1, InitOwn, NextOwn, PTL DEF Spec

-----------------------------------------------------------------------------
(* No work item is announced twice. A row is announced by the run that     *)
(* made it only, once, and no two runs made the same row.                  *)

Counts(r, i) ==
  Cardinality({k \in DOMAIN r.links : r.links[k] = i /\ Batch[r.job][k] \in r.fresh})

(* Until it announces, nothing that a run made is announced; and when it   *)
(* is about to, what it counted into has a count.                          *)
Unheard(r, table) ==
  /\ r.pc # "finish" => \A i \in r.made : table[i].announced = 0
  /\ r.pc = "announce" => \A i \in r.made : Counts(r, i) > 0 => table[i].count > 0

MadeApart == \A w, q \in Workers : w # q => run[w].made \cap run[q].made = {}

OnceInv == /\ TypeInv /\ AnnouncedOnce /\ MadeApart
           /\ \A w \in Workers : Unheard(run[w], items)

OnceNext == /\ AnnouncedOnce' /\ MadeApart'
            /\ \A q \in Workers : Unheard(run'[q], items')

(* A step that announces nothing: counts do not fall, new rows are silent. *)
Quiet ==
  /\ Extends(items')
  /\ \A i \in DOMAIN items : /\ items'[i].announced = items[i].announced
                             /\ items'[i].count >= items[i].count
  /\ \A i \in DOMAIN items' \ DOMAIN items : items'[i].announced = 0

(* The numbers of a row. *)
LEMMA RowNumbers ==
  ASSUME NEW table \in Seq(Row), NEW i \in DOMAIN table
  PROVE  table[i].count \in Nat /\ table[i].announced \in Nat
<1>1. table[i] \in Row
  OBVIOUS
<1> QED
  BY <1>1 DEF Row

LEMMA QuietSame == ASSUME TypeInv, UNCHANGED items PROVE Quiet
BY SameTable, Unfold, RowNumbers DEF Quiet

LEMMA QuietAppend ==
  ASSUME TypeInv, NEW w \in Workers, run[w].pc \in Resolving,
         items' = Append(items, NewRow(w))
  PROVE  Quiet /\ DOMAIN items' = 1..(Len(items) + 1)
<1>1. /\ items \in Seq(Row) /\ NewRow(w) \in Row /\ DOMAIN items = 1..Len(items)
      /\ Len(items) \in Nat /\ Extends(items')
  BY Unfold, RowExtends
<1>2. NewRow(w).announced = 0
  BY DEF NewRow
<1> HIDE DEF NewRow
<1>3. /\ DOMAIN items' = 1..(Len(items) + 1)
      /\ \A i \in DOMAIN items : items'[i] = items[i]
      /\ items'[Len(items) + 1] = NewRow(w)
  BY <1>1
<1>4. \A i \in DOMAIN items' \ DOMAIN items : items'[i].announced = 0
  BY <1>1, <1>2, <1>3
<1>5. \A i \in DOMAIN items : items[i].count \in Nat
  BY <1>1, RowNumbers
<1> QED
  BY <1>1, <1>3, <1>4, <1>5 DEF Quiet

LEMMA SameLength ==
  ASSUME TypeInv, Extends(items'), Len(items') = Len(items)
  PROVE  DOMAIN items' = DOMAIN items
BY Unfold DEF Extends

LEMMA QuietCounted ==
  ASSUME TypeInv, NEW w \in Workers, NEW these, Counted(w, these)
  PROVE  Quiet
<1>1. DOMAIN items' = DOMAIN items
  BY CountedExtends, SameLength
<1>2. \A i \in DOMAIN items : items[i].count \in Nat /\ Increment(w, i) \in Nat
  BY Unfold, IncrementType, RowNumbers
<1>3. \A i \in DOMAIN items : items'[i].count >= items[i].count
  BY <1>2, CountedExtends
<1> QED
  BY <1>1, <1>3, CountedExtends DEF Quiet

LEMMA QuietClose ==
  ASSUME TypeInv, NEW i \in DOMAIN items, CloseItem(i)
  PROVE  Quiet
<1>1. DOMAIN items' = DOMAIN items
  BY CloseExtends, SameLength
<1>2. \A k \in DOMAIN items : items[k].count \in Nat
  BY Unfold, RowNumbers
<1> QED
  BY <1>1, <1>2, CloseExtends DEF Quiet

LEMMA QuietOnce ==
  ASSUME OnceInv, Quiet
  PROVE  /\ AnnouncedOnce'
         /\ \A q \in Workers : Unheard(run[q], items')
<1>1. \A i \in DOMAIN items : items[i].count \in Nat /\ items[i].announced \in Nat
  BY Unfold, RowNumbers DEF OnceInv
<1>2. items' \in Seq(Row) /\ \A i \in DOMAIN items : i \in DOMAIN items'
  BY Unfold DEF Quiet, Extends, OnceInv
<1>5. \A i \in DOMAIN items' : items'[i].count \in Nat /\ items'[i].announced \in Nat
  BY <1>2, RowNumbers
<1>3. AnnouncedOnce'
  BY <1>1, <1>2, <1>5 DEF Quiet, OnceInv, AnnouncedOnce
<1>4. ASSUME NEW q \in Workers PROVE Unheard(run[q], items')
  <2>1. run[q].made \subseteq DOMAIN items /\ Unheard(run[q], items)
    BY Unfold DEF OnceInv, Legal, Locals
  <2>2. \A i \in run[q].made : /\ items'[i].announced = items[i].announced
                               /\ items[i].count > 0 => items'[i].count > 0
    BY <1>1, <1>2, <1>5, <2>1 DEF Quiet
  <2>3. run[q].pc # "finish" => \A i \in run[q].made : items'[i].announced = 0
    BY <2>1, <2>2 DEF Unheard
  <2>4. run[q].pc = "announce" =>
          \A i \in run[q].made : Counts(run[q], i) > 0 => items'[i].count > 0
    BY <2>1, <2>2 DEF Unheard
  <2> QED
    BY <2>3, <2>4 DEF Unheard
<1> QED
  BY <1>3, <1>4

(* A quiet step of no slot. *)
LEMMA QuietAlone ==
  ASSUME OnceInv, Quiet, UNCHANGED run
  PROVE  OnceNext
BY QuietOnce DEF OnceNext, OnceInv, MadeApart

(* A quiet step of a slot that has nothing more than before to announce. *)
LEMMA QuietMove ==
  ASSUME OnceInv, Quiet, NEW w \in Workers, NEW r, Becomes(w, r),
         r.made \subseteq run[w].made, Unheard(r, items')
  PROVE  OnceNext
<1>1. run \in [Workers -> Locals(Len(items))]
  BY Unfold DEF OnceInv
<1>2. \A q \in Workers : run'[q] = IF q = w THEN r ELSE run[q]
  BY <1>1 DEF Becomes
<1>3. MadeApart'
  BY <1>2 DEF OnceInv, MadeApart
<1>4. \A q \in Workers : Unheard(run'[q], items')
  BY <1>2, QuietOnce
<1> QED
  BY <1>3, <1>4, QuietOnce DEF OnceNext

(* ... because it made nothing, ... *)
LEMMA QuietNothing ==
  ASSUME OnceInv, Quiet, NEW w \in Workers, NEW r, Becomes(w, r), r.made = {}
  PROVE  OnceNext
<1>1. Unheard(r, items')
  BY DEF Unheard
<1> QED
  BY <1>1, QuietMove

LEMMA QuietGivesUp ==
  ASSUME OnceInv, Quiet, NEW w \in Workers, Becomes(w, Idle)
  PROVE  OnceNext
BY QuietNothing DEF Idle

(* ... or because it goes on, and not yet to announce. *)
LEMMA QuietGoesOn ==
  ASSUME OnceInv, Quiet, NEW w \in Workers, NEW r, Becomes(w, r),
         r.made = run[w].made, r.pc \notin {"announce", "finish"}, run[w].pc # "finish"
  PROVE  OnceNext
<1>1. Unheard(run[w], items')
  BY QuietOnce
<1>2. Unheard(r, items')
  BY <1>1 DEF Unheard
<1> QED
  BY <1>2, QuietMove

(* The local state after each step that only resolves or inserts. *)
LEMMA QuietResolves ==
  ASSUME OnceInv, UNCHANGED items, NEW w \in Workers, run[w].pc \in Resolving \cup {"insert"},
         \/ \E i \in DOMAIN items : run[w].pc \in Resolving /\ Link(w, i)
         \/ Finds(w)
         \/ \E place \in {"lock", "poll", "find", "create", "refind", "count"} : Goto(w, place)
         \/ Becomes(w, [run[w] EXCEPT !.pc = "find", !.locked = TRUE])
         \/ \E s : run[w].pc = "insert" /\ Becomes(w, [run[w] EXCEPT !.fresh = @ \cup {s}])
  PROVE  OnceNext
<1>1. Quiet /\ run[w].pc # "finish" /\ run[w] \in Locals(Len(items))
  BY QuietSame, Unfold DEF OnceInv, Resolving, Legal
<1>2. ASSUME NEW i \in DOMAIN items, run[w].pc \in Resolving, Link(w, i)
      PROVE  OnceNext
  <2>1. AfterLink(w, i).pc \in {"insert", "session"} /\ AfterLink(w, i).made = run[w].made
    BY <1>1 DEF AfterLink, Locals
  <2>2. Becomes(w, AfterLink(w, i))
    BY <1>2, LinkLegal DEF OnceInv
  <2> QED
    BY <1>1, <2>1, <2>2, QuietGoesOn
<1>3. CASE Finds(w)
  <2>1. PICK i : Becomes(w, [run[w] EXCEPT !.pc = "seed", !.found = i])
    BY <1>3 DEF Finds
  <2> DEFINE r == [run[w] EXCEPT !.pc = "seed", !.found = i]
  <2>2. r.pc = "seed" /\ r.made = run[w].made /\ Becomes(w, r)
    BY <1>1, <2>1 DEF Locals
  <2> HIDE DEF r
  <2> QED
    BY <1>1, <2>2, QuietGoesOn
<1>4. ASSUME NEW place \in {"lock", "poll", "find", "create", "refind", "count"},
             Goto(w, place)
      PROVE  OnceNext
  <2> DEFINE r == [run[w] EXCEPT !.pc = place]
  <2>1. r.pc = place /\ r.made = run[w].made /\ Becomes(w, r)
    BY <1>1, <1>4 DEF Locals, Goto
  <2> HIDE DEF r
  <2> QED
    BY <1>1, <1>4, <2>1, QuietGoesOn
<1>5. CASE Becomes(w, [run[w] EXCEPT !.pc = "find", !.locked = TRUE])
  <2> DEFINE r == [run[w] EXCEPT !.pc = "find", !.locked = TRUE]
  <2>1. r.pc = "find" /\ r.made = run[w].made /\ Becomes(w, r)
    BY <1>1, <1>5 DEF Locals
  <2> HIDE DEF r
  <2> QED
    BY <1>1, <2>1, QuietGoesOn
<1>6. ASSUME NEW s, run[w].pc = "insert", Becomes(w, [run[w] EXCEPT !.fresh = @ \cup {s}])
      PROVE  OnceNext
  <2> DEFINE r == [run[w] EXCEPT !.fresh = @ \cup {s}]
  <2>1. r.pc = "insert" /\ r.made = run[w].made /\ Becomes(w, r)
    BY <1>1, <1>6 DEF Locals
  <2> HIDE DEF r
  <2> QED
    BY <1>1, <2>1, QuietGoesOn
<1> QED
  BY <1>2, <1>3, <1>4, <1>5, <1>6

(* The run that creates a row alone has made it. *)
LEMMA CreateOnce ==
  ASSUME OnceInv, NEW w \in Workers, Create(w)
  PROVE  OnceNext
<1> DEFINE n == Len(items) + 1
<1>1. /\ run[w].pc = "create" /\ run[w].pc \in Resolving
      /\ items' = Append(items, NewRow(w)) /\ Becomes(w, Made(w))
  BY DEF Create, At, Resolving, Made
<1>2. /\ Quiet /\ DOMAIN items' = 1..n /\ Len(items) \in Nat
      /\ DOMAIN items = 1..Len(items)
  BY <1>1, QuietAppend, Unfold DEF OnceInv
<1>3. \A q \in Workers : run[q].made \subseteq 1..Len(items)
  BY Unfold DEF OnceInv, Legal, Locals
<1>4. Made(w).pc = "seed" /\ Made(w).made = run[w].made \cup {n}
  BY Unfold DEF Made, OnceInv, Legal, Locals
<1>5. \A q \in Workers : run'[q] = IF q = w THEN Made(w) ELSE run[q]
  BY <1>1, Unfold DEF Becomes, OnceInv
<1>6. items'[n].announced = 0 /\ \A q \in Workers : n \notin run[q].made
  BY <1>2, <1>3 DEF Quiet
<1> HIDE DEF n
<1>7. MadeApart'
  BY <1>4, <1>5, <1>6 DEF OnceInv, MadeApart
<1>8. Unheard(Made(w), items')
  <2>1. Unheard(run[w], items')
    BY <1>2, QuietOnce
  <2> QED
    BY <1>1, <1>4, <1>6, <2>1 DEF Unheard
<1>9. \A q \in Workers : Unheard(run'[q], items')
  BY <1>2, <1>5, <1>8, QuietOnce
<1> QED
  BY <1>2, <1>7, <1>9, QuietOnce DEF OnceNext

(* What a run is about to announce has a count. *)
LEMMA CountOnce ==
  ASSUME OnceInv, NEW w \in Workers, Count(w)
  PROVE  OnceNext
<1> DEFINE r == [run[w] EXCEPT !.pc = "announce"]
<1>1. run[w].pc = "count" /\ Counted(w, Touched(w)) /\ Becomes(w, r)
  BY DEF Count, At, Goto
<1>2. Quiet /\ run[w] \in Locals(Len(items)) /\ run[w].made \subseteq DOMAIN items
  BY <1>1, QuietCounted, Unfold DEF OnceInv, Legal, Locals
<1>3. /\ r.pc = "announce" /\ r.made = run[w].made /\ r.links = run[w].links
      /\ r.fresh = run[w].fresh /\ r.job = run[w].job
  BY <1>2 DEF Locals
<1> HIDE DEF r
<1>4. \A i : Counts(r, i) = Increment(w, i)
  BY <1>3 DEF Counts, Increment, BatchOf
<1>5. ASSUME NEW i \in run[w].made, Counts(r, i) > 0
      PROVE  items'[i].count > 0
  <2>1. i \in Touched(w) /\ Increment(w, i) \in Nat /\ Increment(w, i) > 0
    BY <1>2, <1>4, <1>5, IncrementType DEF Touched, OnceInv
  <2>2. items'[i].count = items[i].count + Increment(w, i) /\ items[i].count \in Nat
    BY <1>1, <1>2, <2>1, CountedExtends, Unfold, RowNumbers DEF OnceInv
  <2> QED
    BY <2>1, <2>2
<1>6. Unheard(r, items')
  <2>1. Unheard(run[w], items')
    BY <1>2, QuietOnce
  <2> QED
    BY <1>1, <1>3, <1>5, <2>1 DEF Unheard
<1> QED
  BY <1>1, <1>2, <1>3, <1>6, QuietMove

(* The announcement, of rows that nobody else can announce. *)
LEMMA AnnounceOnce ==
  ASSUME OnceInv, NEW w \in Workers, Announce(w)
  PROVE  OnceNext
<1> DEFINE r == [run[w] EXCEPT !.pc = "finish"]
<1>1. run[w].pc = "announce" /\ Becomes(w, r)
  BY DEF Announce, At, Goto
<1>2. /\ run \in [Workers -> Locals(Len(items))]
      /\ \A q \in Workers : run[q].made \subseteq DOMAIN items
  BY Unfold DEF OnceInv, Legal, Locals
<1>3. r.pc = "finish" /\ r.made = run[w].made
  BY <1>2 DEF Locals
<1> HIDE DEF r
<1>4. \A q \in Workers : run'[q] = IF q = w THEN r ELSE run[q]
  BY <1>1, <1>2 DEF Becomes
<1>5. /\ DOMAIN items' = DOMAIN items
      /\ \A i \in DOMAIN items :
           /\ items'[i].count = items[i].count
           /\ items'[i].announced =
                IF i \in CreatedWorkItems(w) THEN items[i].announced + 1
                                             ELSE items[i].announced
  BY AnnounceExtends, SameLength DEF OnceInv
<1>6. \A i \in CreatedWorkItems(w) : /\ i \in run[w].made /\ i \in DOMAIN items
                                     /\ items[i].announced = 0 /\ items[i].count > 0
  BY <1>1 DEF OnceInv, Unheard, CreatedWorkItems, Touched, Counts, Increment, BatchOf
<1>7. \A i \in DOMAIN items : items[i].announced \in Nat
  BY Unfold, RowNumbers DEF OnceInv
<1>8. AnnouncedOnce'
  BY <1>5, <1>6, <1>7 DEF OnceInv, AnnouncedOnce
<1>9. MadeApart'
  BY <1>3, <1>4 DEF OnceInv, MadeApart
<1>10. ASSUME NEW q \in Workers PROVE Unheard(run'[q], items')
  <2>1. CASE q = w
    BY <1>3, <1>4, <2>1 DEF Unheard
  <2>2. CASE q # w
    <3>1. run'[q] = run[q] /\ Unheard(run[q], items) /\ run[q].made \cap run[w].made = {}
      BY <1>4, <2>2 DEF OnceInv, MadeApart
    <3>2. \A i \in run[q].made : items'[i].announced = items[i].announced
                                /\ items'[i].count = items[i].count
      BY <1>2, <1>5, <1>6, <3>1
    <3> QED
      BY <3>1, <3>2 DEF Unheard
  <2> QED
    BY <2>1, <2>2
<1> QED
  BY <1>8, <1>9, <1>10 DEF OnceNext

LEMMA ProgressOnce ==
  ASSUME OnceInv, NEW w \in Workers, Progress(w)
  PROVE  OnceNext
<1>1. ASSUME NEW j \in Jobs, Take(w, j) PROVE OnceNext
  <2>1. UNCHANGED items /\ Becomes(w, [Idle EXCEPT !.pc = "session", !.job = j])
    BY <1>1 DEF Take, stores
  <2> DEFINE r == [Idle EXCEPT !.pc = "session", !.job = j]
  <2>2. Becomes(w, r) /\ r.made = {}
    BY <2>1 DEF Idle
  <2> HIDE DEF r
  <2> QED
    BY <2>1, <2>2, QuietSame, QuietNothing DEF OnceInv
<1>2. CASE ReadSession(w) \/ PollHits(w) \/ Seed(w)
  <2>1. /\ UNCHANGED items /\ run[w].pc \in Resolving
        /\ \/ session[Subject(w)] # None /\ Link(w, session[Subject(w)])
           \/ At(w, "seed") /\ Link(w, run[w].found)
           \/ Goto(w, "lock")
    BY <1>2 DEF ReadSession, PollHits, Seed, stores, At, Resolving
  <2> QED
    BY <2>1, References, QuietResolves DEF OnceInv
<1>3. CASE TryLock(w) \/ PollGivesUp(w) \/ Find(w) \/ CreateConflicts(w) \/ InsertReturns(w)
  <2>1. /\ UNCHANGED items /\ run[w].pc \in Resolving \cup {"insert"}
        /\ \/ Goto(w, "poll") \/ Goto(w, "find") \/ Goto(w, "create")
           \/ Goto(w, "refind") \/ Goto(w, "count") \/ Finds(w)
           \/ Becomes(w, [run[w] EXCEPT !.pc = "find", !.locked = TRUE])
    BY <1>3 DEF TryLock, PollGivesUp, Find, CreateConflicts, InsertReturns, stores, At, Resolving
  <2> QED
    BY <2>1, QuietResolves
<1>4. CASE Refind(w) \/ Finish(w)
  <2>1. /\ UNCHANGED items
        /\ \/ Becomes(w, Idle)
           \/ run[w].pc \in Resolving /\ Finds(w)
    BY <1>4 DEF Refind, Finish, AttemptFails, stores, At, Resolving
  <2>2. CASE Becomes(w, Idle)
    BY <2>1, <2>2, QuietSame, QuietGivesUp DEF OnceInv
  <2>3. CASE run[w].pc \in Resolving /\ Finds(w)
    BY <2>1, <2>3, QuietResolves
  <2> QED
    BY <2>1, <2>2, <2>3
<1>5. CASE Insert(w)
  <2>1. UNCHANGED items /\ run[w].pc = "insert"
        /\ \E s : Becomes(w, [run[w] EXCEPT !.fresh = @ \cup {s}])
    BY <1>5 DEF Insert, At
  <2> QED
    BY <2>1, QuietResolves
<1> QED
  BY <1>1, <1>2, <1>3, <1>4, <1>5, CreateOnce, CountOnce, AnnounceOnce DEF Progress, Resolve

LEMMA OtherOnce ==
  ASSUME OnceInv,
         \/ \E w \in Workers : Failure(w)
         \/ \E j \in Jobs : \/ Stall(j) \/ Requeue(j) \/ FailStalledOut(j)
                            \/ DeadLetter(j) \/ DeadLetterLost(j)
         \/ \E c \in Components : SessionLapses(c) \/ LockLapses(c)
         \/ \E i \in DOMAIN items : CloseItem(i)
         \/ UNCHANGED vars
  PROVE  OnceNext
<1>1. ASSUME NEW w \in Workers, Crash(w) \/ Throw(w) PROVE OnceNext
  <2>1. UNCHANGED items /\ Becomes(w, Idle)
    BY <1>1 DEF Crash, Throw, AttemptFails, stores
  <2> QED
    BY <2>1, QuietSame, QuietGivesUp DEF OnceInv
<1>2. ASSUME NEW w \in Workers, CountFails(w) \/ CountUnacknowledged(w) PROVE OnceNext
  <2>1. PICK these : Counted(w, these)
    BY <1>2 DEF CountFails, CountUnacknowledged
  <2>2. Quiet
    BY <2>1, QuietCounted DEF OnceInv
  <2>3. Becomes(w, Idle) \/ UNCHANGED run
    BY <1>2 DEF CountFails, CountUnacknowledged, AttemptFails
  <2> QED
    BY <2>2, <2>3, QuietGivesUp, QuietAlone
<1>3. ASSUME NEW w \in Workers, CreateUnacknowledged(w) PROVE OnceNext
  <2>1. run[w].pc \in Resolving /\ items' = Append(items, NewRow(w)) /\ UNCHANGED run
    BY <1>3 DEF CreateUnacknowledged, At, Resolving
  <2>2. Quiet
    BY <2>1, QuietAppend DEF OnceInv
  <2> QED
    BY <2>1, <2>2, QuietAlone
<1>4. ASSUME NEW i \in DOMAIN items, CloseItem(i) PROVE OnceNext
  <2>1. UNCHANGED run /\ Quiet
    BY <1>4, QuietClose DEF CloseItem, OnceInv
  <2> QED
    BY <2>1, QuietAlone
<1>5. CASE \/ \E j \in Jobs : \/ Stall(j) \/ Requeue(j) \/ FailStalledOut(j)
                              \/ DeadLetter(j) \/ DeadLetterLost(j)
           \/ \E c \in Components : SessionLapses(c) \/ LockLapses(c)
           \/ UNCHANGED vars
  <2>1. UNCHANGED items /\ UNCHANGED run
    BY <1>5 DEF Stall, Requeue, FailStalledOut, DeadLetter, DeadLetterLost, SessionLapses,
                LockLapses, vars, stores
  <2> QED
    BY <2>1, QuietSame, QuietAlone DEF OnceInv
<1> QED
  BY <1>1, <1>2, <1>3, <1>4, <1>5 DEF Failure

(* The created flag of a run is enough: without the dispatcher's claim,    *)
(* and whatever is retried or run twice at once, no work item is announced *)
(* a second time, and none that counts no signal.                          *)
THEOREM NeverAnnouncedTwice == Spec => []AnnouncedOnce
<1>1. Init => OnceInv
  <2> SUFFICES ASSUME Init PROVE OnceInv
    OBVIOUS
  <2>1. TypeInv /\ DOMAIN items = {} /\ \A w \in Workers : run[w] = Idle
    BY InitType DEF Init
  <2>2. Idle.made = {}
    BY DEF Idle
  <2> HIDE DEF Init
  <2> QED
    BY <2>1, <2>2 DEF OnceInv, AnnouncedOnce, MadeApart, Unheard
<1>2. OnceInv /\ [Next]_vars => OnceInv'
  <2> SUFFICES ASSUME OnceInv, [Next]_vars PROVE OnceInv'
    OBVIOUS
  <2>1. TypeInv'
    BY NextType DEF OnceInv
  <2>2. OnceNext
    BY ProgressOnce, OtherOnce DEF Next
  <2> QED
    BY <2>1, <2>2 DEF OnceInv, OnceNext
<1>3. OnceInv => AnnouncedOnce
  BY DEF OnceInv
<1> QED
  BY <1>1, <1>2, <1>3, PTL DEF Spec

-----------------------------------------------------------------------------
(* A completed job is persisted. A document is never unlinked, so what a   *)
(* run has seen stored before it counts is stored when its job completes.  *)

Persisted(docs, j) == \A k \in DOMAIN Batch[j] : docs[Batch[j][k]] # None

Inserted == {"count", "announce", "finish"}

KeptInv == /\ TypeInv /\ CompletedIsPersisted
           /\ \A w \in Workers : run[w].pc \in Inserted => Persisted(stored, run[w].job)

(* No document loses its link. *)
Grows == \A s \in Signals : stored[s] # None => stored'[s] # None

LEMMA PersistedGrows ==
  ASSUME Grows, NEW j \in Jobs, Persisted(stored, j)
  PROVE  Persisted(stored', j)
<1>1. \A k \in DOMAIN Batch[j] : Batch[j][k] \in Signals
  BY BatchFacts
<1> QED
  BY <1>1 DEF Persisted, Grows

LEMMA NextGrows ==
  ASSUME TypeInv, [Next]_vars
  PROVE  Grows
<1>1. ASSUME NEW w \in Workers, Insert(w)
      PROVE  Grows
  <2>1. PICK k \in DOMAIN BatchOf(w) :
          stored' = [stored EXCEPT ![BatchOf(w)[k]] = run[w].links[k]]
    BY <1>1 DEF Insert
  <2>2. /\ run[w].pc = "insert" /\ run[w].job \in Jobs
        /\ Len(run[w].links) = Len(BatchOf(w)) /\ run[w].links \in Seq(1..Len(items))
    BY <1>1, UnderWay, Unfold DEF Insert, At, Legal, Shaped, Locals, Persisting, BatchOf
  <2>3. k \in 1..Len(run[w].links)
    BY <2>2, BatchFacts DEF BatchOf
  <2>4. run[w].links[k] \in 1..Len(items)
    BY <2>2, <2>3
  <2>5. run[w].links[k] # None
    BY <2>4 DEF None
  <2> QED
    BY <2>1, <2>5 DEF Grows, TypeInv, TypeOK
<1>2. CASE UNCHANGED stored
  BY <1>2 DEF Grows
<1>3. ASSUME NEW w \in Workers, Progress(w) \/ Failure(w), ~ Insert(w)
      PROVE  UNCHANGED stored
  BY <1>3 DEF Progress, Failure, Resolve, Take, ReadSession, TryLock, PollHits, PollGivesUp,
              Find, Create, CreateConflicts, Refind, Seed, InsertReturns, Count, Announce,
              Finish, Crash, Throw, CountFails, CreateUnacknowledged, CountUnacknowledged,
              stores
<1>4. ASSUME ~ \E w \in Workers : Progress(w) \/ Failure(w)
      PROVE  UNCHANGED stored
  BY <1>4 DEF Next, Stall, Requeue, FailStalledOut, DeadLetter, DeadLetterLost,
              SessionLapses, LockLapses, CloseItem, stores, vars
<1> QED
  BY <1>1, <1>2, <1>3, <1>4

(* Where the steps of a slot lead: only InsertReturns enters the part of a *)
(* run in which its batch is persisted.                                    *)
Enters(w) ==
  run' = run \/ \E r : /\ Becomes(w, r)
                       /\ \/ r.pc \notin Inserted
                          \/ run[w].pc \in Inserted /\ r.job = run[w].job
                          \/ Persisted(stored, run[w].job) /\ r.job = run[w].job

LEMMA NextEnters ==
  ASSUME TypeInv, NEW w \in Workers, Progress(w) \/ Failure(w)
  PROVE  Enters(w)
<1>1. run[w] \in Locals(Len(items))
  BY Unfold DEF Legal
<1>2. ASSUME NEW place, Goto(w, place), place \notin Inserted
      PROVE  Enters(w)
  <2> DEFINE r == [run[w] EXCEPT !.pc = place]
  <2>1. Becomes(w, r) /\ r.pc = place
    BY <1>1, <1>2 DEF Goto, Locals
  <2> HIDE DEF r
  <2> QED
    BY <1>2, <2>1 DEF Enters
<1>3. ASSUME NEW place, Goto(w, place), run[w].pc \in Inserted \/ Persisted(stored, run[w].job)
      PROVE  Enters(w)
  <2> DEFINE r == [run[w] EXCEPT !.pc = place]
  <2>1. Becomes(w, r) /\ r.job = run[w].job
    BY <1>1, <1>3 DEF Goto, Locals
  <2> HIDE DEF r
  <2> QED
    BY <1>3, <2>1 DEF Enters
<1>4. ASSUME Becomes(w, Idle) PROVE Enters(w)
  <2>1. Idle.pc \notin Inserted
    BY DEF Idle, Inserted
  <2> QED
    BY <1>4, <2>1 DEF Enters
<1>5. ASSUME NEW i, Link(w, i) PROVE Enters(w)
  <2>1. Becomes(w, AfterLink(w, i))
    BY <1>5 DEF Link, AfterLink
  <2>2. AfterLink(w, i).pc \in {"insert", "session"}
    BY <1>1 DEF AfterLink, Locals
  <2> QED
    BY <2>1, <2>2 DEF Enters, Inserted
<1>6. ASSUME Finds(w) PROVE Enters(w)
  <2>1. PICK i : Becomes(w, [run[w] EXCEPT !.pc = "seed", !.found = i])
    BY <1>6 DEF Finds
  <2> DEFINE r == [run[w] EXCEPT !.pc = "seed", !.found = i]
  <2>2. Becomes(w, r) /\ r.pc = "seed"
    BY <1>1, <2>1 DEF Locals
  <2> HIDE DEF r
  <2> QED
    BY <2>2 DEF Enters, Inserted
<1>7. ASSUME NEW j \in Jobs, Take(w, j) PROVE Enters(w)
  <2> DEFINE r == [Idle EXCEPT !.pc = "session", !.job = j]
  <2>1. Becomes(w, r) /\ r.pc = "session"
    BY <1>7 DEF Take, Idle
  <2> HIDE DEF r
  <2> QED
    BY <2>1 DEF Enters, Inserted
<1>8. CASE TryLock(w)
  <2> DEFINE r == [run[w] EXCEPT !.pc = "find", !.locked = TRUE]
  <2>1. Goto(w, "poll") \/ Becomes(w, r)
    BY <1>8 DEF TryLock
  <2>2. r.pc = "find"
    BY <1>1 DEF Locals
  <2> HIDE DEF r
  <2>3. Becomes(w, r) => Enters(w)
    BY <2>2 DEF Enters, Inserted
  <2> QED
    BY <1>2, <2>1, <2>3 DEF Inserted
<1>9. CASE Create(w)
  <2>1. Becomes(w, Made(w)) /\ Made(w).pc = "seed"
    BY <1>1, <1>9 DEF Create, Made, Locals
  <2> QED
    BY <2>1 DEF Enters, Inserted
<1>10. CASE Insert(w)
  <2>1. PICK s : Becomes(w, [run[w] EXCEPT !.fresh = @ \cup {s}])
    BY <1>10 DEF Insert
  <2> DEFINE r == [run[w] EXCEPT !.fresh = @ \cup {s}]
  <2>2. Becomes(w, r) /\ r.pc = "insert"
    BY <1>1, <1>10, <2>1 DEF Locals, Insert, At
  <2> HIDE DEF r
  <2> QED
    BY <2>2 DEF Enters, Inserted
<1>11. CASE InsertReturns(w)
  <2>1. Goto(w, "count") /\ Persisted(stored, run[w].job)
    BY <1>11 DEF InsertReturns, Persisted, BatchOf
  <2> QED
    BY <1>3, <2>1
<1>12. CASE Count(w) \/ Announce(w)
  <2>1. run[w].pc \in Inserted /\ \E place : Goto(w, place)
    BY <1>12 DEF Count, Announce, At, Inserted
  <2> QED
    BY <1>3, <2>1
<1>13. CASE ReadSession(w) \/ PollHits(w) \/ PollGivesUp(w) \/ Find(w)
            \/ CreateConflicts(w) \/ Refind(w) \/ Seed(w)
  <2>1. \/ \E i : Link(w, i)
        \/ Goto(w, "lock") \/ Goto(w, "find") \/ Goto(w, "create") \/ Goto(w, "refind")
        \/ Finds(w) \/ Becomes(w, Idle)
    BY <1>13 DEF ReadSession, PollHits, PollGivesUp, Find, CreateConflicts, Refind, Seed,
                 AttemptFails
  <2> QED
    BY <1>2, <1>4, <1>5, <1>6, <2>1 DEF Inserted
<1>14. CASE Finish(w) \/ Failure(w)
  <2>1. Becomes(w, Idle) \/ run' = run
    BY <1>14 DEF Finish, Failure, Crash, Throw, CountFails, AttemptFails,
                 CreateUnacknowledged, CountUnacknowledged
  <2> QED
    BY <1>4, <2>1 DEF Enters
<1> QED
  BY <1>7, <1>8, <1>9, <1>10, <1>11, <1>12, <1>13, <1>14 DEF Progress, Resolve

(* Only the end of a run completes a job. *)
LEMMA NextCompletes ==
  ASSUME TypeInv, [Next]_vars, NEW j \in Jobs,
         status'[j] = "completed", status[j] # "completed"
  PROVE  \E w \in Workers : run[w].pc \in Inserted /\ run[w].job = j
<1>1. status \in [Jobs -> JobState]
  BY DEF TypeInv, TypeOK
<1>2. ASSUME NEW w \in Workers, Finish(w)
      PROVE  run[w].pc \in Inserted /\ run[w].job = j
  <2>1. run[w].pc = "finish"
    BY <1>2 DEF Finish, At
  <2>2. status' = status \/ status' = [status EXCEPT ![run[w].job] = "completed"]
    BY <1>2 DEF Finish
  <2> QED
    BY <1>1, <2>1, <2>2 DEF Inserted
<1>3. ASSUME NEW w \in Workers, AttemptFails(w)
      PROVE  FALSE
  BY <1>1, <1>3 DEF AttemptFails, queue
<1>4. ASSUME NEW w \in Workers, Progress(w) \/ Failure(w), ~ Finish(w), ~ AttemptFails(w)
      PROVE  FALSE
  <2>1. ASSUME NEW i \in Jobs, Take(w, i) PROVE FALSE
    BY <1>1, <2>1 DEF Take
  <2>2. ASSUME ~ \E i \in Jobs : Take(w, i) PROVE status' = status
    BY <1>4, <2>2
       DEF Progress, Failure, Resolve, ReadSession, TryLock, PollHits, PollGivesUp, Find,
           Create, CreateConflicts, Refind, Seed, Insert, InsertReturns, Count, Announce,
           Crash, Throw, CountFails, CreateUnacknowledged, CountUnacknowledged, queue
  <2> QED
    BY <2>1, <2>2
<1>5. ASSUME ~ \E w \in Workers : Progress(w) \/ Failure(w)
      PROVE  FALSE
  <2>1. ASSUME NEW i \in Jobs,
               Stall(i) \/ Requeue(i) \/ FailStalledOut(i) \/ DeadLetter(i) \/ DeadLetterLost(i)
        PROVE  FALSE
    BY <1>1, <2>1 DEF Stall, Requeue, FailStalledOut, DeadLetter, DeadLetterLost
  <2>2. ASSUME ~ \E i \in Jobs :
                  Stall(i) \/ Requeue(i) \/ FailStalledOut(i) \/ DeadLetter(i) \/ DeadLetterLost(i)
        PROVE  status' = status
    BY <1>5, <2>2 DEF Next, SessionLapses, LockLapses, CloseItem, queue, vars
  <2> QED
    BY <2>1, <2>2
<1> QED
  BY <1>2, <1>3, <1>4, <1>5

(* A job is completed only when MongoDB has every signal of it, even when  *)
(* the run that completes it met duplicates of another run or job, or lost *)
(* its job to another run meanwhile.                                       *)
THEOREM CompletedJobsArePersisted == Spec => []CompletedIsPersisted
<1>1. Init => KeptInv
  BY InitType DEF Init, KeptInv, CompletedIsPersisted, Inserted, Idle
<1>2. KeptInv /\ [Next]_vars => KeptInv'
  <2> SUFFICES ASSUME KeptInv, [Next]_vars PROVE KeptInv'
    OBVIOUS
  <2>1. TypeInv' /\ Grows
    BY NextType, NextGrows DEF KeptInv
  <2>2. ASSUME NEW j \in Jobs, status'[j] = "completed"
        PROVE  Persisted(stored', j)
    <3>1. Persisted(stored, j)
      BY <2>2, NextCompletes DEF KeptInv, CompletedIsPersisted, Persisted
    <3> QED
      BY <2>1, <3>1, PersistedGrows
  <2>3. ASSUME NEW q \in Workers, run'[q].pc \in Inserted
        PROVE  Persisted(stored', run'[q].job)
    <3>1. run \in [Workers -> Locals(Len(items))]
      BY Unfold DEF KeptInv
    <3>2. Persisted(stored, run'[q].job)
      <4>1. CASE run'[q] = run[q]
        BY <2>3, <4>1 DEF KeptInv
      <4>2. ASSUME NEW w \in Workers, Enters(w), run'[q] # run[q]
            PROVE  Persisted(stored, run'[q].job)
        <5>1. PICK r : /\ Becomes(w, r)
                       /\ \/ r.pc \notin Inserted
                          \/ run[w].pc \in Inserted /\ r.job = run[w].job
                          \/ Persisted(stored, run[w].job) /\ r.job = run[w].job
          BY <4>2 DEF Enters
        <5>2. q = w /\ run'[q] = r
          BY <3>1, <4>2, <5>1 DEF Becomes
        <5> QED
          BY <2>3, <5>1, <5>2 DEF KeptInv
      <4>3. ASSUME ~ \E w \in Workers : Progress(w) \/ Failure(w)
            PROVE  run' = run
        BY <4>3 DEF Next, Stall, Requeue, FailStalledOut, DeadLetter, DeadLetterLost,
                    SessionLapses, LockLapses, CloseItem, vars
      <4> QED
        BY <4>1, <4>2, <4>3, NextEnters DEF KeptInv
    <3>3. run'[q].job \in Jobs
      <4>1. run'[q].pc # "idle" /\ TypeInv'
        BY <2>1, <2>3 DEF Inserted
      <4> QED
        BY <4>1 DEF TypeInv, Shaped
    <3> QED
      BY <2>1, <3>2, <3>3, PersistedGrows
  <2> QED
    BY <2>1, <2>2, <2>3 DEF KeptInv, CompletedIsPersisted, Persisted
<1>3. KeptInv => CompletedIsPersisted
  BY DEF KeptInv
<1> QED
  BY <1>1, <1>2, <1>3, PTL DEF Spec

-----------------------------------------------------------------------------
(* The counts. A document is counted by the run that inserted it: it is    *)
(* in the run's fresh set until the increment, and in the row's count from *)
(* then on. What the runs will add is a sum over the slots.                *)

(* What local state r will still add to row i, and what all will. *)
Weight(r, i)  == IF r.pc \in {"insert", "count"} THEN Counts(r, i) ELSE 0
Adds(runs, i) == [w \in Workers |-> Weight(runs[w], i)]

(* No batch has the same signal twice. *)
DistinctBatches == \A j \in Jobs : \A k, l \in DOMAIN Batch[j] : Batch[j][k] = Batch[j][l] => k = l

Total(i) == items[i].count + Pending(i)

Bounded(i) ==
  /\ IsFiniteSet(Linked(i))
  /\ Struck({"outage", "crash"}) \/ Total(i) >= Cardinality(Linked(i))
  /\ DistinctBatches => Struck({"lost_count"}) \/ Total(i) <= Cardinality(Linked(i))

(* A signal is fresh to the run that stored it, from its insert on. *)
Fresh(r, docs) == /\ r.pc \in Resolving \cup {"idle"} => r.fresh = {}
                  /\ \A s \in r.fresh : docs[s] # None

CountsInv == /\ TypeInv
             /\ \A w \in Workers : Fresh(run[w], stored)
             /\ \A i \in DOMAIN items : Bounded(i)

CountsNext == /\ \A w \in Workers : Fresh(run'[w], stored')
              /\ \A i \in DOMAIN items' : Bounded(i)'

(* The fold of Pending is this sum. *)
LEMMA PendingFold == \A i : Pending(i) = SumOf(Adds(run, i), Workers)
<1> SUFFICES ASSUME NEW i PROVE Pending(i) = SumOf(Adds(run, i), Workers)
  OBVIOUS
<1> DEFINE f == Adds(run, i)
<1> DEFINE W(w) == IF run[w].pc \in {"insert", "count"} THEN Increment(w, i) ELSE 0
<1> DEFINE P(g) == g = [s \in SUBSET Workers |->
                         IF s = {} THEN 0
                         ELSE W(CHOOSE x \in s : TRUE) + g[s \ {CHOOSE x \in s : TRUE}]]
<1>1. Pending(i) = (CHOOSE g : P(g))[Workers]
  BY DEF Pending, MapThenSumSet, MapThenFoldSet
<1>2. \A w \in Workers : f[w] = W(w)
  BY DEF Adds, Weight, Counts, Increment, BatchOf
<1>3. \A s \in SUBSET Workers : s # {} => f[Chosen(s)] = W(Chosen(s))
  BY <1>2, ChosenIn
<1> HIDE DEF W, f
<1>4. \A g : P(g) <=> SumsTo(g, f, Workers)
  BY <1>3 DEF SumsTo, Chosen
<1> HIDE DEF P
<1>5. SumsTo(CHOOSE g : P(g), f, Workers)
  BY <1>4, SumExists, PipelineAssumption
<1> QED
  BY <1>1, <1>5, SumOfUnique, PipelineAssumption DEF f

LEMMA PendingNext == \A i : Pending(i)' = SumOf(Adds(run', i), Workers)
<1>1. (\A i : Pending(i) = SumOf(Adds(run, i), Workers))'
  BY PendingFold, PTL
<1> QED
  BY <1>1 DEF Adds

(* What a local state counts is a natural number, and nothing when it has  *)
(* no fresh signal or no link to the row.                                  *)
LEMMA WeightFacts ==
  ASSUME NEW n \in Nat, NEW r \in Locals(n), NEW i
  PROVE  /\ IsFiniteSet(DOMAIN r.links)
         /\ Counts(r, i) \in Nat /\ Weight(r, i) \in Nat
         /\ r.fresh = {} => Weight(r, i) = 0
         /\ i \notin 1..n => Weight(r, i) = 0
<1> DEFINE S == {k \in DOMAIN r.links : r.links[k] = i /\ Batch[r.job][k] \in r.fresh}
<1>1. r.links \in Seq(1..n)
  BY DEF Locals
<1>2. DOMAIN r.links = 1..Len(r.links) /\ Len(r.links) \in Nat
  BY <1>1
<1>3. IsFiniteSet(DOMAIN r.links)
  BY <1>2, FS_Interval
<1>4. S \subseteq DOMAIN r.links
  OBVIOUS
<1>5. (r.fresh = {} => S = {}) /\ (i \notin 1..n => S = {})
  BY <1>1, <1>2
<1>6. Counts(r, i) = Cardinality(S)
  BY DEF Counts
<1> HIDE DEF S
<1>7. Cardinality(S) \in Nat /\ (S = {} => Cardinality(S) = 0)
  BY <1>3, <1>4, FS_Subset, FS_CardinalityType, FS_EmptySet
<1> QED
  BY <1>3, <1>5, <1>6, <1>7 DEF Weight

LocalStates == Len(items) \in Nat /\ \A w \in Workers : run[w] \in Locals(Len(items))

LEMMA TypedStates == TypeInv => LocalStates
BY Unfold DEF LocalStates, Legal

(* One slot moves: what is pending moves with it. *)
LEMMA PendingMoves ==
  ASSUME TypeInv, TypeInv', NEW w \in Workers,
         \A q \in Workers : q # w => run'[q] = run[q], NEW i
  PROVE  /\ Pending(i) \in Nat /\ Pending(i)' \in Nat
         /\ Pending(i)' = Pending(i) + Weight(run'[w], i) - Weight(run[w], i)
<1> DEFINE f == Adds(run, i)
<1> DEFINE h == Adds(run', i)
<1>0. IsFiniteSet(Workers)
  BY PipelineAssumption
<1>1. ASSUME NEW q \in Workers
      PROVE  Weight(run[q], i) \in Nat /\ Weight(run'[q], i) \in Nat
  <2>1. Len(items) \in Nat /\ run[q] \in Locals(Len(items))
    BY Unfold DEF Legal
  <2>2. Len(items') \in Nat /\ run'[q] \in Locals(Len(items'))
    <3>1. (TypeInv => LocalStates)'
      BY TypedStates, PTL
    <3> QED
      BY <3>1 DEF LocalStates
  <2> QED
    BY <2>1, <2>2, WeightFacts
<1>2. \A q \in Workers : f[q] \in Nat /\ h[q] \in Nat
  BY <1>1 DEF Adds
<1>3. \A q \in Workers : q # w => h[q] = f[q]
  BY DEF Adds
<1>4. f[w] = Weight(run[w], i) /\ h[w] = Weight(run'[w], i)
  BY DEF Adds
<1>5. Pending(i) = SumOf(f, Workers) /\ Pending(i)' = SumOf(h, Workers)
  BY PendingFold, PendingNext
<1> HIDE DEF f, h
<1>6. SumOf(f, Workers) \in Nat /\ SumOf(h, Workers) \in Nat
  BY <1>0, <1>2, SumOfType
<1>7. SumOf(h, Workers) = SumOf(f, Workers) + h[w] - f[w]
  BY <1>0, <1>2, <1>3, SumOfChange
<1> QED
  BY <1>4, <1>5, <1>6, <1>7

LEMMA PendingStays ==
  ASSUME TypeInv, UNCHANGED run, NEW i
  PROVE  Pending(i) \in Nat /\ Pending(i)' = Pending(i)
<1>1. \A q \in Workers : Weight(run[q], i) \in Nat
  BY Unfold, WeightFacts DEF Legal
<1>2. \A q \in Workers : Adds(run, i)[q] \in Nat
  BY <1>1 DEF Adds
<1>3. SumOf(Adds(run, i), Workers) \in Nat
  BY <1>2, SumOfType, PipelineAssumption
<1> QED
  BY <1>3, PendingFold, PendingNext

(* What has struck has struck for good. *)
LEMMA StrikesStay ==
  ASSUME TypeInv, [Next]_vars, NEW kinds, Struck(kinds)
  PROVE  Struck(kinds)'
<1>1. mishaps \in [Failures -> Nat]
  BY DEF TypeInv, TypeOK
<1>2. mishaps' = mishaps \/ \E kind \in Failures : mishaps' = [mishaps EXCEPT ![kind] = @ + 1]
  <2>1. ASSUME NEW w \in Workers, Progress(w) PROVE mishaps' = mishaps
    <3>1. CASE \E j \in Jobs : Take(w, j)
      BY <3>1 DEF Take
    <3>2. CASE Resolve(w)
      BY <3>2 DEF Resolve, ReadSession, TryLock, PollHits, PollGivesUp, Find, Create,
                  CreateConflicts, Refind, Seed
    <3>3. CASE Insert(w) \/ InsertReturns(w) \/ Count(w) \/ Announce(w) \/ Finish(w)
      BY <3>3 DEF Insert, InsertReturns, Count, Announce, Finish
    <3> QED
      BY <2>1, <3>1, <3>2, <3>3 DEF Progress
  <2>2. ASSUME NEW w \in Workers, Failure(w)
        PROVE  \E kind \in Failures : mishaps' = [mishaps EXCEPT ![kind] = @ + 1]
    <3>1. Mishap("crash") \/ Mishap("outage") \/ Mishap("lost_create") \/ Mishap("lost_count")
      BY <2>2 DEF Failure, Crash, Throw, CountFails, CreateUnacknowledged,
                  CountUnacknowledged
    <3> QED
      BY <3>1 DEF Mishap
  <2>3. ASSUME NEW j \in Jobs, Stall(j)
        PROVE  \E kind \in Failures : mishaps' = [mishaps EXCEPT ![kind] = @ + 1]
    BY <2>3 DEF Stall, Mishap
  <2>4. ASSUME ~ \E w \in Workers : Progress(w) \/ Failure(w), ~ \E j \in Jobs : Stall(j)
        PROVE  mishaps' = mishaps
    BY <2>4 DEF Next, Requeue, FailStalledOut, DeadLetter, DeadLetterLost, SessionLapses,
                LockLapses, CloseItem, vars
  <2> QED
    BY <2>1, <2>2, <2>3, <2>4
<1> QED
  BY <1>1, <1>2 DEF Struck

LEMMA MishapStrikes ==
  ASSUME TypeInv, NEW kinds, NEW kind \in kinds, Mishap(kind)
  PROVE  Struck(kinds)'
BY DEF TypeInv, TypeOK, Mishap, Struck

(* A row whose count, with what is pending, does not change, or changes in *)
(* the direction that what has struck excuses, stays within its bounds.    *)
LEMMA BoundedKept ==
  ASSUME CountsInv, [Next]_vars, Extends(items'), UNCHANGED stored, NEW i \in DOMAIN items,
         Pending(i) \in Nat, Pending(i)' \in Nat,
         Struck({"outage", "crash"})' \/ Total(i)' >= Total(i),
         Struck({"lost_count"})' \/ Total(i)' <= Total(i)
  PROVE  Bounded(i)'
<1> DEFINE t == Total(i)
<1> DEFINE u == Total(i)'
<1> DEFINE n == Cardinality(Linked(i))
<1>1. Linked(i)' = Linked(i) /\ Bounded(i)
  BY DEF Linked, CountsInv
<1>2. IsFiniteSet(Linked(i)) /\ n \in Nat
  BY <1>1, FS_CardinalityType DEF Bounded
<1>3. items[i].count \in Nat /\ items'[i].count \in Nat
  <2>1. items \in Seq(Row) /\ items' \in Seq(Row) /\ i \in DOMAIN items'
    BY Unfold DEF CountsInv, Extends
  <2> QED
    BY <2>1, RowNumbers
<1>4. t \in Nat /\ u \in Nat
  BY <1>3 DEF Total
<1>5. /\ Struck({"outage", "crash"}) => Struck({"outage", "crash"})'
      /\ Struck({"lost_count"}) => Struck({"lost_count"})'
  BY StrikesStay DEF CountsInv
<1>6. Struck({"outage", "crash"}) \/ t >= n
  BY <1>1 DEF Bounded
<1>7. DistinctBatches => Struck({"lost_count"}) \/ t <= n
  BY <1>1 DEF Bounded
<1>8. (Struck({"outage", "crash"})' \/ u >= t) /\ (Struck({"lost_count"})' \/ u <= t)
  OBVIOUS
<1> HIDE DEF t, u, n
<1>9. Struck({"outage", "crash"})' \/ u >= n
  BY <1>2, <1>4, <1>5, <1>6, <1>8
<1>10. DistinctBatches => Struck({"lost_count"})' \/ u <= n
  BY <1>2, <1>4, <1>5, <1>7, <1>8
<1>11. DistinctBatches' = DistinctBatches
  BY DEF DistinctBatches
<1> QED
  BY <1>1, <1>2, <1>9, <1>10, <1>11 DEF Bounded, u, n

(* A new row has no document, no count, and nothing pending. *)
LEMMA NewBounded ==
  ASSUME CountsInv, UNCHANGED stored, Extends(items'), NEW i \in DOMAIN items' \ DOMAIN items,
         items'[i].count = 0, \A q \in Workers : Weight(run'[q], i) = 0
  PROVE  Bounded(i)'
<1>1. items' \in Seq(Row) /\ i \in DOMAIN items'
  BY DEF Extends
<1>2. i \in 1..Len(items')
  BY <1>1
<1>3. i # None
  BY <1>2 DEF None
<1>4. stored \in [Signals -> DOMAIN items \cup {None}]
  BY DEF CountsInv, TypeInv, TypeOK
<1>5. Linked(i)' = {}
  BY <1>3, <1>4 DEF Linked
<1>6. \A q \in Workers : Adds(run', i)[q] = 0
  BY DEF Adds
<1>7. Pending(i)' = 0
  BY <1>6, PendingNext, SumOfZero, PipelineAssumption
<1>8. Total(i)' = 0
  BY <1>7 DEF Total
<1>9. IsFiniteSet({}) /\ Cardinality({}) = 0
  BY FS_EmptySet
<1> QED
  BY <1>5, <1>8, <1>9 DEF Bounded

(* The fresh sets after a step that stores nothing, or more. *)
LEMMA FreshStays ==
  ASSUME CountsInv, Grows, NEW r, Fresh(r, stored), \A s \in r.fresh : s \in Signals
  PROVE  Fresh(r, stored')
BY DEF Fresh, Grows

(* A step of slot w that stores nothing.                                   *)
LEMMA SlotStep ==
  ASSUME CountsInv, [Next]_vars, TypeInv', Extends(items'), UNCHANGED stored,
         NEW w \in Workers, NEW r, Becomes(w, r), Fresh(r, stored),
         \A i \in DOMAIN items :
           /\ Struck({"outage", "crash"})'
              \/ items'[i].count + Weight(r, i) >= items[i].count + Weight(run[w], i)
           /\ Struck({"lost_count"})'
              \/ items'[i].count + Weight(r, i) <= items[i].count + Weight(run[w], i),
         \A i \in DOMAIN items' \ DOMAIN items : items'[i].count = 0 /\ Weight(r, i) = 0
  PROVE  CountsNext
<1>1. TypeInv /\ run \in [Workers -> Locals(Len(items))]
  BY Unfold DEF CountsInv
<1>2. \A q \in Workers : run'[q] = IF q = w THEN r ELSE run[q]
  BY <1>1 DEF Becomes
<1>3. \A q \in Workers : Fresh(run'[q], stored')
  BY <1>2 DEF CountsInv
<1>4. ASSUME NEW i \in DOMAIN items PROVE Bounded(i)'
  <2>1. /\ Pending(i) \in Nat /\ Pending(i)' \in Nat
        /\ Pending(i)' = Pending(i) + Weight(r, i) - Weight(run[w], i)
    BY <1>1, <1>2, PendingMoves
  <2>2. Weight(run[w], i) \in Nat /\ Weight(r, i) \in Nat
    <3>1. r \in Locals(Len(items')) /\ Len(items') \in Nat
      <4>1. (TypeInv => LocalStates)'
        BY TypedStates, PTL
      <4> QED
        BY <1>2, <4>1 DEF LocalStates
    <3> QED
      BY <1>1, <3>1, Unfold, WeightFacts DEF Legal
  <2>3. items[i].count \in Nat /\ items'[i].count \in Nat
    <3>1. items \in Seq(Row) /\ items' \in Seq(Row) /\ i \in DOMAIN items'
      BY <1>1, Unfold DEF Extends
    <3> QED
      BY <3>1, RowNumbers
  <2>4. Total(i) = items[i].count + Pending(i) /\ Total(i)' = items'[i].count + Pending(i)'
    BY DEF Total
  <2>5. /\ Struck({"outage", "crash"})' \/ Total(i)' >= Total(i)
        /\ Struck({"lost_count"})' \/ Total(i)' <= Total(i)
    BY <2>1, <2>2, <2>3, <2>4
  <2> QED
    BY <2>1, <2>5, BoundedKept
<1>5. ASSUME NEW i \in DOMAIN items' \ DOMAIN items PROVE Bounded(i)'
  <2>1. \A q \in Workers : q # w => Weight(run[q], i) = 0
    BY <1>1, Unfold, WeightFacts DEF Legal
  <2> QED
    BY <1>2, <2>1, NewBounded
<1> QED
  BY <1>3, <1>4, <1>5 DEF CountsNext

(* A step of no slot, or one that leaves its slot where it is. *)
LEMMA StillStep ==
  ASSUME CountsInv, [Next]_vars, Extends(items'), UNCHANGED <<stored, run>>,
         \A i \in DOMAIN items :
           /\ items'[i].count >= items[i].count
           /\ Struck({"lost_count"})' \/ items'[i].count = items[i].count,
         \A i \in DOMAIN items' \ DOMAIN items : items'[i].count = 0
  PROVE  CountsNext
<1>1. TypeInv
  BY DEF CountsInv
<1>2. \A q \in Workers : Fresh(run'[q], stored')
  BY DEF CountsInv
<1>3. ASSUME NEW i \in DOMAIN items PROVE Bounded(i)'
  <2>1. Pending(i) \in Nat /\ Pending(i)' = Pending(i)
    BY <1>1, PendingStays
  <2>2. items[i].count \in Nat /\ items'[i].count \in Nat
    <3>1. items \in Seq(Row) /\ items' \in Seq(Row) /\ i \in DOMAIN items'
      BY <1>1, Unfold DEF Extends
    <3> QED
      BY <3>1, RowNumbers
  <2>3. Total(i) = items[i].count + Pending(i) /\ Total(i)' = items'[i].count + Pending(i)'
    BY DEF Total
  <2>4. /\ Total(i)' >= Total(i)
        /\ Struck({"lost_count"})' \/ Total(i)' <= Total(i)
    BY <2>1, <2>2, <2>3
  <2> QED
    BY <2>1, <2>4, BoundedKept
<1>4. ASSUME NEW i \in DOMAIN items' \ DOMAIN items PROVE Bounded(i)'
  <2>1. \A q \in Workers : Weight(run'[q], i) = 0
    BY <1>1, Unfold, WeightFacts DEF Legal
  <2> QED
    BY <2>1, NewBounded
<1> QED
  BY <1>2, <1>3, <1>4 DEF CountsNext

(* The counts of the rows there were, and of a new one. *)
SameCounts == /\ Extends(items')
              /\ \A i \in DOMAIN items : items'[i].count = items[i].count
              /\ \A i \in DOMAIN items' \ DOMAIN items : items'[i].count = 0

LEMMA SameCountsSame == ASSUME TypeInv, UNCHANGED items PROVE SameCounts
BY SameTable DEF SameCounts

LEMMA SameCountsAppend ==
  ASSUME TypeInv, NEW w \in Workers, run[w].pc \in Resolving,
         items' = Append(items, NewRow(w))
  PROVE  SameCounts
<1>1. /\ items \in Seq(Row) /\ NewRow(w) \in Row /\ DOMAIN items = 1..Len(items)
      /\ Len(items) \in Nat /\ Extends(items')
  BY Unfold, RowExtends
<1>2. NewRow(w).count = 0
  BY DEF NewRow
<1> HIDE DEF NewRow
<1>3. /\ DOMAIN items' = 1..(Len(items) + 1)
      /\ \A i \in DOMAIN items : items'[i] = items[i]
      /\ items'[Len(items) + 1] = NewRow(w)
  BY <1>1
<1> QED
  BY <1>1, <1>2, <1>3 DEF SameCounts

(* A slot goes on without fresh signals: it resolves, is done or gives up. *)
LEMMA EmptyHanded ==
  ASSUME CountsInv, [Next]_vars, TypeInv', Extends(items'), UNCHANGED stored,
         NEW w \in Workers, NEW r, Becomes(w, r), r.fresh = {},
         \A i \in DOMAIN items :
           /\ Struck({"outage", "crash"})'
              \/ items'[i].count >= items[i].count + Weight(run[w], i)
           /\ Struck({"lost_count"})'
              \/ items'[i].count <= items[i].count + Weight(run[w], i),
         \A i \in DOMAIN items' \ DOMAIN items : items'[i].count = 0
  PROVE  CountsNext
<1>1. r \in Locals(Len(items')) /\ Len(items') \in Nat
  <2>1. (TypeInv => LocalStates)'
    BY TypedStates, PTL
  <2>2. run'[w] = r
    BY Unfold DEF Becomes, CountsInv
  <2> QED
    BY <2>1, <2>2 DEF LocalStates
<1>2. \A i : Weight(r, i) = 0
  BY <1>1, WeightFacts
<1>3. Fresh(r, stored)
  BY DEF Fresh
<1>4. \A i \in DOMAIN items : items'[i].count \in Nat
  <2>1. items' \in Seq(Row) /\ \A i \in DOMAIN items : i \in DOMAIN items'
    BY Unfold DEF Extends, CountsInv
  <2> QED
    BY <2>1, RowNumbers
<1>5. \A i \in DOMAIN items : items'[i].count + Weight(r, i) = items'[i].count
  BY <1>2, <1>4
<1> QED
  BY <1>2, <1>3, <1>5, SlotStep

(* A run that resolves, or takes a job, has nothing fresh before and after. *)
(* Slot w goes to a local state with nothing fresh. *)
Emptied(w) == \E r : Becomes(w, r) /\ r.fresh = {}

LEMMA ResolvesEmpty ==
  ASSUME CountsInv, NEW w \in Workers, Resolve(w)
  PROVE  run[w].pc \in Resolving /\ Emptied(w)
<1>1. run[w] \in Locals(Len(items)) /\ Fresh(run[w], stored)
  BY Unfold DEF CountsInv, Legal
<1>2. run[w].pc \in Resolving
  BY DEF Resolve, ReadSession, TryLock, PollHits, PollGivesUp, Find, Create,
         CreateConflicts, Refind, Seed, At, Resolving
<1>3. run[w].fresh = {}
  BY <1>1, <1>2 DEF Fresh
<1>4. Idle.fresh = {}
  BY DEF Idle
<1>5. ASSUME NEW r, Becomes(w, r), r.fresh = {} PROVE Emptied(w)
  BY <1>5 DEF Emptied
<1>6. ASSUME NEW i, Link(w, i) PROVE Emptied(w)
  <2>1. Becomes(w, AfterLink(w, i))
    BY <1>6 DEF Link, AfterLink
  <2>2. AfterLink(w, i).fresh = {}
    BY <1>1, <1>3 DEF AfterLink, Locals
  <2> QED
    BY <1>5, <2>1, <2>2
<1>7. ASSUME NEW place, Goto(w, place) PROVE Emptied(w)
  <2> DEFINE r == [run[w] EXCEPT !.pc = place]
  <2>1. Becomes(w, r) /\ r.fresh = {}
    BY <1>1, <1>3, <1>7 DEF Goto, Locals
  <2> HIDE DEF r
  <2> QED
    BY <1>5, <2>1
<1>8. ASSUME Finds(w) PROVE Emptied(w)
  <2>1. PICK i \in Active(Subject(w)) :
          Becomes(w, [run[w] EXCEPT !.pc = "seed", !.found = i])
    BY <1>8, Zenon DEF Finds
  <2> DEFINE r == [run[w] EXCEPT !.pc = "seed", !.found = i]
  <2>2. r.fresh = run[w].fresh
    BY <1>1 DEF Locals
  <2>3. Becomes(w, r)
    BY <2>1
  <2> HIDE DEF r
  <2> QED
    BY <1>3, <1>5, <2>2, <2>3
<1>9. ASSUME TryLock(w) PROVE Emptied(w)
  <2> DEFINE r == [run[w] EXCEPT !.pc = "find", !.locked = TRUE]
  <2>1. Goto(w, "poll") \/ Becomes(w, r)
    BY <1>9 DEF TryLock
  <2>2. r.fresh = run[w].fresh
    BY <1>1 DEF Locals
  <2> HIDE DEF r
  <2>3. Becomes(w, r) => Emptied(w)
    BY <1>3, <1>5, <2>2
  <2> QED
    BY <1>7, <2>1, <2>3
<1>10. ASSUME Create(w) PROVE Emptied(w)
  <2>1. Becomes(w, Made(w))
    BY <1>10 DEF Create, Made
  <2>2. Made(w).fresh = run[w].fresh
    BY <1>1 DEF Made, Locals
  <2> QED
    BY <1>3, <1>5, <2>1, <2>2
<1>11. ASSUME \/ ReadSession(w) \/ PollHits(w) \/ PollGivesUp(w) \/ Find(w)
              \/ CreateConflicts(w) \/ Refind(w) \/ Seed(w)
       PROVE  Emptied(w)
  <2>1. \/ \E i : Link(w, i)
        \/ Goto(w, "lock") \/ Goto(w, "find") \/ Goto(w, "create") \/ Goto(w, "refind")
        \/ Finds(w) \/ Becomes(w, Idle)
    BY <1>11 DEF ReadSession, PollHits, PollGivesUp, Find, CreateConflicts, Refind, Seed,
                 AttemptFails
  <2> QED
    BY <1>4, <1>6, <1>7, <1>8, <1>5, <2>1
<1> QED
  BY <1>2, <1>9, <1>10, <1>11 DEF Resolve

LEMMA TakesEmpty ==
  ASSUME NEW w \in Workers, NEW j \in Jobs, Take(w, j)
  PROVE  run[w].pc = "idle" /\ Emptied(w) /\ UNCHANGED stores
<1> DEFINE r == [Idle EXCEPT !.pc = "session", !.job = j]
<1>1. run[w].pc = "idle" /\ Becomes(w, r) /\ UNCHANGED stores
  BY DEF Take, At
<1>2. r.fresh = {}
  BY DEF Idle
<1> HIDE DEF r
<1> QED
  BY <1>1, <1>2 DEF Emptied

LEMMA ResolveCounts ==
  ASSUME CountsInv, [Next]_vars, TypeInv', NEW w \in Workers,
         Resolve(w) \/ \E j \in Jobs : Take(w, j)
  PROVE  CountsNext
<1>0. run[w].pc \in Resolving \cup {"idle"} /\ Emptied(w)
  BY ResolvesEmpty, TakesEmpty
<1>1. PICK r : Becomes(w, r) /\ r.fresh = {}
  BY <1>0 DEF Emptied
<1>2. SameCounts /\ UNCHANGED stored
  <2>1. ASSUME NEW j \in Jobs, Take(w, j) PROVE UNCHANGED stores
    BY <2>1, TakesEmpty
  <2>2. ASSUME Resolve(w), ~ Create(w) PROVE UNCHANGED stores
    BY <2>2 DEF Resolve, ReadSession, TryLock, PollHits, PollGivesUp, Find,
                CreateConflicts, Refind, Seed
  <2>3. UNCHANGED stores \/ Create(w)
    BY <2>1, <2>2
  <2>4. CASE Create(w)
    <3>1. run[w].pc \in Resolving /\ items' = Append(items, NewRow(w)) /\ UNCHANGED stored
      BY <2>4 DEF Create, At, Resolving
    <3> QED
      BY <3>1, SameCountsAppend DEF CountsInv
  <2>5. CASE UNCHANGED stores
    BY <2>5, SameCountsSame DEF CountsInv, stores
  <2> QED
    BY <2>3, <2>4, <2>5
<1>3. \A i : Weight(run[w], i) = 0
  BY <1>0 DEF Weight, Resolving
<1>4. \A i \in DOMAIN items : items[i].count \in Nat
  BY Unfold, RowNumbers DEF CountsInv
<1>5. \A i \in DOMAIN items : items'[i].count = items[i].count + Weight(run[w], i)
                              /\ items'[i].count \in Nat
  BY <1>2, <1>3, <1>4 DEF SameCounts
<1>6. \A i \in DOMAIN items : /\ items'[i].count >= items[i].count + Weight(run[w], i)
                              /\ items'[i].count <= items[i].count + Weight(run[w], i)
  BY <1>3, <1>4, <1>5
<1> QED
  BY <1>1, <1>2, <1>6, EmptyHanded DEF SameCounts

(* What an increment adds to the rows. *)
LEMMA CountedRows ==
  ASSUME TypeInv, NEW w \in Workers, NEW these \in SUBSET Touched(w), Counted(w, these)
  PROVE  /\ Extends(items') /\ DOMAIN items' = DOMAIN items
         /\ \A i \in DOMAIN items :
              /\ Increment(w, i) \in Nat /\ items[i].count \in Nat
              /\ items'[i].count = items[i].count + IF i \in these THEN Increment(w, i) ELSE 0
<1>1. \A i \in DOMAIN items : Increment(w, i) \in Nat /\ items[i].count \in Nat
  BY Unfold, RowNumbers, IncrementType
<1> QED
  BY <1>1, CountedExtends, SameLength

(* The steps of a run that persists, but for the insert itself. *)
LEMMA PersistCounts ==
  ASSUME CountsInv, [Next]_vars, TypeInv', NEW w \in Workers,
         InsertReturns(w) \/ Count(w) \/ Announce(w)
  PROVE  CountsNext
<1>0. TypeInv /\ run[w] \in Locals(Len(items)) /\ Fresh(run[w], stored) /\ UNCHANGED stored
  BY Unfold DEF CountsInv, Legal, InsertReturns, Count, Announce, stores
<1>1. ASSUME NEW place \in Persisting, Goto(w, place), Extends(items'),
             DOMAIN items' = DOMAIN items,
             \A i \in DOMAIN items :
               items'[i].count
                 + (IF place \in {"insert", "count"} THEN Counts(run[w], i) ELSE 0)
               = items[i].count + Weight(run[w], i)
      PROVE  CountsNext
  <2> DEFINE r == [run[w] EXCEPT !.pc = place]
  <2>1. /\ r.pc = place /\ r.fresh = run[w].fresh
        /\ r.links = run[w].links /\ r.job = run[w].job
    BY <1>0 DEF Locals
  <2>2. Becomes(w, r)
    BY <1>1 DEF Goto
  <2> HIDE DEF r
  <2>3. Fresh(r, stored)
    BY <1>0, <1>1, <2>1 DEF Fresh, Persisting, Resolving
  <2>4. \A i : Weight(r, i) = IF place \in {"insert", "count"} THEN Counts(run[w], i) ELSE 0
    BY <2>1 DEF Weight, Counts
  <2>5. \A i \in DOMAIN items :
          /\ items'[i].count + Weight(r, i) = items[i].count + Weight(run[w], i)
          /\ items[i].count + Weight(run[w], i) \in Nat
    <3>1. \A i \in DOMAIN items : items[i].count \in Nat /\ Weight(run[w], i) \in Nat
      BY <1>0, Unfold, RowNumbers, WeightFacts
    <3> QED
      BY <1>1, <2>4, <3>1
  <2>6. \A i \in DOMAIN items :
          /\ items'[i].count + Weight(r, i) >= items[i].count + Weight(run[w], i)
          /\ items'[i].count + Weight(r, i) <= items[i].count + Weight(run[w], i)
    BY <2>5
  <2> QED
    BY <1>0, <1>1, <2>2, <2>3, <2>6, SlotStep
<1>2. CASE InsertReturns(w)
  <2>1. run[w].pc = "insert" /\ Goto(w, "count") /\ UNCHANGED items
    BY <1>2 DEF InsertReturns, At, stores
  <2>2. \A i : Weight(run[w], i) = Counts(run[w], i)
    BY <2>1 DEF Weight
  <2> QED
    BY <1>0, <1>1, <2>1, <2>2, SameTable DEF Persisting
<1>3. CASE Count(w)
  <2>1. run[w].pc = "count" /\ Goto(w, "announce") /\ Counted(w, Touched(w))
    BY <1>3 DEF Count, At
  <2>2. \A i : Weight(run[w], i) = Increment(w, i)
    BY <2>1 DEF Weight, Counts, Increment, BatchOf
  <2>3. /\ Extends(items') /\ DOMAIN items' = DOMAIN items
        /\ \A i \in DOMAIN items :
             /\ Increment(w, i) \in Nat /\ items[i].count \in Nat
             /\ items'[i].count
                  = items[i].count + IF i \in Touched(w) THEN Increment(w, i) ELSE 0
    BY <1>0, <2>1, CountedRows
  <2>4. ASSUME NEW i \in DOMAIN items
        PROVE  items'[i].count + 0 = items[i].count + Weight(run[w], i)
    <3>1. CASE i \in Touched(w)
      BY <2>2, <2>3, <3>1
    <3>2. CASE i \notin Touched(w)
      <4>1. Increment(w, i) = 0
        BY <2>3, <3>2 DEF Touched
      <4> QED
        BY <2>2, <2>3, <3>2, <4>1
    <3> QED
      BY <3>1, <3>2
  <2> QED
    BY <1>1, <2>1, <2>3, <2>4 DEF Persisting
<1>4. CASE Announce(w)
  <2>1. run[w].pc = "announce" /\ Goto(w, "finish")
    BY <1>4 DEF Announce, At
  <2>2. /\ Extends(items') /\ DOMAIN items' = DOMAIN items
        /\ \A i \in DOMAIN items : items'[i].count = items[i].count
    BY <1>0, <1>4, AnnounceExtends, SameLength
  <2>3. \A i : Weight(run[w], i) = 0
    BY <2>1 DEF Weight
  <2> QED
    BY <1>1, <2>1, <2>2, <2>3 DEF Persisting
<1> QED
  BY <1>2, <1>3, <1>4

(* The end of a run, as it should be or not. *)
LEMMA EndCounts ==
  ASSUME CountsInv, [Next]_vars, TypeInv', NEW w \in Workers,
         Finish(w) \/ Crash(w) \/ Throw(w) \/ CountFails(w)
  PROVE  CountsNext
<1>0. TypeInv /\ Becomes(w, Idle) /\ Idle.fresh = {} /\ UNCHANGED stored
  BY DEF CountsInv, Finish, Crash, Throw, CountFails, AttemptFails, Idle, stores
<1>1. ASSUME NEW i \in DOMAIN items
      PROVE  items[i].count \in Nat /\ Weight(run[w], i) \in Nat
  BY <1>0, Unfold, RowNumbers, WeightFacts DEF Legal
<1>2. CASE Finish(w)
  <2>1. run[w].pc = "finish" /\ UNCHANGED items
    BY <1>2 DEF Finish, At, stores
  <2>2. SameCounts
    BY <1>0, <2>1, SameCountsSame
  <2>3. \A i \in DOMAIN items : Weight(run[w], i) = 0
    BY <2>1 DEF Weight
  <2>4. \A i \in DOMAIN items : /\ items'[i].count >= items[i].count + Weight(run[w], i)
                                /\ items'[i].count <= items[i].count + Weight(run[w], i)
    BY <1>1, <2>2, <2>3 DEF SameCounts
  <2> QED
    BY <1>0, <2>2, <2>4, EmptyHanded DEF SameCounts
<1>3. CASE Crash(w) \/ Throw(w)
  <2>1. UNCHANGED items /\ (Mishap("crash") \/ Mishap("outage"))
    BY <1>3 DEF Crash, Throw, stores
  <2>2. SameCounts /\ Struck({"outage", "crash"})'
    BY <1>0, <2>1, SameCountsSame, MishapStrikes
  <2>3. \A i \in DOMAIN items : items'[i].count <= items[i].count + Weight(run[w], i)
    BY <1>1, <2>2 DEF SameCounts
  <2> QED
    BY <1>0, <2>2, <2>3, EmptyHanded DEF SameCounts
<1>4. CASE CountFails(w)
  <2>1. /\ run[w].pc = "count" /\ Mishap("outage")
        /\ \E these \in SUBSET Touched(w) : Counted(w, these)
    BY <1>4 DEF CountFails, At
  <2>2. PICK these \in SUBSET Touched(w) : Counted(w, these)
    BY <2>1
  <2>3. Struck({"outage", "crash"})'
    BY <1>0, <2>1, MishapStrikes
  <2>4. \A i \in DOMAIN items : Weight(run[w], i) = Increment(w, i)
    BY <2>1 DEF Weight, Counts, Increment, BatchOf
  <2>5. /\ Extends(items') /\ DOMAIN items' = DOMAIN items
        /\ \A i \in DOMAIN items :
             /\ Increment(w, i) \in Nat /\ items[i].count \in Nat
             /\ items'[i].count = items[i].count + IF i \in these THEN Increment(w, i) ELSE 0
    BY <1>0, <2>2, CountedRows
  <2>6. \A i \in DOMAIN items : items'[i].count <= items[i].count + Weight(run[w], i)
    BY <2>4, <2>5
  <2> QED
    BY <1>0, <2>3, <2>5, <2>6, EmptyHanded
<1> QED
  BY <1>2, <1>3, <1>4

(* A run stores one more signal: the document is linked to the row that    *)
(* the run counts it into.                                                 *)
LEMMA InsertCounts ==
  ASSUME CountsInv, [Next]_vars, TypeInv', NEW w \in Workers, Insert(w)
  PROVE  CountsNext
<1>1. PICK k \in DOMAIN BatchOf(w) :
        /\ stored[BatchOf(w)[k]] = None
        /\ stored' = [stored EXCEPT ![BatchOf(w)[k]] = run[w].links[k]]
        /\ Becomes(w, [run[w] EXCEPT !.fresh = @ \cup {BatchOf(w)[k]}])
  BY DEF Insert
<1> DEFINE s == BatchOf(w)[k]
<1> DEFINE n == run[w].links[k]
<1> DEFINE r == [run[w] EXCEPT !.fresh = @ \cup {s}]
<1>2. /\ TypeInv /\ run[w].pc = "insert" /\ UNCHANGED items /\ Extends(items')
      /\ run \in [Workers -> Locals(Len(items))] /\ Len(items) \in Nat
      /\ DOMAIN items = 1..Len(items)
  BY Unfold, SameTable DEF CountsInv, Insert, At
<1>3. /\ run[w].job \in Jobs /\ Len(run[w].links) = Len(BatchOf(w))
      /\ run[w].links \in Seq(1..Len(items))
  BY <1>2, UnderWay, Unfold DEF Legal, Shaped, Locals, Persisting, BatchOf
<1>4. s \in Signals /\ k \in DOMAIN run[w].links
  BY <1>3, BatchFacts DEF BatchOf
<1>5. n \in 1..Len(items) /\ n # None
  <2>1. n \in 1..Len(items)
    BY <1>3, <1>4
  <2> QED
    BY <2>1 DEF None
<1>6. /\ r.pc = "insert" /\ r.links = run[w].links /\ r.job = run[w].job
      /\ r.fresh = run[w].fresh \cup {s}
  BY <1>2 DEF Locals
<1>7. stored[s] = None /\ stored' = [stored EXCEPT ![s] = n] /\ Becomes(w, r)
  BY <1>1
<1>8. run[w].fresh \subseteq Signals /\ Fresh(run[w], stored)
  BY <1>2 DEF Locals, CountsInv
<1>9. s \notin run[w].fresh
  BY <1>7, <1>8 DEF Fresh
<1>10. stored \in [Signals -> DOMAIN items \cup {None}]
  BY <1>2 DEF TypeInv, TypeOK
<1>11. DistinctBatches => \A l \in DOMAIN run[w].links : BatchOf(w)[l] = s => l = k
  <2>1. DOMAIN run[w].links = DOMAIN Batch[run[w].job]
    BY <1>3, BatchFacts DEF BatchOf
  <2> QED
    BY <1>3, <1>4, <2>1 DEF DistinctBatches, BatchOf
<1> HIDE DEF s, n, r
<1>12. \A q \in Workers : run'[q] = IF q = w THEN r ELSE run[q]
  BY <1>2, <1>7 DEF Becomes
<1>13. \A q \in Workers : Fresh(run'[q], stored')
  <2>1. \A t \in Signals : stored[t] # None => stored'[t] # None
    BY <1>5, <1>7, <1>10
  <2>2. stored'[s] # None
    BY <1>4, <1>5, <1>7, <1>10
  <2>3. ASSUME NEW q \in Workers PROVE Fresh(run[q], stored')
    <3>1. run[q].fresh \subseteq Signals /\ Fresh(run[q], stored)
      BY <1>2 DEF Locals, CountsInv
    <3> QED
      BY <2>1, <3>1 DEF Fresh
  <2>4. Fresh(r, stored')
    BY <1>6, <2>2, <2>3 DEF Fresh, Resolving
  <2> QED
    BY <1>12, <2>3, <2>4
<1>14. ASSUME NEW i \in DOMAIN items PROVE Bounded(i)'
  <2> DEFINE S == {l \in DOMAIN run[w].links :
                     run[w].links[l] = i /\ BatchOf(w)[l] \in run[w].fresh}
  <2> DEFINE D == {l \in DOMAIN run[w].links : run[w].links[l] = i /\ BatchOf(w)[l] = s}
  <2>1. IsFiniteSet(S) /\ IsFiniteSet(D)
    <3>1. IsFiniteSet(DOMAIN run[w].links)
      BY <1>2, WeightFacts
    <3> QED
      BY <3>1, FS_Subset
  <2>2. S \cap D = {}
    BY <1>9
  <2>3. Weight(run[w], i) = Cardinality(S)
    BY <1>2 DEF Weight, Counts, BatchOf
  <2>4. Weight(r, i) = Cardinality(S \cup D)
    <3>1. Counts(r, i) = Cardinality({l \in DOMAIN run[w].links :
                           run[w].links[l] = i /\ BatchOf(w)[l] \in run[w].fresh \cup {s}})
      BY <1>6 DEF Counts, BatchOf
    <3>2. {l \in DOMAIN run[w].links :
             run[w].links[l] = i /\ BatchOf(w)[l] \in run[w].fresh \cup {s}} = S \cup D
      OBVIOUS
    <3> QED
      BY <1>6, <3>1, <3>2 DEF Weight
  <2>5. i = n => k \in D
    BY <1>4 DEF s, n
  <2>6. DistinctBatches => D = IF i = n THEN {k} ELSE {}
    BY <1>4, <1>11, <2>5 DEF n
  <2> HIDE DEF S, D
  <2>7. Weight(r, i) = Weight(run[w], i) + Cardinality(D)
    BY <2>1, <2>2, <2>3, <2>4, DisjointUnion
  <2>8. Cardinality(D) \in Nat /\ (i = n => Cardinality(D) >= 1)
    BY <2>1, <2>5, FS_CardinalityType, FS_EmptySet
  <2>9. DistinctBatches => Cardinality(D) = IF i = n THEN 1 ELSE 0
    BY <2>6, FS_EmptySet, FS_Singleton
  <2>10. Pending(i) \in Nat /\ Pending(i)' = Pending(i) + Cardinality(D)
    <3>1. Pending(i) \in Nat /\ Pending(i)' = Pending(i) + Weight(r, i) - Weight(run[w], i)
      BY <1>2, <1>12, PendingMoves
    <3>2. Weight(run[w], i) \in Nat
      BY <1>2, WeightFacts
    <3> QED
      BY <2>7, <2>8, <3>1, <3>2
  <2>11. items[i].count \in Nat
    BY <1>2, Unfold, RowNumbers
  <2>12. Total(i) \in Nat /\ Total(i)' = Total(i) + Cardinality(D)
    BY <1>2, <2>8, <2>10, <2>11 DEF Total
  <2>13. Bounded(i)
    BY DEF CountsInv
  <2>14. i # None
    BY <1>2 DEF None
  <2>15. Linked(i)' = IF i = n THEN Linked(i) \cup {s} ELSE Linked(i)
    BY <1>4, <1>7, <1>10, <2>14 DEF Linked
  <2>16. s \notin Linked(i)
    BY <1>7, <2>14 DEF Linked
  <2>17. IsFiniteSet(Linked(i)) /\ Cardinality(Linked(i)) \in Nat
    BY <2>13, FS_CardinalityType DEF Bounded
  <2>18. /\ IsFiniteSet(Linked(i)')
         /\ Cardinality(Linked(i)') = Cardinality(Linked(i)) + IF i = n THEN 1 ELSE 0
    <3>1. /\ IsFiniteSet(Linked(i) \cup {s})
          /\ Cardinality(Linked(i) \cup {s}) = Cardinality(Linked(i)) + 1
      BY <2>16, <2>17, FS_AddElement
    <3> QED
      BY <2>15, <2>17, <3>1
  <2>19. /\ Struck({"outage", "crash"}) => Struck({"outage", "crash"})'
         /\ Struck({"lost_count"}) => Struck({"lost_count"})'
    BY <1>2, StrikesStay
  <2>20. Struck({"outage", "crash"})' \/ Total(i)' >= Cardinality(Linked(i)')
    BY <2>8, <2>12, <2>13, <2>17, <2>18, <2>19 DEF Bounded
  <2>21. DistinctBatches => Struck({"lost_count"})' \/ Total(i)' <= Cardinality(Linked(i)')
    BY <2>9, <2>12, <2>13, <2>17, <2>18, <2>19 DEF Bounded
  <2> QED
    BY <2>18, <2>20, <2>21 DEF Bounded
<1> QED
  BY <1>2, <1>13, <1>14 DEF CountsNext

(* The steps that move no run. *)
LEMMA StillCounts ==
  ASSUME CountsInv, [Next]_vars,
         \/ \E w \in Workers : CreateUnacknowledged(w) \/ CountUnacknowledged(w)
         \/ ~ \E w \in Workers : Progress(w) \/ Failure(w)
  PROVE  CountsNext
<1>0. TypeInv /\ \A i \in DOMAIN items : items[i].count \in Nat
  BY Unfold, RowNumbers DEF CountsInv
<1>1. ASSUME SameCounts, UNCHANGED stored, UNCHANGED run PROVE CountsNext
  BY <1>0, <1>1, StillStep DEF SameCounts
<1>2. ASSUME NEW w \in Workers, CreateUnacknowledged(w) PROVE CountsNext
  <2>1. /\ run[w].pc \in Resolving /\ items' = Append(items, NewRow(w))
        /\ UNCHANGED stored /\ UNCHANGED run
    BY <1>2 DEF CreateUnacknowledged, At, Resolving
  <2> QED
    BY <1>0, <1>1, <2>1, SameCountsAppend
<1>3. ASSUME NEW w \in Workers, CountUnacknowledged(w) PROVE CountsNext
  <2>1. PICK i \in Touched(w) : Counted(w, {i})
    BY <1>3 DEF CountUnacknowledged
  <2>2. UNCHANGED <<stored, run>> /\ Mishap("lost_count")
    BY <1>3 DEF CountUnacknowledged
  <2>3. Struck({"lost_count"})'
    BY <1>0, <2>2, MishapStrikes
  <2>4. /\ Extends(items') /\ DOMAIN items' = DOMAIN items
        /\ \A x \in DOMAIN items :
             /\ Increment(w, x) \in Nat /\ items[x].count \in Nat
             /\ items'[x].count = items[x].count + IF x \in {i} THEN Increment(w, x) ELSE 0
    BY <1>0, <2>1, CountedRows
  <2>5. \A x \in DOMAIN items : items'[x].count >= items[x].count
    BY <2>4
  <2> QED
    BY <2>2, <2>3, <2>4, <2>5, StillStep
<1>4. ASSUME NEW i \in DOMAIN items, CloseItem(i) PROVE CountsNext
  <2>1. UNCHANGED stored /\ UNCHANGED run /\ SameCounts
    BY <1>0, <1>4, CloseExtends, SameLength DEF CloseItem, SameCounts
  <2> QED
    BY <1>1, <2>1
<1>5. ASSUME UNCHANGED <<items, stored, run>> PROVE CountsNext
  BY <1>0, <1>1, <1>5, SameCountsSame
<1>6. ASSUME NEW j \in Jobs, \/ Stall(j) \/ Requeue(j) \/ FailStalledOut(j)
                             \/ DeadLetter(j) \/ DeadLetterLost(j)
      PROVE  CountsNext
  BY <1>5, <1>6 DEF Stall, Requeue, FailStalledOut, DeadLetter, DeadLetterLost, stores
<1>7. ASSUME NEW c \in Components, SessionLapses(c) \/ LockLapses(c) PROVE CountsNext
  BY <1>5, <1>7 DEF SessionLapses, LockLapses, stores
<1>8. CASE UNCHANGED vars
  BY <1>5, <1>8 DEF vars
<1> QED
  BY <1>2, <1>3, <1>4, <1>6, <1>7, <1>8 DEF Next

LEMMA NextCounts == CountsInv /\ [Next]_vars => CountsInv'
<1> SUFFICES ASSUME CountsInv, [Next]_vars PROVE CountsInv'
  OBVIOUS
<1>1. TypeInv'
  BY NextType DEF CountsInv
<1>2. CountsNext
  <2>1. ASSUME NEW w \in Workers, Progress(w) PROVE CountsNext
    BY <1>1, <2>1, ResolveCounts, InsertCounts, PersistCounts, EndCounts DEF Progress
  <2>2. ASSUME NEW w \in Workers, Failure(w) PROVE CountsNext
    BY <1>1, <2>2, EndCounts, StillCounts DEF Failure
  <2> QED
    BY <2>1, <2>2, StillCounts
<1> QED
  BY <1>1, <1>2 DEF CountsInv, CountsNext

LEMMA InitCounts == Init => CountsInv
<1> SUFFICES ASSUME Init PROVE CountsInv
  OBVIOUS
<1>1. TypeInv /\ DOMAIN items = {} /\ \A w \in Workers : run[w] = Idle
  BY InitType DEF Init
<1>2. Fresh(Idle, stored)
  BY DEF Fresh, Idle
<1> QED
  BY <1>1, <1>2 DEF CountsInv

(* The first half of CountsArePersisted.                                   *)
NoneLeftOut == \A i \in DOMAIN items :
                 Struck({"outage", "crash"}) \/ Total(i) >= Cardinality(Linked(i))

(* However a job is retried, stalled or run twice at once: unless a crash  *)
(* or an outage ended an attempt, no document is left out of its work      *)
(* item's count, whatever the batches.                                     *)
THEOREM NoDocumentLeftOut == Spec => []NoneLeftOut
<1>1. CountsInv => NoneLeftOut
  BY DEF CountsInv, Bounded, NoneLeftOut
<1> QED
  BY <1>1, InitCounts, NextCounts, PTL DEF Spec

(* Where no batch has the same signal twice, signal_count and MongoDB      *)
(* agree up to what the runs under way will add, but for what a crash or   *)
(* an outage left out and a lost acknowledgement counted twice.            *)
THEOREM CountsMatchDocuments == Spec => [](DistinctBatches => CountsArePersisted)
<1>1. CountsInv => (DistinctBatches => CountsArePersisted)
  BY DEF CountsInv, Bounded, Total, CountsArePersisted
<1> QED
  BY <1>1, InitCounts, NextCounts, PTL DEF Spec

=============================================================================
