--------------------------- MODULE DashboardProofs ---------------------------
(***************************************************************************)
(* The dashboard for any number of work items, mutations and readers, any  *)
(* bound on changes and failures, and whatever may fail: the list shows    *)
(* what the Live Feed promises, and the cache agrees with the tables, and  *)
(* events with the cache, for as long as no cache write was lost or raced. *)
(***************************************************************************)
EXTENDS DashboardCache, SequenceTheorems, TLAPS

-----------------------------------------------------------------------------
(* States, their order and the commands of a cache write.                  *)

LEMMA Ranks ==
  ASSUME NEW s \in State \cup {Absent}
  PROVE  /\ Rank(s) \in 0..4 /\ (s = Absent <=> Rank(s) = 0)
         /\ Cached(s) \in Summaries
         /\ Rank(Cached(s)) <= Rank(s)
         /\ Cached(s) = Absent <=> s \in {Absent, "CLOSED"}
         /\ Cached(s) # Absent => Cached(s) = s
<1>1. s \in {Absent, "OPEN", "INVESTIGATING", "RESOLVED", "CLOSED"}
  BY DEF State
<1> QED
  BY <1>1 DEF Rank, Cached, Summaries, State, Absent

LEMMA SummariesAreStates == Summaries \subseteq State \cup {Absent}
  BY DEF Summaries

LEMMA UpsertPair ==
  ASSUME NEW i \in Items, NEW s \in State \cup {Absent}
  PROVE  /\ Upsert(i, s) \in Seq(Command)
         /\ Len(Upsert(i, s)) = 2
         /\ DOMAIN Upsert(i, s) = 1..2
         /\ Upsert(i, s)[1] = [key |-> "summary", item |-> i, value |-> Cached(s)]
         /\ Upsert(i, s)[2] = [key |-> "active",  item |-> i, value |-> Cached(s)]
         /\ \A n \in 1..2 :
              Upsert(i, s)[n].item = i /\ Upsert(i, s)[n].value = Cached(s)
<1>1. Cached(s) \in Summaries
  BY Ranks
<1>2. /\ [key |-> "summary", item |-> i, value |-> Cached(s)] \in Command
      /\ [key |-> "active",  item |-> i, value |-> Cached(s)] \in Command
  BY <1>1 DEF Command
<1>3. DOMAIN Upsert(i, s) = 1..2
  BY DEF Upsert
<1>4. ASSUME NEW n \in 1..2
      PROVE  Upsert(i, s)[n].item = i /\ Upsert(i, s)[n].value = Cached(s)
  <2>1. n = 1 \/ n = 2
    OBVIOUS
  <2> QED
    BY <2>1 DEF Upsert
<1> QED
  BY <1>2, <1>3, <1>4 DEF Upsert

LEMMA Shapes ==
  /\ AtRest \in WriterState /\ AtRest.at = "idle" /\ AtRest.item \in Items
  /\ Idle \in ReaderState /\ Idle.at = "idle" /\ Idle.found = Nowhere
  /\ Idle.need = {} /\ Idle.miss = {}
  /\ Nowhere \in Rows
<1>1. (CHOOSE i \in Items : TRUE) \in Items
  BY CacheAssumption
<1>2. Nowhere \in Rows
  BY DEF Nowhere, Rows
<1> QED
  BY <1>1, <1>2 DEF AtRest, WriterState, State, Idle, ReaderState

LEMMA SnapshotOfRows ==
  ASSUME row \in Rows
  PROVE  /\ Snapshot \in Rows
         /\ Snapshot \in [Items -> Summaries]
         /\ \A i \in Items : Snapshot[i] = Cached(row[i]) /\ Rank(Snapshot[i]) <= Rank(row[i])
         /\ \A i \in Items : Active(i) <=> Cached(row[i]) # Absent
<1>1. ASSUME NEW i \in Items
      PROVE  /\ Snapshot[i] = Cached(row[i])
             /\ row[i] \in State \cup {Absent}
             /\ Active(i) <=> Cached(row[i]) # Absent
  <2>1. row[i] \in State \cup {Absent}
    BY DEF Rows
  <2>2. Snapshot[i] = IF Active(i) THEN row[i] ELSE Absent
    BY DEF Snapshot
  <2> QED
    BY <2>1, <2>2, Ranks DEF Active, State, Absent
<1>2. \A i \in Items : Cached(row[i]) \in Summaries /\ Rank(Cached(row[i])) <= Rank(row[i])
  BY <1>1, Ranks
<1>3. Snapshot \in [Items -> Summaries]
  BY <1>1, <1>2 DEF Snapshot
<1>4. Snapshot \in Rows
  BY <1>3, SummariesAreStates DEF Rows
<1> QED
  BY <1>1, <1>2, <1>3, <1>4

-----------------------------------------------------------------------------
(* Type correctness.                                                       *)

(* What a connection is sent, or what Redis took off it, are commands. *)
LEMMA Sending ==
  ASSUME TypeOK, NEW a \in Actors
  PROVE  /\ \A i \in Items, s \in State \cup {Absent} :
              [sent EXCEPT ![a] = Upsert(i, s)] \in [Actors -> Seq(Command)]
         /\ [sent EXCEPT ![a] = <<>>] \in [Actors -> Seq(Command)]
         /\ sent[a] # <<>> => /\ [sent EXCEPT ![a] = Tail(@)] \in [Actors -> Seq(Command)]
                              /\ Head(sent[a]) \in Command
<1>1. sent \in [Actors -> Seq(Command)]
  BY DEF TypeOK
<1>2. \A i \in Items, s \in State \cup {Absent} : Upsert(i, s) \in Seq(Command)
  BY UpsertPair
<1>3. sent[a] # <<>> => Tail(sent[a]) \in Seq(Command) /\ Head(sent[a]) \in Command
  BY <1>1, HeadTailProperties
<1>4. <<>> \in Seq(Command)
  OBVIOUS
<1> QED
  BY <1>1, <1>2, <1>3, <1>4

(* A reader goes on with a legal state of its own. *)
LEMMA Reading ==
  ASSUME TypeOK, NEW q \in Readers
  PROVE  /\ reader[q] \in ReaderState
         /\ \A r \in ReaderState : [reader EXCEPT ![q] = r] \in [Readers -> ReaderState]
         /\ \A s \in State \cup {Absent}, i \in Items :
              [reader[q].found EXCEPT ![i] = s] \in Rows
         /\ reader[q].found \in Rows
<1>1. reader \in [Readers -> ReaderState]
  BY DEF TypeOK
<1>2. reader[q].found \in Rows
  BY <1>1 DEF ReaderState
<1> QED
  BY <1>1, <1>2 DEF Rows

LEMMA RedisTypes ==
  ASSUME TypeOK,
         \/ \E a \in Actors : Execute(a) \/ LoseCommand(a)
         \/ \E i \in Items : Expire(i)
         \/ Flush
  PROVE  TypeOK'
<1>1. ASSUME NEW a \in Actors, Execute(a) PROVE TypeOK'
  <2> DEFINE c == Head(sent[a])
  <2>1. c \in Command /\ sent' \in [Actors -> Seq(Command)]
    BY <1>1, Sending DEF Execute
  <2>2. c.item \in Items /\ c.value \in Summaries
    BY <2>1 DEF Command
  <2>3. /\ summary' \in [Items -> Summaries]
        /\ listed' \in SUBSET Items
        /\ raced' \in BOOLEAN
    <3>1. CASE c.key = "summary"
      BY <1>1, <2>2, <3>1 DEF Execute, TypeOK
    <3>2. CASE c.key # "summary"
      BY <1>1, <2>2, <3>2 DEF Execute, TypeOK
    <3> QED
      BY <3>1, <3>2
  <2> QED
    BY <1>1, <2>1, <2>3 DEF Execute, TypeOK
<1>2. ASSUME NEW a \in Actors, LoseCommand(a) PROVE TypeOK'
  BY <1>2, Sending DEF LoseCommand, Fault, TypeOK
<1>3. ASSUME NEW i \in Items, Expire(i) PROVE TypeOK'
  BY <1>3 DEF Expire, TypeOK, Summaries
<1>4. ASSUME Flush PROVE TypeOK'
  BY <1>4 DEF Flush, Fault, TypeOK, Nowhere, Summaries
<1> QED
  BY <1>1, <1>2, <1>3, <1>4

LEMMA WriterTypes ==
  ASSUME TypeOK, NEW w \in Writers,
         \/ \E i \in Items : Commit(w, i) \/ Count(w, i)
         \/ Written(w) \/ Publish(w) \/ PublishFails(w) \/ CrashWriter(w)
  PROVE  TypeOK'
<1>0. w \in Actors
  BY DEF Actors
<1>1. ASSUME NEW i \in Items, Commit(w, i) PROVE TypeOK'
  <2>1. PICK s \in State : Advance(i, s) /\ WriteThrough(w, i, s)
    BY <1>1 DEF Commit
  <2>2. row' \in Rows
    BY <2>1 DEF Advance, TypeOK, Rows
  <2>3. sent' \in [Actors -> Seq(Command)]
    BY <1>0, <2>1, Sending DEF WriteThrough
  <2>4. writer' \in [Writers -> WriterState]
    BY <2>1 DEF WriteThrough, TypeOK, WriterState
  <2> QED
    BY <1>1, <2>2, <2>3, <2>4 DEF Commit, TypeOK
<1>2. ASSUME NEW i \in Items, Count(w, i) PROVE TypeOK'
  <2>1. row[i] \in State \cup {Absent}
    BY DEF TypeOK, Rows
  <2>2. sent' \in [Actors -> Seq(Command)]
    BY <1>0, <1>2, <2>1, Sending DEF Count
  <2> QED
    BY <1>2, <2>2 DEF Count, TypeOK
<1>3. ASSUME Written(w) PROVE TypeOK'
  BY <1>3 DEF Written, TypeOK, WriterState
<1>4. ASSUME Publish(w) PROVE TypeOK'
  BY <1>4, Shapes DEF Publish, TypeOK, WriterState, Rows
<1>5. ASSUME PublishFails(w) PROVE TypeOK'
  BY <1>5, Shapes DEF PublishFails, Fault, TypeOK
<1>6. ASSUME CrashWriter(w) PROVE TypeOK'
  <2>1. sent' \in [Actors -> Seq(Command)]
    BY <1>0, <1>6, Sending DEF CrashWriter
  <2> QED
    BY <1>6, <2>1, Shapes DEF CrashWriter, Fault, TypeOK
<1> QED
  BY <1>1, <1>2, <1>3, <1>4, <1>5, <1>6

LEMMA ReaderTypes ==
  ASSUME TypeOK, NEW q \in Readers
  PROVE  /\ BeginList(q) \/ ServerStep(q) \/ ReadPageFromPostgres(q) => TypeOK'
         /\ \A i \in Items :
              BeginDetail(q, i) \/ BeginExists(q, i) \/ LookUpFails(q, i) => TypeOK'
<1>0. q \in Actors /\ reader[q] \in ReaderState /\ reader \in [Readers -> ReaderState]
  BY DEF Actors, TypeOK, ReaderState
<1>1. ASSUME BeginList(q) PROVE TypeOK'
  BY <1>0, <1>1, Shapes DEF BeginList, Begin, TypeOK, ReaderState
<1>2. ASSUME NEW i \in Items, BeginDetail(q, i) \/ BeginExists(q, i) PROVE TypeOK'
  <2>1. \A p \in {"detail", "exists"} : [Idle EXCEPT !.at = p, !.need = {i}] \in ReaderState
    BY Shapes DEF ReaderState
  <2>2. PICK p \in {"detail", "exists"} :
          reader' = [reader EXCEPT ![q] = [Idle EXCEPT !.at = p, !.need = {i}]]
    BY <1>2 DEF BeginDetail, BeginExists, Begin
  <2>3. reader' \in [Readers -> ReaderState]
    BY <2>1, <2>2, Reading
  <2> QED
    BY <1>2, <2>3 DEF BeginDetail, BeginExists, TypeOK
<1>3. ASSUME ReadPage(q) PROVE TypeOK'
  <2>1. reader' \in [Readers -> ReaderState]
    BY <1>0, <1>3, Shapes DEF ReadPage, Move, ReaderState, TypeOK
  <2> QED
    BY <1>3, <2>1 DEF ReadPage, TypeOK
<1>4. ASSUME ReadPageFromPostgres(q) \/ Refill(q) PROVE TypeOK'
  <2>1. Snapshot \in Rows /\ ActiveItems \in SUBSET Items
    BY SnapshotOfRows DEF TypeOK, ActiveItems
  <2>2. reader' \in [Readers -> ReaderState]
    <3>1. CASE ReadPageFromPostgres(q)
      BY <1>0, <2>1, <3>1 DEF ReadPageFromPostgres, ReaderState
    <3>2. CASE Refill(q)
      BY <1>0, <2>1, <3>2 DEF Refill, ReaderState
    <3> QED
      BY <1>4, <3>1, <3>2
  <2> QED
    BY <1>4, <2>2 DEF ReadPageFromPostgres, Refill, Fault, TypeOK
<1>5. ASSUME NEW i \in Items, RefillItem(q, i) PROVE TypeOK'
  <2>1. reader[q].found[i] \in State \cup {Absent}
    BY Reading DEF Rows
  <2>2. sent' \in [Actors -> Seq(Command)]
    BY <1>0, <1>5, <2>1, Sending DEF RefillItem
  <2>3. reader' \in [Readers -> ReaderState]
    BY <1>0, <1>5 DEF RefillItem, ReaderState
  <2> QED
    BY <1>5, <2>2, <2>3 DEF RefillItem, TypeOK
<1>6. ASSUME NEW i \in Items, LookUp(q, i) PROVE TypeOK'
  <2>1. summary[i] \in State \cup {Absent}
    BY SummariesAreStates DEF TypeOK
  <2>2. reader' \in [Readers -> ReaderState]
    <3>1. CASE summary[i] = Absent
      BY <1>0, <1>6, <3>1 DEF LookUp, ReaderState
    <3>2. CASE summary[i] # Absent
      BY <1>0, <1>6, <2>1, <3>2, Reading DEF LookUp, Find, ReaderState
    <3> QED
      BY <3>1, <3>2
  <2> QED
    BY <1>6, <2>2 DEF LookUp, TypeOK
<1>7. ASSUME NEW i \in Items, LookUpFails(q, i) PROVE TypeOK'
  <2>1. reader' \in [Readers -> ReaderState]
    BY <1>0, <1>7 DEF LookUpFails, ReaderState
  <2> QED
    BY <1>7, <2>1 DEF LookUpFails, Fault, TypeOK
<1>8. ASSUME NEW i \in Items, Load(q, i) PROVE TypeOK'
  <2> DEFINE s == IF reader[q].at = "rows" THEN Cached(row[i]) ELSE row[i]
  <2>1. row[i] \in State \cup {Absent} /\ s \in State \cup {Absent}
    BY Ranks, SummariesAreStates DEF TypeOK, Rows
  <2>2. sent' \in [Actors -> Seq(Command)]
    <3>1. \/ sent' = sent
          \/ sent' = [sent EXCEPT ![q] = Upsert(i, row[i])]
      BY <1>8 DEF Load, Fill
    <3>2. [sent EXCEPT ![q] = Upsert(i, row[i])] \in [Actors -> Seq(Command)]
      BY <1>0, <2>1, Sending
    <3> QED
      BY <3>1, <3>2 DEF TypeOK
  <2>3. reader' \in [Readers -> ReaderState]
    <3>1. Find(q, i, s)
      BY <1>8 DEF Load
    <3> HIDE DEF s
    <3> QED
      BY <1>0, <2>1, <3>1, Reading DEF Find, ReaderState
  <2> QED
    BY <1>8, <2>2, <2>3 DEF Load, TypeOK
<1>9. ASSUME Answer(q) PROVE TypeOK'
  <2>1. page' \in Rows
    BY <1>9, Reading DEF Answer, TypeOK
  <2>2. reader' \in [Readers -> ReaderState]
    BY <1>0, <1>9, Shapes DEF Answer
  <2> QED
    BY <1>9, <2>1, <2>2 DEF Answer, TypeOK
<1> QED
  BY <1>1, <1>2, <1>3, <1>4, <1>5, <1>6, <1>7, <1>8, <1>9 DEF ServerStep

LEMMA InitTypes == Init => TypeOK
<1> SUFFICES ASSUME Init PROVE TypeOK
  OBVIOUS
<1>1. row \in Rows
  BY CacheAssumption DEF Init
<1>2. sent \in [Actors -> Seq(Command)]
  BY DEF Init
<1> QED
  BY <1>1, <1>2, Shapes, SnapshotOfRows DEF Init, TypeOK, ActiveItems

LEMMA NextTypes == TypeOK /\ [Next]_vars => TypeOK'
<1> SUFFICES ASSUME TypeOK, [Next]_vars PROVE TypeOK'
  OBVIOUS
<1>1. CASE UNCHANGED vars
  BY <1>1 DEF vars, TypeOK
<1>2. CASE Next
  BY <1>2, RedisTypes, WriterTypes, ReaderTypes DEF Next, Failure
<1> QED
  BY <1>1, <1>2

(* Rows, pages, the cache and whoever is under way keep their types: no    *)
(* summary is ever a closed work item's.                                   *)
THEOREM TypeCorrect == Spec => []TypeOK
  BY InitTypes, NextTypes, PTL DEF Spec

-----------------------------------------------------------------------------
(* Nothing that was read from the tables is ahead of them.                 *)

CacheBehind   == \A i \in Items : Rank(summary[i]) <= Rank(row[i]) /\ Rank(told[i]) <= Rank(row[i])

SentBehind    == \A a \in Actors : \A n \in DOMAIN sent[a] :
                   Rank(sent[a][n].value) <= Rank(row[sent[a][n].item])

WritersBehind == \A w \in Writers :
                   writer[w].at # "idle" => Rank(writer[w].state) <= Rank(row[writer[w].item])

ReadersBehind == \A q \in Readers, i \in Items : Rank(reader[q].found[i]) <= Rank(row[i])

NoneAhead == CacheBehind /\ SentBehind /\ WritersBehind /\ ReadersBehind

BoardInv == TypeOK /\ NoneAhead

Numbered ==
  /\ \A i \in Items : /\ Rank(row[i]) \in Nat /\ Rank(summary[i]) \in Nat
                      /\ Rank(told[i]) \in Nat
  /\ \A a \in Actors : \A n \in DOMAIN sent[a] :
       /\ sent[a][n] \in Command /\ sent[a][n].item \in Items
       /\ sent[a][n].value \in Summaries /\ Rank(sent[a][n].value) \in Nat
  /\ \A w \in Writers : writer[w].item \in Items /\ Rank(writer[w].state) \in Nat
  /\ \A q \in Readers, i \in Items : Rank(reader[q].found[i]) \in Nat

LEMMA RanksAreNumbers == TypeOK => Numbered
<1> SUFFICES ASSUME TypeOK PROVE Numbered
  OBVIOUS
<1>1. \A s \in State \cup {Absent} : Rank(s) \in Nat
  BY Ranks
<1>2. ASSUME NEW a \in Actors, NEW n \in DOMAIN sent[a]
      PROVE  sent[a][n] \in Command
  <2>1. sent[a] \in Seq(Command)
    BY DEF TypeOK
  <2> QED
    BY <2>1
<1>3. \A a \in Actors : \A n \in DOMAIN sent[a] :
        sent[a][n].item \in Items /\ sent[a][n].value \in Summaries
  BY <1>2 DEF Command
<1>4. \A q \in Readers : reader[q].found \in Rows
  BY Reading
<1>5. \A w \in Writers : writer[w].item \in Items /\ writer[w].state \in State
  BY DEF TypeOK, WriterState
<1>6. \A i \in Items : /\ row[i] \in State \cup {Absent} /\ summary[i] \in State \cup {Absent}
                       /\ told[i] \in State \cup {Absent}
  BY SummariesAreStates DEF TypeOK, Rows
<1> QED
  BY <1>1, <1>2, <1>3, <1>4, <1>5, <1>6, SummariesAreStates DEF Rows, Numbered

LEMMA NumbersAfter == TypeOK' => Numbered'
  BY RanksAreNumbers, PTL

(* What a step does with the commands that are on their way. *)
RowsAdvance == \A i \in Items : Rank(row[i]) <= Rank(row'[i])

Takes(a) == sent[a] # <<>> /\ sent' = [sent EXCEPT ![a] = Tail(@)]

Sends(a) == \E i \in Items, s \in State \cup {Absent} :
              /\ Rank(s) <= Rank(row'[i])
              /\ sent' = [sent EXCEPT ![a] = Upsert(i, s)]

Drops(a) == sent' = [sent EXCEPT ![a] = <<>>]

(* Redis took the first command of a: the others move up. *)
LEMMA Taken ==
  ASSUME TypeOK, NEW a \in Actors, Takes(a)
  PROVE  /\ \A b \in Actors \ {a} : sent'[b] = sent[b]
         /\ DOMAIN sent[a] = 1..Len(sent[a]) /\ Len(sent[a]) \in Nat \ {0}
         /\ DOMAIN sent'[a] = 1..(Len(sent[a]) - 1)
         /\ \A n \in DOMAIN sent'[a] : n + 1 \in DOMAIN sent[a] /\ sent'[a][n] = sent[a][n+1]
         /\ Head(sent[a]) = sent[a][1] /\ 1 \in DOMAIN sent[a]
<1>1. sent[a] \in Seq(Command) /\ sent[a] # <<>>
  BY DEF TypeOK, Takes
<1>2. sent'[a] = Tail(sent[a]) /\ \A b \in Actors \ {a} : sent'[b] = sent[b]
  BY DEF TypeOK, Takes
<1>3. /\ Len(sent[a]) \in Nat \ {0} /\ DOMAIN sent[a] = 1..Len(sent[a])
      /\ Len(Tail(sent[a])) = Len(sent[a]) - 1
      /\ Tail(sent[a]) \in Seq(Command)
      /\ \A n \in 1..Len(Tail(sent[a])) : Tail(sent[a])[n] = sent[a][n+1]
      /\ Head(sent[a]) = sent[a][1]
  BY <1>1, HeadTailProperties
<1> QED
  BY <1>2, <1>3

LEMMA SentStaysBehind ==
  ASSUME TypeOK, TypeOK', SentBehind, RowsAdvance, NEW a \in Actors,
         sent' = sent \/ Takes(a) \/ Sends(a) \/ Drops(a)
  PROVE  SentBehind'
<1>0. /\ \A i \in Items : Rank(row[i]) \in Nat /\ Rank(row'[i]) \in Nat
      /\ \A b \in Actors : \A n \in DOMAIN sent[b] :
           sent[b][n].item \in Items /\ Rank(sent[b][n].value) \in Nat
  BY RanksAreNumbers, NumbersAfter DEF Numbered
<1>1. ASSUME NEW b \in Actors, NEW n \in DOMAIN sent[b]
      PROVE  Rank(sent[b][n].value) <= Rank(row'[sent[b][n].item])
  BY <1>0 DEF SentBehind, RowsAdvance
<1>2. ASSUME NEW b \in Actors, NEW n \in DOMAIN sent'[b]
      PROVE  Rank(sent'[b][n].value) <= Rank(row'[sent'[b][n].item])
  <2>1. CASE sent'[b] = sent[b]
    BY <1>1, <2>1
  <2>2. CASE Takes(a) /\ b = a
    BY <1>1, <2>2, Taken
  <2>3. CASE Sends(a) /\ b = a
    <3>1. PICK i \in Items, s \in State \cup {Absent} :
            Rank(s) <= Rank(row'[i]) /\ sent' = [sent EXCEPT ![a] = Upsert(i, s)]
      BY <2>3 DEF Sends
    <3>2. sent'[b] = Upsert(i, s)
      BY <2>3, <3>1 DEF TypeOK
    <3>3. sent'[b][n].item = i /\ sent'[b][n].value = Cached(s)
      <4>1. n \in 1..2
        <5>1. n \in DOMAIN Upsert(i, s)
          BY <3>2
        <5>2. DOMAIN Upsert(i, s) = 1..2
          BY UpsertPair
        <5> QED
          BY <5>1, <5>2
      <4>2. \A m \in 1..2 : Upsert(i, s)[m].item = i /\ Upsert(i, s)[m].value = Cached(s)
        BY UpsertPair
      <4>3. Upsert(i, s)[n].item = i /\ Upsert(i, s)[n].value = Cached(s)
        BY <4>1, <4>2
      <4> QED
        BY <3>2, <4>3
    <3>4. Rank(Cached(s)) <= Rank(s) /\ Rank(s) \in Nat /\ Rank(Cached(s)) \in Nat
      BY Ranks, SummariesAreStates
    <3> QED
      BY <1>0, <3>1, <3>3, <3>4
  <2>4. CASE Drops(a) /\ b = a
    <3>1. sent'[b] = <<>>
      BY <2>4 DEF Drops, TypeOK
    <3> QED
      BY <1>2, <3>1
  <2>5. b = a \/ sent'[b] = sent[b]
    BY Taken DEF Sends, Drops, TypeOK
  <2> QED
    BY <2>1, <2>2, <2>3, <2>4, <2>5
<1> QED
  BY <1>2 DEF SentBehind

LEMMA RedisBehind ==
  ASSUME BoardInv, TypeOK'
  PROVE  /\ \A a \in Actors : Execute(a) \/ LoseCommand(a) => NoneAhead'
         /\ \A i \in Items : Expire(i) => NoneAhead'
         /\ Flush => NoneAhead'
<1>0. Numbered /\ NoneAhead /\ TypeOK
  BY RanksAreNumbers DEF BoardInv
<1>1. ASSUME NEW a \in Actors, Execute(a) PROVE NoneAhead'
  <2> DEFINE c == Head(sent[a])
  <2>1. Takes(a) /\ row' = row /\ told' = told /\ writer' = writer /\ reader' = reader
    BY <1>1 DEF Execute, Takes
  <2>2. RowsAdvance
    BY <1>0, <2>1 DEF RowsAdvance, Numbered
  <2>3. SentBehind'
    BY <1>0, <2>1, <2>2, SentStaysBehind DEF NoneAhead
  <2>4. c.item \in Items /\ Rank(c.value) <= Rank(row[c.item])
    BY <1>0, <2>1, Taken DEF NoneAhead, SentBehind, Numbered
  <2>5. summary' = summary \/ summary' = [summary EXCEPT ![c.item] = c.value]
    BY <1>1 DEF Execute
  <2> HIDE DEF c
  <2>6. CacheBehind'
    BY <1>0, <2>1, <2>4, <2>5 DEF TypeOK, CacheBehind, NoneAhead
  <2> QED
    BY <1>0, <2>1, <2>3, <2>6 DEF NoneAhead, WritersBehind, ReadersBehind
<1>2. ASSUME NEW a \in Actors, LoseCommand(a) PROVE NoneAhead'
  <2>1. Takes(a) /\ UNCHANGED <<row, told, summary, writer, reader>>
    BY <1>2 DEF LoseCommand, Takes
  <2>2. RowsAdvance
    BY <1>0, <2>1 DEF RowsAdvance, Numbered
  <2>3. SentBehind'
    BY <1>0, <2>1, <2>2, SentStaysBehind DEF NoneAhead
  <2> QED
    BY <1>0, <2>1, <2>3 DEF NoneAhead, CacheBehind, WritersBehind, ReadersBehind
<1>3. Absent \in State \cup {Absent} /\ Rank(Absent) = 0
  BY Ranks
<1>4. ASSUME NEW i \in Items, Expire(i) PROVE NoneAhead'
  <2>1. CacheBehind'
    BY <1>0, <1>3, <1>4 DEF Expire, CacheBehind, NoneAhead, TypeOK, Numbered
  <2> QED
    BY <1>0, <1>4, <2>1 DEF Expire, NoneAhead, SentBehind, WritersBehind, ReadersBehind
<1>5. ASSUME Flush PROVE NoneAhead'
  <2>1. CacheBehind'
    BY <1>0, <1>3, <1>5 DEF Flush, Nowhere, CacheBehind, NoneAhead, Numbered
  <2> QED
    BY <1>0, <1>5, <2>1 DEF Flush, NoneAhead, SentBehind, WritersBehind, ReadersBehind
<1> QED
  BY <1>1, <1>2, <1>4, <1>5

(* A commit moves one row one state on, and its writer has that state. *)
LEMMA CommitMoves ==
  ASSUME TypeOK, NEW w \in Writers, NEW i \in Items, Commit(w, i)
  PROVE  \E s \in State :
           /\ Advance(i, s) /\ WriteThrough(w, i, s)
           /\ row'[i] = s /\ \A j \in Items \ {i} : row'[j] = row[j]
           /\ RowsAdvance
<1>1. PICK s \in State : Advance(i, s) /\ WriteThrough(w, i, s)
  BY DEF Commit
<1>2. row' = [row EXCEPT ![i] = s] /\ Rank(s) = Rank(row[i]) + 1
  BY <1>1 DEF Advance
<1>3. row'[i] = s /\ \A j \in Items \ {i} : row'[j] = row[j]
  BY <1>2 DEF TypeOK, Rows
<1>4. RowsAdvance
  BY <1>2, <1>3, RanksAreNumbers DEF RowsAdvance, Numbered
<1> QED
  BY <1>1, <1>3, <1>4

LEMMA WriterBehind ==
  ASSUME BoardInv, TypeOK', NEW w \in Writers
  PROVE  /\ \A i \in Items : Commit(w, i) \/ Count(w, i) => NoneAhead'
         /\ Written(w) \/ Publish(w) \/ PublishFails(w) \/ CrashWriter(w) => NoneAhead'
<1>0. Numbered /\ Numbered' /\ NoneAhead /\ TypeOK /\ w \in Actors
  BY RanksAreNumbers, NumbersAfter DEF BoardInv, Actors
<1>1. ASSUME NEW i \in Items, Commit(w, i) PROVE NoneAhead'
  <2>1. PICK s \in State : /\ Advance(i, s) /\ WriteThrough(w, i, s)
                           /\ row'[i] = s /\ \A j \in Items \ {i} : row'[j] = row[j]
                           /\ RowsAdvance
    BY <1>0, <1>1, CommitMoves
  <2>2. UNCHANGED <<told, summary, reader>>
    BY <1>1 DEF Commit
  <2>3. Rank(s) <= Rank(row'[i]) /\ s \in State \cup {Absent}
    BY <1>0, <2>1 DEF Numbered
  <2>4. Sends(w)
    BY <2>1, <2>3 DEF Sends, WriteThrough
  <2>5. SentBehind'
    BY <1>0, <2>1, <2>4, SentStaysBehind DEF NoneAhead
  <2>6. CacheBehind' /\ ReadersBehind'
    BY <1>0, <2>1, <2>2 DEF RowsAdvance, NoneAhead, CacheBehind, ReadersBehind, Numbered
  <2>7. WritersBehind'
    <3> SUFFICES ASSUME NEW v \in Writers, writer'[v].at # "idle"
                 PROVE  Rank(writer'[v].state) <= Rank(row'[writer'[v].item])
      BY DEF WritersBehind
    <3>1. CASE v = w
      <4>1. writer'[v] = [at |-> "write", item |-> i, state |-> s]
        BY <1>0, <2>1, <3>1 DEF WriteThrough, TypeOK
      <4> QED
        BY <2>3, <4>1
    <3>2. CASE v # w
      <4>1. writer'[v] = writer[v]
        BY <1>0, <2>1, <3>2 DEF WriteThrough, TypeOK
      <4>2. Rank(writer[v].state) <= Rank(row[writer[v].item])
        BY <1>0, <4>1 DEF NoneAhead, WritersBehind
      <4> QED
        BY <1>0, <2>1, <4>1, <4>2 DEF RowsAdvance, Numbered
    <3> QED
      BY <3>1, <3>2
  <2> QED
    BY <2>5, <2>6, <2>7 DEF NoneAhead
<1>2. ASSUME NEW i \in Items, Count(w, i) PROVE NoneAhead'
  <2>1. UNCHANGED <<row, told, summary, writer, reader>>
    BY <1>2 DEF Count
  <2>2. row[i] \in State \cup {Absent} /\ Rank(row[i]) <= Rank(row'[i])
    BY <1>0, <2>1 DEF TypeOK, Rows, Numbered
  <2>3. Sends(w) /\ RowsAdvance
    <3>1. sent' = [sent EXCEPT ![w] = Upsert(i, row[i])]
      BY <1>2 DEF Count
    <3>2. Sends(w)
      BY <2>2, <3>1, Zenon DEF Sends
    <3> QED
      BY <1>0, <2>1, <3>2 DEF RowsAdvance, Numbered
  <2>4. SentBehind'
    BY <1>0, <2>3, SentStaysBehind DEF NoneAhead
  <2> QED
    BY <1>0, <2>1, <2>4 DEF NoneAhead, CacheBehind, WritersBehind, ReadersBehind
<1>3. ASSUME Written(w) PROVE NoneAhead'
  <2>1. WritersBehind'
    BY <1>0, <1>3 DEF Written, TypeOK, WriterState, NoneAhead, WritersBehind
  <2> QED
    BY <1>0, <1>3, <2>1 DEF Written, NoneAhead, CacheBehind, SentBehind, ReadersBehind
<1>4. ASSUME Publish(w) PROVE NoneAhead'
  <2>1. WritersBehind'
    BY <1>0, <1>4, Shapes DEF Publish, TypeOK, NoneAhead, WritersBehind
  <2>2. CacheBehind'
    BY <1>0, <1>4 DEF Publish, TypeOK, Rows, NoneAhead, WritersBehind, CacheBehind
  <2> QED
    BY <1>0, <1>4, <2>1, <2>2 DEF Publish, NoneAhead, SentBehind, ReadersBehind
<1>5. ASSUME PublishFails(w) PROVE NoneAhead'
  <2>1. WritersBehind'
    BY <1>0, <1>5, Shapes DEF PublishFails, TypeOK, NoneAhead, WritersBehind
  <2> QED
    BY <1>0, <1>5, <2>1 DEF PublishFails, NoneAhead, CacheBehind, SentBehind, ReadersBehind
<1>6. ASSUME CrashWriter(w) PROVE NoneAhead'
  <2>1. WritersBehind'
    BY <1>0, <1>6, Shapes DEF CrashWriter, TypeOK, NoneAhead, WritersBehind
  <2>2. Drops(w) /\ UNCHANGED <<row, told, summary, reader>> /\ RowsAdvance
    BY <1>0, <1>6 DEF CrashWriter, Drops, RowsAdvance, Numbered
  <2>3. SentBehind'
    BY <1>0, <2>2, SentStaysBehind DEF NoneAhead
  <2> QED
    BY <1>0, <2>1, <2>2, <2>3 DEF NoneAhead, CacheBehind, ReadersBehind
<1> QED
  BY <1>1, <1>2, <1>3, <1>4, <1>5, <1>6

LEMMA ReaderBehind ==
  ASSUME BoardInv, TypeOK', NEW q \in Readers
  PROVE  /\ BeginList(q) \/ ServerStep(q) \/ ReadPageFromPostgres(q) => NoneAhead'
         /\ \A i \in Items :
              BeginDetail(q, i) \/ BeginExists(q, i) \/ LookUpFails(q, i) => NoneAhead'
<1>0. /\ Numbered /\ NoneAhead /\ TypeOK /\ q \in Actors
      /\ reader \in [Readers -> ReaderState] /\ reader[q].found \in Rows
      /\ \A i \in Items : Rank(reader[q].found[i]) <= Rank(row[i])
  BY RanksAreNumbers, Reading DEF BoardInv, Actors, TypeOK, NoneAhead, ReadersBehind
<1>a. \A i \in Items : Rank(Nowhere[i]) <= Rank(row[i]) /\ Rank(Snapshot[i]) <= Rank(row[i])
  <2>1. Rank(Absent) = 0
    BY Ranks
  <2> QED
    BY <1>0, <2>1, SnapshotOfRows DEF Nowhere, Numbered, TypeOK
(* A step that only changes what one reader has found, and sends at most   *)
(* one upsert.                                                             *)
<1>b. ASSUME UNCHANGED <<row, told, summary, writer>>,
             sent' = sent \/ Sends(q),
             \A p \in Readers \ {q} : reader'[p] = reader[p],
             \A i \in Items : Rank(reader'[q].found[i]) <= Rank(row[i])
      PROVE  NoneAhead'
  <2>1. RowsAdvance
    BY <1>0, <1>b DEF RowsAdvance, Numbered
  <2>2. SentBehind'
    BY <1>0, <1>b, <2>1, SentStaysBehind DEF NoneAhead
  <2>3. ReadersBehind'
    <3> SUFFICES ASSUME NEW p \in Readers, NEW i \in Items
                 PROVE  Rank(reader'[p].found[i]) <= Rank(row'[i])
      BY DEF ReadersBehind
    <3> QED
      BY <1>0, <1>b DEF NoneAhead, ReadersBehind
  <2> QED
    BY <1>0, <1>b, <2>2, <2>3 DEF NoneAhead, CacheBehind, WritersBehind
<1>1. ASSUME BeginList(q) PROVE NoneAhead'
  <2>1. reader' = [reader EXCEPT ![q] = [Idle EXCEPT !.at = "page", !.need = {}]]
    BY <1>1 DEF BeginList, Begin
  <2>2. reader'[q].found = Nowhere
    BY <1>0, <2>1 DEF Idle
  <2> QED
    BY <1>0, <1>1, <1>a, <1>b, <2>1, <2>2 DEF BeginList
<1>2. ASSUME NEW i \in Items, BeginDetail(q, i) \/ BeginExists(q, i) PROVE NoneAhead'
  <2>1. PICK p \in {"detail", "exists"} :
          reader' = [reader EXCEPT ![q] = [Idle EXCEPT !.at = p, !.need = {i}]]
    BY <1>2 DEF BeginDetail, BeginExists, Begin
  <2>2. reader'[q].found = Nowhere
    BY <1>0, <2>1 DEF Idle
  <2> QED
    BY <1>0, <1>2, <1>a, <1>b, <2>1, <2>2 DEF BeginDetail, BeginExists
<1>3. ASSUME ReadPage(q) PROVE NoneAhead'
  <2>1. /\ reader'[q].found \in {reader[q].found, Nowhere}
        /\ \A p \in Readers \ {q} : reader'[p] = reader[p]
    BY <1>0, <1>3 DEF ReadPage, Move, ReaderState
  <2> QED
    BY <1>0, <1>3, <1>a, <1>b, <2>1 DEF ReadPage
<1>4. ASSUME ReadPageFromPostgres(q) \/ Refill(q) PROVE NoneAhead'
  <2>1. /\ reader'[q].found = Snapshot
        /\ \A p \in Readers \ {q} : reader'[p] = reader[p]
    <3>1. CASE ReadPageFromPostgres(q)
      BY <1>0, <3>1 DEF ReadPageFromPostgres, ReaderState
    <3>2. CASE Refill(q)
      BY <1>0, <3>2 DEF Refill, ReaderState
    <3> QED
      BY <1>4, <3>1, <3>2
  <2> QED
    BY <1>4, <1>a, <1>b, <2>1 DEF ReadPageFromPostgres, Refill
<1>5. ASSUME NEW i \in Items, RefillItem(q, i) PROVE NoneAhead'
  <2>1. /\ reader'[q].found = reader[q].found
        /\ \A p \in Readers \ {q} : reader'[p] = reader[p]
        /\ UNCHANGED <<row, told, summary, writer>>
    BY <1>0, <1>5 DEF RefillItem, ReaderState
  <2>2. Sends(q)
    <3>1. sent' = [sent EXCEPT ![q] = Upsert(i, reader[q].found[i])]
      BY <1>5 DEF RefillItem
    <3>2. /\ reader[q].found[i] \in State \cup {Absent}
          /\ Rank(reader[q].found[i]) <= Rank(row'[i])
      BY <1>0, <2>1 DEF Rows
    <3> QED
      BY <3>1, <3>2, Zenon DEF Sends
  <2> QED
    BY <1>0, <1>b, <2>1, <2>2
<1>6. ASSUME NEW i \in Items, LookUp(q, i) PROVE NoneAhead'
  <2>1. Rank(summary[i]) <= Rank(row[i])
    BY <1>0 DEF NoneAhead, CacheBehind
  <2>2. /\ \A p \in Readers \ {q} : reader'[p] = reader[p]
        /\ \/ reader'[q].found = reader[q].found
           \/ reader'[q].found = [reader[q].found EXCEPT ![i] = summary[i]]
    <3>1. CASE summary[i] = Absent
      BY <1>0, <1>6, <3>1 DEF LookUp, ReaderState
    <3>2. CASE summary[i] # Absent
      BY <1>0, <1>6, <3>2 DEF LookUp, Find, ReaderState
    <3> QED
      BY <3>1, <3>2
  <2>3. \A j \in Items : Rank(reader'[q].found[j]) <= Rank(row[j])
    BY <1>0, <2>1, <2>2 DEF Rows
  <2> QED
    BY <1>6, <1>b, <2>2, <2>3 DEF LookUp
<1>7. ASSUME NEW i \in Items, LookUpFails(q, i) PROVE NoneAhead'
  <2>1. /\ reader'[q].found = reader[q].found
        /\ \A p \in Readers \ {q} : reader'[p] = reader[p]
    BY <1>0, <1>7 DEF LookUpFails, ReaderState
  <2> QED
    BY <1>0, <1>7, <1>b, <2>1 DEF LookUpFails
<1>8. ASSUME NEW i \in Items, Load(q, i) PROVE NoneAhead'
  <2> DEFINE s == IF reader[q].at = "rows" THEN Cached(row[i]) ELSE row[i]
  <2>1. /\ row[i] \in State \cup {Absent} /\ s \in State \cup {Absent}
        /\ Rank(s) <= Rank(row[i])
    BY <1>0, Ranks, SummariesAreStates DEF TypeOK, Rows, Numbered
  <2>2. Find(q, i, s) /\ UNCHANGED <<row, told, summary, writer>>
    BY <1>8 DEF Load
  <2> HIDE DEF s
  <2>3. /\ reader'[q].found = [reader[q].found EXCEPT ![i] = s]
        /\ \A p \in Readers \ {q} : reader'[p] = reader[p]
    BY <1>0, <2>2 DEF Find, ReaderState
  <2>4. \A j \in Items : Rank(reader'[q].found[j]) <= Rank(row[j])
    BY <1>0, <2>1, <2>3 DEF Rows
  <2>5. sent' = sent \/ sent' = [sent EXCEPT ![q] = Upsert(i, row[i])]
    BY <1>8 DEF Load, Fill
  <2>6. Rank(row[i]) <= Rank(row'[i])
    BY <1>0, <2>2 DEF Numbered
  <2>7. sent' = sent \/ Sends(q)
    BY <2>1, <2>5, <2>6, Zenon DEF Sends
  <2> QED
    BY <1>b, <2>2, <2>3, <2>4, <2>7
<1>9. ASSUME Answer(q) PROVE NoneAhead'
  <2>1. reader'[q] = Idle /\ \A p \in Readers \ {q} : reader'[p] = reader[p]
    BY <1>0, <1>9 DEF Answer
  <2> QED
    BY <1>9, <1>a, <1>b, <2>1, Shapes DEF Answer
<1> QED
  BY <1>1, <1>2, <1>3, <1>4, <1>5, <1>6, <1>7, <1>8, <1>9 DEF ServerStep

LEMMA NowhereIsAbsent == \A i \in Items : Nowhere[i] = Absent
  BY DEF Nowhere

LEMMA InitBehind == Init => NoneAhead
<1> SUFFICES ASSUME Init PROVE NoneAhead
  OBVIOUS
<1>1. TypeOK /\ Numbered
  BY InitTypes, RanksAreNumbers
<1>2. ASSUME NEW i \in Items
      PROVE  Rank(summary[i]) <= Rank(row[i]) /\ Rank(told[i]) <= Rank(row[i])
  <2>1. summary[i] = Snapshot[i] /\ told[i] = row[i]
    BY Zenon DEF Init
  <2>2. Rank(Snapshot[i]) <= Rank(row[i]) /\ Rank(row[i]) \in Nat
    BY <1>1, SnapshotOfRows DEF TypeOK, Numbered
  <2> QED
    BY <2>1, <2>2
<1>3. CacheBehind
  BY <1>2, Zenon DEF CacheBehind
<1>4. SentBehind
  BY DEF Init, SentBehind
<1>5. WritersBehind
  BY Shapes DEF Init, WritersBehind
<1>6. ASSUME NEW q \in Readers, NEW i \in Items
      PROVE  Rank(reader[q].found[i]) <= Rank(row[i])
  <2>1. reader[q] = Idle
    BY Zenon DEF Init
  <2>2. Rank(Absent) = 0 /\ Rank(row[i]) \in Nat
    BY <1>1, Ranks DEF Numbered
  <2> QED
    BY <2>1, <2>2, Shapes, NowhereIsAbsent
<1>7. ReadersBehind
  BY <1>6 DEF ReadersBehind
<1> QED
  BY <1>3, <1>4, <1>5, <1>7 DEF NoneAhead

LEMMA NextBehind == BoardInv /\ [Next]_vars => BoardInv'
<1> SUFFICES ASSUME BoardInv, [Next]_vars PROVE BoardInv'
  OBVIOUS
<1>1. TypeOK'
  BY NextTypes DEF BoardInv
<1>2. CASE UNCHANGED vars
  <2>1. NoneAhead'
    BY <1>2 DEF vars, BoardInv, NoneAhead, CacheBehind, SentBehind, WritersBehind, ReadersBehind
  <2> QED
    BY <1>1, <2>1 DEF BoardInv
<1>3. CASE Next
  <2>1. NoneAhead'
    BY <1>1, <1>3, RedisBehind, WriterBehind, ReaderBehind DEF Next, Failure
  <2> QED
    BY <1>1, <2>1 DEF BoardInv
<1> QED
  BY <1>2, <1>3

LEMMA BoardInductive == Spec => []BoardInv
<1>1. Init => BoardInv
  BY InitTypes, InitBehind DEF BoardInv
<1> QED
  BY <1>1, NextBehind, PTL DEF Spec

-----------------------------------------------------------------------------
(* The promise of IncidentBoard.                                           *)

LEMMA BoardStep ==
  ASSUME BoardInv, BoardInv', [Next]_vars
  PROVE  [Board!BoardNext]_<<row, page>>
<1>1. ASSUME NEW w \in Writers, NEW i \in Items, Commit(w, i)
      PROVE  Board!Change
  <2>1. PICK s \in State : Advance(i, s)
    BY <1>1 DEF Commit
  <2>2. page' = page
    BY <1>1 DEF Commit
  <2> QED
    BY <2>1, <2>2 DEF Board!Change, Board!Advance, Advance, Board!State, State, Board!Rank, Rank,
                      Board!Absent, Absent
<1>2. ASSUME NEW q \in Readers, Answer(q)
      PROVE  Board!Show \/ UNCHANGED <<row, page>>
  <2>1. reader[q].found \in Rows /\ \A i \in Items : Rank(reader[q].found[i]) <= Rank(row[i])
    BY Reading DEF BoardInv, NoneAhead, ReadersBehind
  <2>2. reader[q].found \in Behind(row)
    BY <2>1 DEF Behind
  <2> QED
    BY <1>2, <2>2 DEF Answer, Board!Show, Board!Behind, Behind, Board!Rows, Rows, Board!State, State,
                      Board!Rank, Rank, Board!Absent, Absent
<1>3. ASSUME NEW q \in Readers,
             \/ BeginList(q) \/ ReadPage(q) \/ Refill(q) \/ ReadPageFromPostgres(q)
             \/ \E i \in Items : \/ BeginDetail(q, i) \/ BeginExists(q, i) \/ LookUp(q, i)
                               \/ Load(q, i) \/ RefillItem(q, i) \/ LookUpFails(q, i)
      PROVE  UNCHANGED <<row, page>>
  BY <1>3, Zenon DEF BeginList, ReadPage, Refill, ReadPageFromPostgres, BeginDetail, BeginExists,
                     LookUp, Load, RefillItem, LookUpFails
<1>4. ASSUME NEW w \in Writers,
             \/ Written(w) \/ Publish(w) \/ PublishFails(w) \/ CrashWriter(w)
             \/ \E i \in Items : Count(w, i)
      PROVE  UNCHANGED <<row, page>>
  BY <1>4, Zenon DEF Written, Publish, PublishFails, CrashWriter, Count
<1>5. ASSUME \/ \E a \in Actors : Execute(a) \/ LoseCommand(a)
             \/ \E i \in Items : Expire(i)
             \/ Flush
             \/ UNCHANGED vars
      PROVE  UNCHANGED <<row, page>>
  BY <1>5, Zenon DEF Execute, LoseCommand, Expire, Flush, vars
<1> QED
  BY <1>1, <1>2, <1>3, <1>4, <1>5 DEF Next, ServerStep, Failure, Board!BoardNext

(* Through cache, snapshots, write-backs and fallback a list shows a work  *)
(* item only in a state that its row has entered: the dashboard implements *)
(* the board, whatever fails.                                              *)
THEOREM BoardIsKept == Spec => Implements
<1>1. Init => Board!BoardInit
  <2>1. Init => row \in Rows /\ page = Nowhere
    BY InitTypes, Zenon DEF Init, TypeOK
  <2> QED
    BY <2>1 DEF Nowhere, Board!BoardInit, Board!Rows, Rows, Board!State, State, Board!Absent, Absent
<1>2. BoardInv /\ BoardInv' /\ [Next]_vars => [Board!BoardNext]_<<row, page>>
  BY BoardStep
<1> QED
  BY <1>1, <1>2, BoardInductive, PTL DEF Spec, Implements, Board!BoardSpec

-----------------------------------------------------------------------------
(* The cache agrees with the tables, and events with the cache, while no   *)
(* cache write is lost or raced.                                           *)

(* The command that brings the cache of i up to its row has yet to run. *)
OnItsWay(k, i) ==
  \E a \in Actors : \E n \in DOMAIN sent[a] :
    sent[a][n] = [key |-> k, item |-> i, value |-> Cached(row[i])]

(* What the cache says of i is what its row says, or will be. *)
Reconciled ==
  ~ raced => \A i \in Items :
    /\ summary[i] \in {Absent, Cached(row[i])} \/ OnItsWay("summary", i)
    /\ (i \in listed => Active(i)) \/ OnItsWay("active", i)

(* Whoever asks for i now is shown s or a later state. *)
Visible(i, s) == Rank(s) <= Rank(Shown(i))

(* What was announced is visible, and so is what will be once the summary  *)
(* of the commit was written.                                              *)
InOrder ==
  ~ raced =>
    /\ \A i \in Items : Visible(i, told[i])
    /\ \A w \in Writers :
         /\ writer[w].at = "write" => \/ sent[w] = Upsert(writer[w].item, writer[w].state)
                                      \/ Visible(writer[w].item, writer[w].state)
         /\ writer[w].at = "publish" => Visible(writer[w].item, writer[w].state)

CacheInv == BoardInv /\ Reconciled /\ InOrder

(* Rows move on and a summary expires or is brought up to date: what is    *)
(* visible stays visible.                                                  *)
LEMMA StaysVisible ==
  ASSUME BoardInv, TypeOK', RowsAdvance, NEW i \in Items, NEW s \in State \cup {Absent},
         summary'[i] \in {summary[i], Absent, Cached(row[i])},
         Visible(i, s)
  PROVE  Rank(s) <= Rank(Shown(i)')
<1>1. /\ Rank(row[i]) \in Nat /\ Rank(row'[i]) \in Nat /\ Rank(summary[i]) \in Nat
      /\ Rank(summary'[i]) \in Nat /\ Rank(s) \in Nat
      /\ Rank(row[i]) <= Rank(row'[i])
      /\ Rank(summary[i]) <= Rank(row[i])
      /\ row[i] \in State \cup {Absent}
  <2>1. TypeOK /\ NoneAhead /\ Numbered /\ Numbered'
    BY RanksAreNumbers, NumbersAfter DEF BoardInv
  <2>2. Rank(s) \in Nat
    BY Ranks
  <2>3. row[i] \in State \cup {Absent}
    BY <2>1 DEF TypeOK, Rows
  <2> QED
    BY <2>1, <2>2, <2>3 DEF Numbered, RowsAdvance, NoneAhead, CacheBehind
<1>2. Cached(row[i]) # Absent => Cached(row[i]) = row[i]
  BY <1>1, Ranks
<1>3. CASE summary'[i] = Absent
  BY <1>1, <1>3 DEF Visible, Shown
<1>4. CASE summary'[i] # Absent /\ summary'[i] = summary[i]
  BY <1>1, <1>4 DEF Visible, Shown
<1>5. CASE summary'[i] # Absent /\ summary'[i] = Cached(row[i])
  BY <1>1, <1>2, <1>5 DEF Visible, Shown
<1> QED
  BY <1>3, <1>4, <1>5

(* Commands stay on their way when connections that had none get some, or  *)
(* Redis takes another command.                                            *)
OnlyAppends == \A b \in Actors : sent[b] = <<>> \/ sent'[b] = sent[b]

LEMMA StaysOnItsWay ==
  ASSUME TypeOK, NEW k, NEW i \in Items, OnItsWay(k, i), row'[i] = row[i],
         \/ OnlyAppends
         \/ \E a \in Actors :
              Takes(a) /\ Head(sent[a]) # [key |-> k, item |-> i, value |-> Cached(row[i])]
  PROVE  OnItsWay(k, i)'
<1> DEFINE c == [key |-> k, item |-> i, value |-> Cached(row[i])]
<1>0. PICK b \in Actors : \E n \in DOMAIN sent[b] : sent[b][n] = c
  BY DEF OnItsWay
<1>1. PICK n \in DOMAIN sent[b] : sent[b][n] = c
  BY <1>0
<1>2. SUFFICES \E d \in Actors : \E m \in DOMAIN sent'[d] : sent'[d][m] = c
  BY DEF OnItsWay
<1> HIDE DEF c
<1>3. CASE sent'[b] = sent[b]
  BY <1>1, <1>3
<1>4. ASSUME NEW a \in Actors, Takes(a), Head(sent[a]) # c
      PROVE  \E d \in Actors : \E m \in DOMAIN sent'[d] : sent'[d][m] = c
  <2>1. CASE b = a
    <3>1. n # 1
      BY <1>1, <1>4, <2>1, Taken
    <3>2. n - 1 \in DOMAIN sent'[a] /\ (n - 1) + 1 = n
      BY <1>1, <1>4, <2>1, <3>1, Taken
    <3>3. sent'[a][n - 1] = sent[a][(n - 1) + 1]
      BY <1>4, <3>2, Taken
    <3> QED
      BY <1>1, <1>4, <2>1, <3>2, <3>3
  <2>2. CASE b # a
    BY <1>3, <1>4, <2>2, Taken
  <2> QED
    BY <2>1, <2>2
<1>5. sent[b] # <<>>
  BY <1>1
<1> QED
  BY <1>3, <1>4, <1>5 DEF c, OnlyAppends

(* A step that changes no row, lets summaries expire at most, and sends    *)
(* commands only on connections that had none and belong to no mutation    *)
(* under way.                                                              *)
LEMMA OthersMove ==
  ASSUME CacheInv, TypeOK', OnlyAppends,
         UNCHANGED <<row, told, listed, writer, raced>>,
         \A i \in Items : summary'[i] \in {summary[i], Absent},
         \A w \in Writers : writer[w].at # "idle" => sent'[w] = sent[w]
  PROVE  Reconciled' /\ InOrder'
<1>0. BoardInv /\ TypeOK /\ RowsAdvance
  BY RanksAreNumbers DEF CacheInv, BoardInv, Numbered, RowsAdvance
<1>1. ASSUME ~ raced', NEW i \in Items
      PROVE  /\ summary'[i] \in {Absent, Cached(row'[i])} \/ OnItsWay("summary", i)'
             /\ (i \in listed' => Active(i)') \/ OnItsWay("active", i)'
  <2>1. /\ summary[i] \in {Absent, Cached(row[i])} \/ OnItsWay("summary", i)
        /\ (i \in listed => Active(i)) \/ OnItsWay("active", i)
    BY <1>1 DEF CacheInv, Reconciled
  <2>2. \A k : OnItsWay(k, i) => OnItsWay(k, i)'
    BY <1>0, StaysOnItsWay
  <2>3. Active(i)' <=> Active(i)
    BY DEF Active
  <2> QED
    BY <2>1, <2>2, <2>3
<1>2. Reconciled'
  BY <1>1 DEF Reconciled
<1>3. ASSUME NEW i \in Items, NEW s \in State \cup {Absent}, Visible(i, s)
      PROVE  Rank(s) <= Rank(Shown(i)')
  BY <1>0, <1>3, StaysVisible
<1>4. ASSUME ~ raced', NEW i \in Items PROVE Rank(told'[i]) <= Rank(Shown(i)')
  <2>1. Visible(i, told[i]) /\ told[i] \in State \cup {Absent}
    BY <1>0, <1>4 DEF CacheInv, InOrder, TypeOK, Rows
  <2> QED
    BY <1>3, <2>1
<1>5. ASSUME ~ raced', NEW w \in Writers
      PROVE  /\ writer'[w].at = "write" =>
                  \/ sent'[w] = Upsert(writer'[w].item, writer'[w].state)
                  \/ Rank(writer'[w].state) <= Rank(Shown(writer[w].item)')
             /\ writer'[w].at = "publish" =>
                  Rank(writer'[w].state) <= Rank(Shown(writer[w].item)')
  <2> DEFINE i == writer[w].item
             s == writer[w].state
  <2>1. i \in Items /\ s \in State \cup {Absent}
    BY <1>0 DEF TypeOK, WriterState
  <2>2. Visible(i, s) => Rank(s) <= Rank(Shown(i)')
    BY <1>3, <2>1
  <2> QED
    BY <1>5, <2>2 DEF CacheInv, InOrder
<1>6. InOrder'
  BY <1>4, <1>5 DEF InOrder, Visible
<1> QED
  BY <1>2, <1>6

(* Redis runs a command that says what the row says. *)
LEMMA ExecuteReconciles ==
  ASSUME CacheInv, TypeOK', NEW a \in Actors, Execute(a), ~ raced'
  PROVE  Reconciled' /\ InOrder'
<1> DEFINE c == Head(sent[a])
<1>0. /\ BoardInv /\ TypeOK /\ ~ raced /\ c.value = Cached(row[c.item])
      /\ Takes(a) /\ UNCHANGED <<row, told, writer>>
  BY DEF CacheInv, BoardInv, Execute, Takes
<1>1. c \in Command /\ c.item \in Items
  BY <1>0, Sending DEF Command, Takes
<1>2. RowsAdvance
  BY <1>0, RanksAreNumbers DEF Numbered, RowsAdvance
<1>3. /\ c.key = "summary" => summary' = [summary EXCEPT ![c.item] = c.value] /\ listed' = listed
      /\ c.key # "summary" => /\ listed' = IF c.value = Absent THEN listed \ {c.item}
                                                               ELSE listed \cup {c.item}
                              /\ summary' = summary
  BY DEF Execute
<1>4. c = [key |-> c.key, item |-> c.item, value |-> c.value] /\ c.key \in {"summary", "active"}
  BY <1>1 DEF Command
<1> HIDE DEF c
<1>5. ASSUME NEW i \in Items
      PROVE  /\ summary'[i] \in {summary[i], Absent, Cached(row[i])}
             /\ c.key = "summary" /\ c.item = i => summary'[i] = Cached(row[i])
             /\ ~ (c.key = "summary" /\ c.item = i) => summary'[i] = summary[i]
             /\ c.key = "active" /\ c.item = i => (i \in listed' => Active(i))
             /\ ~ (c.key = "active" /\ c.item = i) => (i \in listed' <=> i \in listed)
  <2>1. row[i] \in State \cup {Absent}
    BY <1>0 DEF TypeOK, Rows
  <2>2. Cached(row[i]) # Absent => Active(i)
    BY <1>0, SnapshotOfRows DEF TypeOK
  <2>3. c.key = "summary" => summary'[i] = IF c.item = i THEN c.value ELSE summary[i]
    BY <1>0, <1>1, <1>3 DEF TypeOK
  <2> QED
    BY <1>0, <1>1, <1>3, <1>4, <2>2, <2>3
<1>6. ASSUME NEW i \in Items, NEW k, OnItsWay(k, i),
             ~ (c.key = k /\ c.item = i)
      PROVE  OnItsWay(k, i)'
  <2>1. c # [key |-> k, item |-> i, value |-> Cached(row[i])]
    BY <1>6
  <2> QED
    BY <1>0, <1>6, <2>1, StaysOnItsWay DEF c
<1>7. ASSUME NEW i \in Items
      PROVE  /\ summary'[i] \in {Absent, Cached(row'[i])} \/ OnItsWay("summary", i)'
             /\ (i \in listed' => Active(i)') \/ OnItsWay("active", i)'
  <2>1. /\ summary[i] \in {Absent, Cached(row[i])} \/ OnItsWay("summary", i)
        /\ (i \in listed => Active(i)) \/ OnItsWay("active", i)
    BY <1>0 DEF CacheInv, Reconciled
  <2>2. Active(i)' <=> Active(i)
    BY <1>0 DEF Active
  <2> QED
    BY <1>0, <1>5, <1>6, <2>1, <2>2
<1>8. Reconciled'
  BY <1>7 DEF Reconciled
<1>9. ASSUME NEW i \in Items, NEW s \in State \cup {Absent}, Visible(i, s)
      PROVE  Rank(s) <= Rank(Shown(i)')
  BY <1>0, <1>2, <1>5, <1>9, StaysVisible
<1>10. ASSUME NEW i \in Items PROVE Rank(told'[i]) <= Rank(Shown(i)')
  <2>1. Visible(i, told[i]) /\ told[i] \in State \cup {Absent}
    BY <1>0 DEF CacheInv, InOrder, TypeOK, Rows
  <2> QED
    BY <1>0, <1>9, <2>1
<1>11. ASSUME NEW w \in Writers
       PROVE  /\ writer'[w].at = "write" =>
                   \/ sent'[w] = Upsert(writer'[w].item, writer'[w].state)
                   \/ Rank(writer'[w].state) <= Rank(Shown(writer[w].item)')
              /\ writer'[w].at = "publish" =>
                   Rank(writer'[w].state) <= Rank(Shown(writer[w].item)')
  <2> DEFINE i == writer[w].item
             s == writer[w].state
  <2>1. i \in Items /\ s \in State \cup {Absent} /\ w \in Actors
    BY <1>0 DEF TypeOK, WriterState, Actors
  <2>2. Visible(i, s) => Rank(s) <= Rank(Shown(i)')
    BY <1>0, <1>9, <2>1
  <2>3. ASSUME writer[w].at = "write", sent[w] = Upsert(i, s), a = w
        PROVE  Rank(s) <= Rank(Shown(i)')
    <3>1. c = [key |-> "summary", item |-> i, value |-> Cached(s)]
      <4>1. c = sent[w][1]
        BY <1>0, <2>3, Taken DEF c
      <4>2. Upsert(i, s)[1] = [key |-> "summary", item |-> i, value |-> Cached(s)]
        BY <2>1, UpsertPair
      <4> QED
        BY <2>3, <4>1, <4>2
    <3>2. summary'[i] = Cached(row[i]) /\ row' = row
      BY <1>0, <1>5, <2>1, <3>1
    <3>3. Rank(s) <= Rank(row[i]) /\ row[i] \in State \cup {Absent}
      BY <1>0, <2>1, <2>3 DEF BoardInv, NoneAhead, WritersBehind, TypeOK, Rows
    <3> QED
      BY <1>0, <3>2, <3>3, Ranks DEF Shown
  <2>4. a # w => sent'[w] = sent[w]
    BY <1>0, <2>1, Taken
  <2> QED
    BY <1>0, <2>2, <2>3, <2>4 DEF CacheInv, InOrder
<1>12. InOrder'
  BY <1>10, <1>11 DEF InOrder, Visible
<1> QED
  BY <1>8, <1>12

(* A commit makes the cache stale, and its commands are on their way. *)
LEMMA CommitReconciles ==
  ASSUME CacheInv, TypeOK', NEW w \in Writers, NEW i \in Items, Commit(w, i), ~ raced'
  PROVE  Reconciled' /\ InOrder'
<1>0. /\ BoardInv /\ TypeOK /\ ~ raced /\ w \in Actors
      /\ UNCHANGED <<told, summary, listed>>
      /\ sent[w] = <<>>
  BY DEF CacheInv, BoardInv, Commit, Actors
<1>1. PICK s \in State : /\ Advance(i, s) /\ WriteThrough(w, i, s)
                         /\ row'[i] = s /\ \A j \in Items \ {i} : row'[j] = row[j]
                         /\ RowsAdvance
  BY <1>0, CommitMoves
<1>2. /\ sent'[w] = Upsert(i, s) /\ \A b \in Actors \ {w} : sent'[b] = sent[b]
      /\ writer'[w] = [at |-> "write", item |-> i, state |-> s]
      /\ \A v \in Writers \ {w} : writer'[v] = writer[v]
  BY <1>0, <1>1 DEF WriteThrough, TypeOK
<1>3. s \in State \cup {Absent}
  OBVIOUS
<1>4. ASSUME NEW k \in {"summary", "active"} PROVE OnItsWay(k, i)'
  <2>1. /\ 1 \in DOMAIN sent'[w]
        /\ sent'[w][1] = [key |-> "summary", item |-> i, value |-> Cached(s)]
        /\ 2 \in DOMAIN sent'[w]
        /\ sent'[w][2] = [key |-> "active", item |-> i, value |-> Cached(s)]
    BY <1>2, <1>3, UpsertPair
  <2>2. \E n \in DOMAIN sent'[w] : sent'[w][n] = [key |-> k, item |-> i, value |-> Cached(row'[i])]
    BY <1>1, <1>4, <2>1
  <2> QED
    BY <1>0, <2>2 DEF OnItsWay
<1>5. ASSUME NEW j \in Items \ {i}
      PROVE  /\ summary'[j] \in {Absent, Cached(row'[j])} \/ OnItsWay("summary", j)'
             /\ (j \in listed' => Active(j)') \/ OnItsWay("active", j)'
  <2>1. /\ summary[j] \in {Absent, Cached(row[j])} \/ OnItsWay("summary", j)
        /\ (j \in listed => Active(j)) \/ OnItsWay("active", j)
    BY <1>0 DEF CacheInv, Reconciled
  <2>2. OnlyAppends
    BY <1>0, <1>2 DEF OnlyAppends
  <2>3. \A k : OnItsWay(k, j) => OnItsWay(k, j)'
    BY <1>0, <1>1, <2>2, StaysOnItsWay
  <2>4. Active(j)' <=> Active(j)
    BY <1>1 DEF Active
  <2> QED
    BY <1>0, <1>1, <2>1, <2>3, <2>4
<1>6. Reconciled'
  BY <1>4, <1>5 DEF Reconciled
<1>7. ASSUME NEW j \in Items, NEW t \in State \cup {Absent}, Visible(j, t)
      PROVE  Rank(t) <= Rank(Shown(j)')
  BY <1>0, <1>1, <1>7, StaysVisible
<1>8. ASSUME NEW j \in Items PROVE Rank(told'[j]) <= Rank(Shown(j)')
  <2>1. Visible(j, told[j]) /\ told[j] \in State \cup {Absent}
    BY <1>0 DEF CacheInv, InOrder, TypeOK, Rows
  <2> QED
    BY <1>0, <1>7, <2>1
<1>9. ASSUME NEW v \in Writers
      PROVE  /\ writer'[v].at = "write" =>
                  \/ sent'[v] = Upsert(writer'[v].item, writer'[v].state)
                  \/ Rank(writer'[v].state) <= Rank(Shown(writer[v].item)')
             /\ writer'[v].at = "publish" =>
                  Rank(writer'[v].state) <= Rank(Shown(writer[v].item)')
  <2>1. CASE v = w
    BY <1>2, <2>1
  <2>2. CASE v # w
    <3>1. writer'[v] = writer[v] /\ sent'[v] = sent[v]
      BY <1>2, <2>2 DEF Actors
    <3>2. writer[v].item \in Items /\ writer[v].state \in State \cup {Absent}
      BY <1>0 DEF TypeOK, WriterState
    <3>3. Visible(writer[v].item, writer[v].state) =>
            Rank(writer'[v].state) <= Rank(Shown(writer[v].item)')
      BY <1>7, <3>1, <3>2
    <3> QED
      BY <1>0, <3>1, <3>3 DEF CacheInv, InOrder
  <2> QED
    BY <2>1, <2>2
<1>10. InOrder'
  BY <1>8, <1>9 DEF InOrder, Visible
<1> QED
  BY <1>6, <1>10

(* The announcement: it waits for the commands of its commit, and leaves   *)
(* what was visible when they had run.                                     *)
LEMMA AnnouncingKeeps ==
  ASSUME CacheInv, TypeOK', NEW w \in Writers, Written(w) \/ Publish(w) \/ PublishFails(w), ~ raced'
  PROVE  Reconciled' /\ InOrder'
<1> DEFINE i == writer[w].item
           s == writer[w].state
<1>0. /\ TypeOK /\ ~ raced
      /\ UNCHANGED <<row, summary, listed, sent>>
      /\ \A v \in Writers \ {w} : writer'[v] = writer[v]
  <2>1. TypeOK
    BY DEF CacheInv, BoardInv
  <2>2. CASE Written(w)
    BY <2>1, <2>2 DEF Written, TypeOK
  <2>3. CASE Publish(w)
    BY <2>1, <2>3 DEF Publish, TypeOK
  <2>4. CASE PublishFails(w)
    BY <2>1, <2>4 DEF PublishFails, TypeOK
  <2> QED
    BY <2>2, <2>3, <2>4
<1>1. Reconciled'
  BY <1>0 DEF CacheInv, Reconciled, OnItsWay, Active
<1>2. i \in Items /\ s \in State \cup {Absent} /\ w \in Actors
  BY <1>0 DEF TypeOK, WriterState, Actors
<1>3. /\ writer[w].at = "write" /\ sent[w] = <<>> => Visible(i, s)
      /\ writer[w].at = "publish" => Visible(i, s)
  <2>1. Upsert(i, s) # <<>>
    BY DEF Upsert
  <2> QED
    BY <1>0, <1>2, <2>1 DEF CacheInv, InOrder
<1>4. \A j \in Items : \A t : Visible(j, t) => Rank(t) <= Rank(Shown(j)')
  BY <1>0 DEF Visible, Shown
<1>5. ASSUME NEW j \in Items PROVE Rank(told'[j]) <= Rank(Shown(j)')
  <2>1. Visible(j, told[j])
    BY <1>0 DEF CacheInv, InOrder
  <2>2. told' = told \/ (Publish(w) /\ told' = [told EXCEPT ![i] = s])
    BY DEF Written, Publish, PublishFails
  <2>3. Publish(w) => writer[w].at = "publish"
    BY DEF Publish
  <2> QED
    BY <1>0, <1>2, <1>3, <1>4, <2>1, <2>2, <2>3 DEF TypeOK, Rows
<1>6. ASSUME NEW v \in Writers
      PROVE  /\ writer'[v].at = "write" =>
                  \/ sent'[v] = Upsert(writer'[v].item, writer'[v].state)
                  \/ Rank(writer'[v].state) <= Rank(Shown(writer[v].item)')
             /\ writer'[v].at = "publish" =>
                  Rank(writer'[v].state) <= Rank(Shown(writer[v].item)')
  <2>1. CASE v # w
    <3>1. writer'[v] = writer[v] /\ writer[v].item \in Items
      BY <1>0, <2>1 DEF TypeOK, WriterState
    <3>2. Visible(writer[v].item, writer[v].state) =>
            Rank(writer'[v].state) <= Rank(Shown(writer[v].item)')
      BY <1>4, <3>1
    <3> QED
      BY <1>0, <3>1, <3>2 DEF CacheInv, InOrder
  <2>2. CASE v = w /\ Written(w)
    <3>1. /\ writer'[w].at = "publish" /\ writer'[w].item = i /\ writer'[w].state = s
          /\ writer[w].at = "write" /\ sent[w] = <<>>
      BY <1>0, <2>2 DEF Written, TypeOK, WriterState
    <3>2. Rank(s) <= Rank(Shown(writer[w].item)')
      BY <1>2, <1>3, <1>4, <3>1
    <3> QED
      BY <2>2, <3>1, <3>2
  <2>3. CASE v = w /\ (Publish(w) \/ PublishFails(w))
    <3>1. writer'[w] = AtRest
      BY <1>0, <2>3 DEF Publish, PublishFails, TypeOK
    <3> QED
      BY <2>3, <3>1, Shapes
  <2> QED
    BY <2>1, <2>2, <2>3
<1>7. InOrder'
  BY <1>5, <1>6 DEF InOrder, Visible
<1> QED
  BY <1>1, <1>7

(* What a step of a reader leaves alone. *)
LEMMA ReaderMoves ==
  ASSUME TypeOK, NEW q \in Readers
  PROVE  /\ BeginList(q) \/ ServerStep(q) \/ ReadPageFromPostgres(q) =>
              /\ UNCHANGED <<row, told, summary, listed, writer, raced>>
              /\ sent' = sent \/ (sent[q] = <<>> /\ \A b \in Actors \ {q} : sent'[b] = sent[b])
         /\ \A i \in Items : BeginDetail(q, i) \/ BeginExists(q, i) \/ LookUpFails(q, i) =>
              UNCHANGED <<row, told, summary, listed, writer, raced, sent>>
<1>1. BeginList(q) \/ ReadPage(q) \/ Refill(q) \/ Answer(q) \/ ReadPageFromPostgres(q) =>
        UNCHANGED <<row, told, summary, listed, writer, raced, sent>>
  BY Zenon DEF BeginList, ReadPage, Refill, Answer, ReadPageFromPostgres
<1>2. \A i \in Items : BeginDetail(q, i) \/ BeginExists(q, i) \/ LookUpFails(q, i) \/ LookUp(q, i) =>
        UNCHANGED <<row, told, summary, listed, writer, raced, sent>>
  BY Zenon DEF BeginDetail, BeginExists, LookUpFails, LookUp
<1>3. ASSUME NEW i \in Items, Load(q, i) \/ RefillItem(q, i)
      PROVE  /\ UNCHANGED <<row, told, summary, listed, writer, raced>>
             /\ sent' = sent \/ (sent[q] = <<>> /\ \A b \in Actors \ {q} : sent'[b] = sent[b])
  <2>1. /\ UNCHANGED <<row, told, summary, listed, writer, raced>>
        /\ sent[q] = <<>>
        /\ \/ sent' = sent
           \/ sent' = [sent EXCEPT ![q] = Upsert(i, row[i])]
           \/ sent' = [sent EXCEPT ![q] = Upsert(i, reader[q].found[i])]
    BY <1>3, Zenon DEF Load, Fill, RefillItem
  <2> QED
    BY <2>1 DEF TypeOK
<1> QED
  BY <1>1, <1>2, <1>3, Zenon DEF ServerStep

LEMMA ReaderReconciles ==
  ASSUME CacheInv, TypeOK', NEW q \in Readers
  PROVE  /\ BeginList(q) \/ ServerStep(q) \/ ReadPageFromPostgres(q) => Reconciled' /\ InOrder'
         /\ \A i \in Items : BeginDetail(q, i) \/ BeginExists(q, i) \/ LookUpFails(q, i)
                               => Reconciled' /\ InOrder'
<1>0. TypeOK /\ Writers \cap Readers = {}
  BY CacheAssumption DEF CacheInv, BoardInv
<1>1. ASSUME UNCHANGED <<row, told, summary, listed, writer, raced>>,
             sent' = sent \/ (sent[q] = <<>> /\ \A b \in Actors \ {q} : sent'[b] = sent[b])
      PROVE  Reconciled' /\ InOrder'
  <2>1. OnlyAppends
    BY <1>1 DEF OnlyAppends
  <2>2. \A w \in Writers : sent'[w] = sent[w]
    BY <1>0, <1>1 DEF Actors
  <2> QED
    BY <1>1, <2>1, <2>2, OthersMove
<1> QED
  BY <1>0, <1>1, ReaderMoves

LEMMA NextReconciles ==
  ASSUME CacheInv, TypeOK', Next, ~ raced'
  PROVE  Reconciled' /\ InOrder'
<1>0. TypeOK
  BY DEF CacheInv, BoardInv
<1>1. ASSUME NEW i \in Items, Expire(i) PROVE Reconciled' /\ InOrder'
  <2>1. /\ UNCHANGED <<row, told, listed, writer, raced, sent>>
        /\ \A j \in Items : summary'[j] \in {summary[j], Absent}
    BY <1>0, <1>1 DEF Expire, TypeOK
  <2>2. OnlyAppends
    BY <2>1 DEF OnlyAppends
  <2> QED
    BY <2>1, <2>2, OthersMove
<1>2. ASSUME NEW w \in Writers, NEW i \in Items, Count(w, i) PROVE Reconciled' /\ InOrder'
  <2>1. /\ UNCHANGED <<row, told, summary, listed, writer, raced>>
        /\ writer[w].at = "idle" /\ sent[w] = <<>>
        /\ \A b \in Actors \ {w} : sent'[b] = sent[b]
    BY <1>0, <1>2 DEF Count, TypeOK
  <2>2. OnlyAppends
    BY <2>1 DEF OnlyAppends
  <2>3. \A v \in Writers : writer[v].at # "idle" => sent'[v] = sent[v]
    BY <2>1 DEF Actors
  <2> QED
    BY <2>1, <2>2, <2>3, OthersMove
<1>3. Flush \/ (\E a \in Actors : LoseCommand(a)) \/ (\E w \in Writers : CrashWriter(w)) => raced'
  BY Zenon DEF Flush, LoseCommand, CrashWriter
<1> QED
  BY <1>1, <1>2, <1>3, ExecuteReconciles, CommitReconciles, AnnouncingKeeps, ReaderReconciles
     DEF Next, Failure

LEMMA CacheInductive == Spec => []CacheInv
<1>1. Init => CacheInv
  <2> SUFFICES ASSUME Init PROVE CacheInv
    OBVIOUS
  <2>1. BoardInv
    BY InitTypes, InitBehind DEF BoardInv
  <2>2. ASSUME NEW i \in Items
        PROVE  /\ summary[i] \in {Absent, Cached(row[i])}
               /\ i \in listed => Active(i)
               /\ Visible(i, told[i])
    <3>1. summary[i] = Snapshot[i] /\ told[i] = row[i] /\ listed = ActiveItems
      BY Zenon DEF Init
    <3>2. /\ Snapshot[i] = Cached(row[i]) /\ row[i] \in State \cup {Absent}
          /\ Rank(row[i]) \in Nat
      BY <2>1, SnapshotOfRows, RanksAreNumbers DEF BoardInv, TypeOK, Rows, Numbered
    <3>3. Cached(row[i]) # Absent => Cached(row[i]) = row[i]
      BY <3>2, Ranks
    <3>4. Visible(i, told[i])
      BY <3>1, <3>2, <3>3 DEF Visible, Shown
    <3> QED
      BY <3>1, <3>2, <3>4 DEF ActiveItems
  <2>3. Reconciled
    BY <2>2, Zenon DEF Reconciled
  <2>4. \A w \in Writers : writer[w].at = "idle"
    <3>1. \A w \in Writers : writer[w] = AtRest
      BY Zenon DEF Init
    <3> QED
      BY <3>1, Shapes
  <2>5. InOrder
    BY <2>2, <2>4 DEF InOrder
  <2> QED
    BY <2>1, <2>3, <2>5 DEF CacheInv
<1>2. CacheInv /\ [Next]_vars => CacheInv'
  <2> SUFFICES ASSUME CacheInv, [Next]_vars PROVE CacheInv'
    OBVIOUS
  <2>1. BoardInv' /\ TypeOK'
    BY NextBehind DEF CacheInv, BoardInv
  <2>2. CASE UNCHANGED vars
    BY <2>1, <2>2 DEF vars, CacheInv, Reconciled, InOrder, OnItsWay, Active, Visible, Shown
  <2>3. CASE Next
    BY <2>1, <2>3, NextReconciles DEF CacheInv, Reconciled, InOrder
  <2> QED
    BY <2>2, <2>3
<1> QED
  BY <1>1, <1>2, PTL DEF Spec

(* While no write was lost or raced, an item for which no command is on    *)
(* its way is cached as its row is, and is not listed once closed.         *)
THEOREM CacheAgrees == Spec => []QuietCacheAgrees
<1>1. CacheInv => QuietCacheAgrees
  <2> SUFFICES ASSUME CacheInv, ~ raced, NEW i \in Items, Quiet(i)
               PROVE  /\ summary[i] \in {Absent, Cached(row[i])}
                      /\ i \in listed => Active(i)
    BY DEF QuietCacheAgrees
  <2>1. \A k : ~ OnItsWay(k, i)
    BY DEF OnItsWay, Quiet
  <2> QED
    BY <2>1 DEF CacheInv, Reconciled
<1> QED
  BY <1>1, CacheInductive, PTL

(* No event overtakes the cache: who asks again because of it is shown the *)
(* announced state or a later one.                                         *)
THEOREM CacheBeforeEvents == Spec => []EventsFollowCache
<1>1. CacheInv => EventsFollowCache
  BY Zenon DEF CacheInv, InOrder, EventsFollowCache, Visible
<1> QED
  BY <1>1, CacheInductive, PTL

=============================================================================
