------------------------- MODULE SignalBufferProofs -------------------------
(* Proofs about SignalBuffer for every capacity, watermark, ceiling, batch *)
(* size, set of shutdown hooks and number of signals.                      *)
EXTENDS SignalBuffer, SumTheorems, FiniteSetTheorems, SequenceTheorems, TLAPS

-----------------------------------------------------------------------------
(* The lanes as data.                                                      *)

Lanes == [Severity -> Seq(Signal)]

(* The size of a set of lanes is a natural number. *)
LEMMA SizeType == ASSUME NEW q \in Lanes
                  PROVE  /\ \A s \in Severity : q[s] \in Seq(Signal) /\ Len(q[s]) \in Nat
                         /\ Size(q) \in Nat
  BY DEF Lanes, Size, Severity

(* popBatch takes no more from a lane than it holds. *)
LEMMA TakeType == ASSUME NEW q \in Lanes, NEW s \in Severity
                  PROVE  Take(q, s) \in 0..Len(q[s])
  <1>1. Ahead(q, s) \in Nat
    <2>1. Len(q[0]) \in Nat /\ Len(q[1]) \in Nat /\ Len(q[2]) \in Nat
      BY SizeType DEF Severity
    <2>2. s = 0 \/ s = 1 \/ s = 2 \/ s = 3
      BY DEF Severity
    <2> QED
      BY <2>1, <2>2 DEF Ahead, Lanes, Severity
  <1>2. BatchSize \in Nat
    BY BufferAssumption
  <1> QED
    BY <1>1, <1>2, SizeType DEF Take

(* What stays behind a pop are lanes again, each as long as what was not   *)
(* taken from it.                                                          *)
LEMMA RestType == ASSUME NEW q \in Lanes
                  PROVE  /\ Rest(q) \in Lanes
                         /\ \A s \in Severity : Len(Rest(q)[s]) = Len(q[s]) - Take(q, s)
  <1>1. ASSUME NEW s \in Severity
        PROVE  /\ SubSeq(q[s], Take(q, s) + 1, Len(q[s])) \in Seq(Signal)
               /\ Len(SubSeq(q[s], Take(q, s) + 1, Len(q[s]))) = Len(q[s]) - Take(q, s)
    <2>1. q[s] \in Seq(Signal) /\ Len(q[s]) \in Nat /\ Take(q, s) \in 0..Len(q[s])
      BY SizeType, TakeType
    <2> QED
      BY <2>1, SubSeqProperties
  <1> QED
    BY <1>1 DEF Rest, Lanes

(* The popped batch is a sequence of signals. *)
LEMMA BatchType == ASSUME NEW q \in Lanes
                   PROVE  BatchOf(q) \in Seq(Signal)
  <1>1. ASSUME NEW s \in Severity
        PROVE  SubSeq(q[s], 1, Take(q, s)) \in Seq(Signal)
    <2>1. q[s] \in Seq(Signal) /\ Len(q[s]) \in Nat /\ Take(q, s) \in 0..Len(q[s])
      BY SizeType, TakeType
    <2> QED
      BY <2>1, SubSeqProperties
  <1>2. 0 \in Severity /\ 1 \in Severity /\ 2 \in Severity /\ 3 \in Severity
    BY DEF Severity
  <1> QED
    BY <1>1, <1>2, ConcatProperties DEF BatchOf

(* Lanes no longer than others hold no more than they do. *)
LEMMA SizeMonotone == ASSUME NEW q \in Lanes, NEW r \in Lanes,
                             \A s \in Severity : Len(r[s]) <= Len(q[s])
                      PROVE  Size(r) <= Size(q)
  BY SizeType DEF Size, Lanes, Severity

(* A pop never lets the buffer grow. *)
LEMMA RestSize == ASSUME NEW q \in Lanes
                  PROVE  Size(Rest(q)) \in Nat /\ Size(Rest(q)) <= Size(q)
  <1>1. Rest(q) \in Lanes
    BY RestType
  <1>2. \A s \in Severity : Len(Rest(q)[s]) <= Len(q[s])
    BY SizeType, TakeType, RestType
  <1> QED
    BY <1>1, <1>2, SizeType, SizeMonotone

(* Replacing one lane changes the size by the difference of its lengths. *)
LEMMA ReplaceLane ==
  ASSUME NEW q \in Lanes, NEW s \in Severity, NEW l \in Seq(Signal)
  PROVE  /\ [q EXCEPT ![s] = l] \in Lanes
         /\ [q EXCEPT ![s] = l][s] = l
         /\ \A t \in Severity \ {s} : [q EXCEPT ![s] = l][t] = q[t]
         /\ Size([q EXCEPT ![s] = l]) = Size(q) - Len(q[s]) + Len(l)
  <1> DEFINE p == [q EXCEPT ![s] = l]
  <1>1. p \in Lanes /\ p[s] = l /\ \A t \in Severity \ {s} : p[t] = q[t]
    BY DEF Lanes
  <1>2. Size(p) = Size(q) - Len(q[s]) + Len(l)
    <2>1. Len(l) \in Nat
      OBVIOUS
    <2>2. s = 0 \/ s = 1 \/ s = 2 \/ s = 3
      BY DEF Severity
    <2> HIDE DEF p
    <2>3. CASE s = 0
      <3>1. p[1] = q[1] /\ p[2] = q[2] /\ p[3] = q[3] /\ p[0] = l
        BY <1>1, <2>3 DEF Severity
      <3> QED
        BY <1>1, <2>1, <2>3, <3>1 DEF Size, Lanes, Severity
    <2>4. CASE s = 1
      <3>1. p[0] = q[0] /\ p[2] = q[2] /\ p[3] = q[3] /\ p[1] = l
        BY <1>1, <2>4 DEF Severity
      <3> QED
        BY <1>1, <2>1, <2>4, <3>1 DEF Size, Lanes, Severity
    <2>5. CASE s = 2
      <3>1. p[0] = q[0] /\ p[1] = q[1] /\ p[3] = q[3] /\ p[2] = l
        BY <1>1, <2>5 DEF Severity
      <3> QED
        BY <1>1, <2>1, <2>5, <3>1 DEF Size, Lanes, Severity
    <2>6. CASE s = 3
      <3>1. p[0] = q[0] /\ p[1] = q[1] /\ p[2] = q[2] /\ p[3] = l
        BY <1>1, <2>6 DEF Severity
      <3> QED
        BY <1>1, <2>1, <2>6, <3>1 DEF Size, Lanes, Severity
    <2> QED
      BY <2>2, <2>3, <2>4, <2>5, <2>6
  <1> QED
    BY <1>1, <1>2

(* Growing one lane by one signal grows the buffer by one. *)
LEMMA AppendSize ==
  ASSUME NEW q \in Lanes, NEW s \in Severity, NEW x \in Signal
  PROVE  /\ [q EXCEPT ![s] = Append(@, x)] \in Lanes
         /\ Size([q EXCEPT ![s] = Append(@, x)]) = Size(q) + 1
         /\ \A t \in Severity \ {s} : [q EXCEPT ![s] = Append(@, x)][t] = q[t]
  <1>1. q[s] \in Seq(Signal) /\ Append(q[s], x) \in Seq(Signal)
        /\ Len(Append(q[s], x)) = Len(q[s]) + 1
    BY DEF Lanes
  <1>2. Len(q[s]) \in Nat /\ Size(q) \in Nat
    BY SizeType
  <1> DEFINE l == Append(q[s], x)
  <1>3. l \in Seq(Signal)
    BY <1>1
  <1> HIDE DEF l
  <1>4. /\ [q EXCEPT ![s] = l] \in Lanes
        /\ [q EXCEPT ![s] = l][s] = l
        /\ \A t \in Severity \ {s} : [q EXCEPT ![s] = l][t] = q[t]
        /\ Size([q EXCEPT ![s] = l]) = Size(q) - Len(q[s]) + Len(l)
    BY <1>3, ReplaceLane
  <1> QED
    BY <1>1, <1>2, <1>4 DEF l, Lanes

(* Removing the oldest signal of a lane shrinks the buffer by one. *)
LEMMA TailSize ==
  ASSUME NEW q \in Lanes, NEW s \in Severity, q[s] # <<>>
  PROVE  /\ [q EXCEPT ![s] = Tail(@)] \in Lanes
         /\ Size([q EXCEPT ![s] = Tail(@)]) = Size(q) - 1
         /\ Len([q EXCEPT ![s] = Tail(@)][s]) = Len(q[s]) - 1
         /\ \A t \in Severity \ {s} : [q EXCEPT ![s] = Tail(@)][t] = q[t]
  <1>1. q[s] \in Seq(Signal) /\ Tail(q[s]) \in Seq(Signal)
        /\ Len(Tail(q[s])) = Len(q[s]) - 1
    BY DEF Lanes
  <1>2. Len(q[s]) \in Nat /\ Size(q) \in Nat
    BY SizeType
  <1> DEFINE l == Tail(q[s])
  <1>3. l \in Seq(Signal)
    BY <1>1
  <1> HIDE DEF l
  <1>4. /\ [q EXCEPT ![s] = l] \in Lanes
        /\ [q EXCEPT ![s] = l][s] = l
        /\ \A t \in Severity \ {s} : [q EXCEPT ![s] = l][t] = q[t]
        /\ Size([q EXCEPT ![s] = l]) = Size(q) - Len(q[s]) + Len(l)
    BY <1>3, ReplaceLane
  <1> QED
    BY <1>1, <1>2, <1>4 DEF l, Lanes

(* recomputeState leaves a state that fits the size. *)
FitsMarks(st, size) == /\ st \in {"normal", "shedding"}
                       /\ size >= HighMark => st = "shedding"
                       /\ size <= LowMark  => st = "normal"

(* What recomputeState decides fits the size it was given. *)
LEMMA RecomputeFits == ASSUME NEW st \in {"normal", "shedding"}, NEW size \in Nat
                       PROVE  FitsMarks(Recompute(st, size), size)
  BY BufferAssumption DEF Recompute, FitsMarks

-----------------------------------------------------------------------------
(* Type correctness.                                                       *)

(* A counted drop keeps the counters' type. *)
LEMMA DroppingType ==
  ASSUME dropped \in [Severity -> [Reason -> Nat]],
         NEW s \in Severity, NEW r \in Reason
  PROVE  Dropping(s, r, 1) \in [Severity -> [Reason -> Nat]]
  BY DEF Dropping

(* How many signals of one severity a batch holds is a natural number. *)
LEMMA CountType == ASSUME NEW b \in Seq(Signal), NEW s
                   PROVE  CountOf(b, s) \in Nat
  <1>1. DOMAIN b = 1..Len(b) /\ Len(b) \in Nat
    OBVIOUS
  <1>2. IsFiniteSet(1..Len(b))
    BY <1>1, FS_Interval
  <1>3. IsFiniteSet({i \in DOMAIN b : b[i].sev = s})
    BY <1>1, <1>2, FS_Subset
  <1> QED
    BY <1>3, FS_CardinalityType DEF CountOf

(* What a submit pushes is a signal. *)
LEMMA PushType ==
  ASSUME TypeOK, NEW q \in Lanes, NEW s \in Severity, Push(q, s)
  PROVE  /\ lane' \in Lanes
         /\ Size(lane') = Size(q) + 1
         /\ \A t \in Severity \ {s} : lane'[t] = q[t]
         /\ state' = Recompute(state, Size(q) + 1)
         /\ Size(q) + 1 \in Nat
  <1> DEFINE x == [sev |-> s, id |-> arrived + 1]
  <1>1. x \in Signal
    BY DEF TypeOK, Signal
  <1>2. lane' = [q EXCEPT ![s] = Append(@, x)] /\ state' = Recompute(state, Size(q) + 1)
    BY DEF Push
  <1> HIDE DEF x
  <1> DEFINE p == [q EXCEPT ![s] = Append(@, x)]
  <1>3. p \in Lanes /\ Size(p) = Size(q) + 1 /\ \A t \in Severity \ {s} : p[t] = q[t]
    BY <1>1, AppendSize
  <1>4. lane' = p
    BY <1>2
  <1>5. Size(q) \in Nat
    BY SizeType
  <1>6. Size(q) + 1 \in Nat
    BY <1>5
  <1>7. state' = Recompute(state, Size(q) + 1)
    BY <1>2
  <1> HIDE DEF p
  <1>8. /\ lane' \in Lanes
        /\ Size(lane') = Size(q) + 1
        /\ \A t \in Severity \ {s} : lane'[t] = q[t]
    BY <1>3, <1>4
  <1> QED
    BY <1>6, <1>7, <1>8

(* The submits: what they do to the lanes and the counters. *)
LEMMA SubmitType ==
  ASSUME TypeOK, NEW s \in Severity, Submit(s)
  PROVE  /\ lane' \in Lanes
         /\ dropped' \in [Severity -> [Reason -> Nat]]
         /\ arrived' \in Nat
         /\ UNCHANGED drainVars
         /\ \/ UNCHANGED <<lane, state>>
            \/ state' = Recompute(state, Size(lane'))
  <1> USE DEF TypeOK
  <1>0. lane \in Lanes
    BY DEF Lanes
  <1>1. CASE SubmitShed(s)
    BY <1>0, <1>1, DroppingType DEF SubmitShed, Arrive, Reason
  <1>2. CASE SubmitFull(s)
    BY <1>0, <1>2, DroppingType DEF SubmitFull, Arrive, Reason
  <1>3. CASE SubmitAccepted(s)
    <2>1. Push(lane, s)
      BY <1>3 DEF SubmitAccepted
    <2>2. lane' \in Lanes /\ state' = Recompute(state, Size(lane'))
      BY <1>0, <2>1, PushType
    <2> QED
      BY <1>3, <2>2 DEF SubmitAccepted, Arrive
  <1>4. CASE SubmitEvicting
    <2>1. PICK v \in Severity : /\ IsVictimLane(lane, v)
                                /\ dropped' = Dropping(v, "hard_capacity", 1)
                                /\ Push([lane EXCEPT ![v] = Tail(@)], 0)
      BY <1>4 DEF SubmitEvicting
    <2>2. [lane EXCEPT ![v] = Tail(@)] \in Lanes
      BY <1>0, <2>1, TailSize DEF IsVictimLane
    <2>3. lane' \in Lanes /\ state' = Recompute(state, Size(lane'))
      BY <2>1, <2>2, PushType DEF Severity
    <2> QED
      BY <1>4, <2>1, <2>3, DroppingType DEF SubmitEvicting, Arrive, Reason
  <1> QED
    BY <1>1, <1>2, <1>3, <1>4 DEF Submit

(* The pop of a batch: what it does to the lanes. *)
LEMMA StartDrainType ==
  ASSUME TypeOK, NEW d \in Drainers, StartDrain(d)
  PROVE  /\ lane' \in Lanes
         /\ Size(lane') \in Nat /\ Size(lane') <= Size(lane)
         /\ \A s \in Severity : Len(lane'[s]) <= Len(lane[s])
         /\ inFlight' \in [Drainers -> Seq(Signal)]
         /\ state' = Recompute(state, Size(lane'))
         /\ UNCHANGED <<dropped, arrived, delivered>>
  <1>0. lane \in Lanes
    BY DEF Lanes, TypeOK
  <1>1. lane' = Rest(lane) /\ inFlight' = [inFlight EXCEPT ![d] = BatchOf(lane)]
    BY DEF StartDrain
  <1>2. BatchOf(lane) \in Seq(Signal)
    BY <1>0, BatchType
  <1>3. \A s \in Severity : Len(Rest(lane)[s]) <= Len(lane[s])
    BY <1>0, RestType, SizeType, TakeType
  <1>4. inFlight' \in [Drainers -> Seq(Signal)]
    BY <1>1, <1>2 DEF TypeOK
  <1> QED
    BY <1>0, <1>1, <1>3, <1>4, RestType, RestSize DEF StartDrain

(* Type correctness of every submit, pop, sink outcome and shutdown step. *)
THEOREM TypeCorrect == Spec => []TypeOK
  <1>1. Init => TypeOK
    BY DEF Init, TypeOK
  <1>2. TypeOK /\ [Next]_vars => TypeOK'
    <2> SUFFICES ASSUME TypeOK, [Next]_vars PROVE TypeOK'
      OBVIOUS
    <2>1. ASSUME NEW s \in Severity, Submit(s) PROVE TypeOK'
      <3>1. lane' \in Lanes /\ dropped' \in [Severity -> [Reason -> Nat]] /\ arrived' \in Nat
            /\ UNCHANGED drainVars /\ (state' = state \/ state' = Recompute(state, Size(lane')))
        BY <2>1, SubmitType
      <3>2. state' \in {"normal", "shedding"}
        BY <3>1, SizeType, RecomputeFits DEF FitsMarks, TypeOK
      <3> QED
        BY <3>1, <3>2 DEF TypeOK, Lanes, drainVars
    <2>2. CASE DrainTick
      <3>1. Tick \in Drainers /\ StartDrain(Tick)
        BY <2>2 DEF DrainTick, Drainers
      <3>2. lane' \in Lanes /\ inFlight' \in [Drainers -> Seq(Signal)]
            /\ state' = Recompute(state, Size(lane')) /\ Size(lane') \in Nat
        BY <3>1, StartDrainType
      <3>3. state' \in {"normal", "shedding"}
        BY <3>2, RecomputeFits DEF FitsMarks, TypeOK
      <3> QED
        BY <2>2, <3>2, <3>3 DEF DrainTick, StartDrain, TypeOK, Lanes
    <2>3. ASSUME NEW d \in Drainers, SinkSucceeds(d) PROVE TypeOK'
      BY <2>3 DEF SinkSucceeds, TypeOK
    <2>4. ASSUME NEW d \in Drainers, SinkFails(d) PROVE TypeOK'
      <3>1. \A s \in Severity : CountOf(inFlight[d], s) \in Nat
        BY CountType DEF TypeOK
      <3>2. dropped' \in [Severity -> [Reason -> Nat]]
        BY <2>4, <3>1 DEF SinkFails, TypeOK, Reason
      <3> QED
        BY <2>4, <3>2 DEF SinkFails, TypeOK
    <2>5. ASSUME NEW h \in Hooks, BeginShutdown(h) PROVE TypeOK'
      BY <2>5 DEF BeginShutdown, TypeOK
    <2>6. ASSUME NEW h \in Hooks, DrainAllStep(h) PROVE TypeOK'
      <3>1. h \in Drainers /\ StartDrain(h)
        BY <2>6 DEF DrainAllStep, Drainers
      <3>2. lane' \in Lanes /\ inFlight' \in [Drainers -> Seq(Signal)]
            /\ state' = Recompute(state, Size(lane')) /\ Size(lane') \in Nat
        BY <3>1, StartDrainType
      <3>3. state' \in {"normal", "shedding"}
        BY <3>2, RecomputeFits DEF FitsMarks, TypeOK
      <3> QED
        BY <2>6, <3>2, <3>3 DEF DrainAllStep, StartDrain, TypeOK, Lanes
    <2>7. ASSUME NEW h \in Hooks, DrainAllReturns(h) PROVE TypeOK'
      BY <2>7 DEF DrainAllReturns, TypeOK
    <2>8. ASSUME NEW h \in Hooks, DeadlinePasses(h) PROVE TypeOK'
      BY <2>8 DEF DeadlinePasses, TypeOK
    <2>9. CASE UNCHANGED vars
      BY <2>9 DEF vars, TypeOK
    <2> QED
      BY <2>1, <2>2, <2>3, <2>4, <2>5, <2>6, <2>7, <2>8, <2>9 DEF Next
  <1> QED
    BY <1>1, <1>2, PTL DEF Spec

-----------------------------------------------------------------------------
(* The buffer's bounds.                                                    *)

(* The bounds are inductive together with the types: a submit that adds a  *)
(* signal found room or made it, and every change of the size recomputes   *)
(* the state.                                                              *)
IInv == TypeOK /\ CapacityBound /\ WatermarkState

(* Every submit stays within the capacity. *)
LEMMA SubmitCapacity ==
  ASSUME IInv, NEW s \in Severity, Submit(s)
  PROVE  Size(lane') <= Capacity
  <1>0. lane \in Lanes /\ Size(lane) \in Nat /\ Capacity \in Nat /\ Size(lane) <= Capacity
    BY SizeType, BufferAssumption DEF IInv, TypeOK, Lanes, CapacityBound
  <1>1. CASE SubmitShed(s) \/ SubmitFull(s)
    BY <1>0, <1>1 DEF SubmitShed, SubmitFull
  <1>2. CASE SubmitAccepted(s)
    <2>1. Push(lane, s) /\ Size(lane) < Capacity
      BY <1>2 DEF SubmitAccepted
    <2>2. Size(lane') = Size(lane) + 1
      BY <1>0, <2>1, PushType DEF IInv
    <2> QED
      BY <1>0, <2>1, <2>2
  <1>3. CASE SubmitEvicting
    <2>1. PICK v \in Severity : /\ IsVictimLane(lane, v)
                                /\ Push([lane EXCEPT ![v] = Tail(@)], 0)
      BY <1>3 DEF SubmitEvicting
    <2> DEFINE q == [lane EXCEPT ![v] = Tail(@)]
    <2>2. q \in Lanes /\ Size(q) = Size(lane) - 1
      BY <1>0, <2>1, TailSize DEF IsVictimLane
    <2>3. Push(q, 0)
      BY <2>1
    <2> HIDE DEF q
    <2>4. Size(lane') = Size(q) + 1
      BY <2>2, <2>3, PushType DEF IInv, Severity
    <2> QED
      BY <1>0, <2>2, <2>4
  <1> QED
    BY <1>1, <1>2, <1>3 DEF Submit

(* Neither does the hysteresis break, nor the capacity bound, on a pop. *)
LEMMA DrainKeepsBounds ==
  ASSUME IInv, NEW d \in Drainers, StartDrain(d)
  PROVE  CapacityBound' /\ WatermarkState'
  <1>1. /\ Size(lane') \in Nat /\ Size(lane') <= Size(lane)
        /\ state' = Recompute(state, Size(lane'))
    BY StartDrainType DEF IInv
  <1>2. Size(lane) \in Nat /\ Size(lane) <= Capacity /\ Capacity \in Nat
    BY SizeType, BufferAssumption DEF IInv, TypeOK, Lanes, CapacityBound
  <1>3. CapacityBound'
    BY <1>1, <1>2 DEF CapacityBound
  <1>4. FitsMarks(state', Size(lane'))
    BY <1>1, RecomputeFits DEF IInv, TypeOK
  <1> QED
    BY <1>3, <1>4 DEF FitsMarks, WatermarkState

(* The inductive invariant: types, the shared capacity, the watermarks. *)
THEOREM BoundsInductive == Spec => []IInv
  <1>1. Init => IInv
    <2> SUFFICES ASSUME Init PROVE IInv
      OBVIOUS
    <2>1. TypeOK
      BY DEF Init, TypeOK
    <2>2. Size(lane) = 0
      <3>1. Len(<<>>) = 0
        OBVIOUS
      <3>2. lane[0] = <<>> /\ lane[1] = <<>> /\ lane[2] = <<>> /\ lane[3] = <<>>
        BY DEF Init, Severity
      <3> QED
        BY <3>1, <3>2 DEF Size
    <2> QED
      BY <2>1, <2>2, BufferAssumption DEF Init, IInv, CapacityBound, WatermarkState
  <1>2. IInv /\ TypeOK' /\ [Next]_vars => IInv'
    <2> SUFFICES ASSUME IInv, TypeOK', [Next]_vars PROVE CapacityBound' /\ WatermarkState'
      BY DEF IInv
    <2>1. ASSUME NEW s \in Severity, Submit(s) PROVE CapacityBound' /\ WatermarkState'
      <3>1. CapacityBound'
        BY <2>1, SubmitCapacity DEF CapacityBound
      <3>2. CASE UNCHANGED <<lane, state>>
        BY <3>2 DEF IInv, CapacityBound, WatermarkState
      <3>3. CASE state' = Recompute(state, Size(lane'))
        <4>1. Size(lane') \in Nat
          BY SizeType DEF TypeOK, Lanes
        <4>2. FitsMarks(state', Size(lane'))
          BY <3>3, <4>1, RecomputeFits DEF IInv, TypeOK
        <4> QED
          BY <3>1, <4>2 DEF FitsMarks, WatermarkState
      <3> QED
        BY <2>1, <3>1, <3>2, <3>3, SubmitType DEF IInv
    <2>2. CASE DrainTick
      <3>1. Tick \in Drainers /\ StartDrain(Tick)
        BY <2>2 DEF DrainTick, Drainers
      <3> QED
        BY <3>1, DrainKeepsBounds
    <2>3. ASSUME NEW h \in Hooks, DrainAllStep(h) PROVE CapacityBound' /\ WatermarkState'
      <3>1. h \in Drainers /\ StartDrain(h)
        BY <2>3 DEF DrainAllStep, Drainers
      <3> QED
        BY <3>1, DrainKeepsBounds
    <2>4. CASE UNCHANGED <<lane, state>>
      BY <2>4 DEF IInv, CapacityBound, WatermarkState
    <2>5. ASSUME NEW d \in Drainers, SinkSucceeds(d) \/ SinkFails(d)
          PROVE  UNCHANGED <<lane, state>>
      BY <2>5 DEF SinkSucceeds, SinkFails
    <2>6. ASSUME NEW h \in Hooks, BeginShutdown(h) \/ DrainAllReturns(h) \/ DeadlinePasses(h)
          PROVE  UNCHANGED <<lane, state>>
      BY <2>6 DEF BeginShutdown, DrainAllReturns, DeadlinePasses
    <2>7. CASE UNCHANGED vars
      BY <2>4, <2>7 DEF vars
    <2> QED
      BY <2>1, <2>2, <2>3, <2>4, <2>5, <2>6, <2>7 DEF Next
  <1> QED
    BY <1>1, <1>2, TypeCorrect, PTL DEF Spec

(* The shared capacity is never exceeded. *)
THEOREM CapacityHolds == Spec => []CapacityBound
  BY BoundsInductive, PTL DEF IInv

(* The state agrees with the watermarks whenever no step is under way. *)
THEOREM WatermarksHold == Spec => []WatermarkState
  BY BoundsInductive, PTL DEF IInv

-----------------------------------------------------------------------------
(* What a step may not do.                                                 *)

(* A step of the buffer is a submit, a pop, or leaves the lanes alone. *)
LEMMA LaneSteps ==
  ASSUME [Next]_vars
  PROVE  \/ \E s \in Severity : Submit(s)
         \/ \E d \in Drainers : StartDrain(d)
         \/ UNCHANGED <<lane, state>>
  <1>1. ASSUME NEW d \in Drainers, SinkSucceeds(d) \/ SinkFails(d)
        PROVE  UNCHANGED <<lane, state>>
    BY <1>1 DEF SinkSucceeds, SinkFails
  <1>2. ASSUME NEW h \in Hooks, BeginShutdown(h) \/ DrainAllReturns(h) \/ DeadlinePasses(h)
        PROVE  UNCHANGED <<lane, state>>
    BY <1>2 DEF BeginShutdown, DrainAllReturns, DeadlinePasses
  <1>3. ASSUME NEW h \in Hooks, DrainAllStep(h)
        PROVE  h \in Drainers /\ StartDrain(h)
    BY <1>3 DEF DrainAllStep, Drainers
  <1>4. CASE DrainTick
    BY <1>4 DEF DrainTick, Drainers
  <1>5. CASE UNCHANGED vars
    BY <1>5 DEF vars
  <1> QED
    BY <1>1, <1>2, <1>3, <1>4, <1>5 DEF Next

(* While shedding, no step lets a lane at or above its ceiling grow: not   *)
(* the submit of that severity, which is refused, and not an eviction,     *)
(* which pushes a P0 only.                                                 *)
THEOREM CeilingsHold == Spec => CeilingHolds
  <1> DEFINE NoGrowth == \A s \in Sheddable :
                           state = "shedding" /\ Len(lane[s]) >= Ceiling[s]
                             => Len(lane'[s]) <= Len(lane[s])
  <1>1. IInv /\ [Next]_vars => NoGrowth
    <2> SUFFICES ASSUME IInv, [Next]_vars, NEW s \in Sheddable,
                        state = "shedding", Len(lane[s]) >= Ceiling[s]
                 PROVE  Len(lane'[s]) <= Len(lane[s])
      OBVIOUS
    <2>0. s \in Severity /\ s # 0 /\ lane \in Lanes /\ Len(lane[s]) \in Nat /\ OverCeiling(s)
      BY SizeType DEF Sheddable, Severity, IInv, TypeOK, Lanes, OverCeiling
    <2>1. CASE UNCHANGED <<lane, state>>
      BY <2>0, <2>1
    <2>2. ASSUME NEW d \in Drainers, StartDrain(d) PROVE Len(lane'[s]) <= Len(lane[s])
      BY <2>0, <2>2, StartDrainType DEF IInv
    <2>3. ASSUME NEW t \in Severity, Submit(t) PROVE Len(lane'[s]) <= Len(lane[s])
      <3>1. CASE SubmitShed(t) \/ SubmitFull(t)
        BY <2>0, <3>1 DEF SubmitShed, SubmitFull
      <3>2. CASE SubmitAccepted(t)
        <4>1. t # s /\ Push(lane, t)
          BY <2>0, <3>2 DEF SubmitAccepted
        <4>2. lane'[s] = lane[s]
          BY <2>0, <4>1, PushType DEF IInv
        <4> QED
          BY <2>0, <4>2
      <3>3. CASE SubmitEvicting
        <4>1. PICK v \in Severity : /\ IsVictimLane(lane, v)
                                    /\ Push([lane EXCEPT ![v] = Tail(@)], 0)
          BY <3>3 DEF SubmitEvicting
        <4> DEFINE q == [lane EXCEPT ![v] = Tail(@)]
        <4>2. /\ q \in Lanes
              /\ Len(q[v]) = Len(lane[v]) - 1
              /\ \A u \in Severity \ {v} : q[u] = lane[u]
          BY <2>0, <4>1, TailSize DEF IsVictimLane
        <4>3. Push(q, 0)
          BY <4>1
        <4> HIDE DEF q
        <4>4. lane'[s] = q[s]
          BY <2>0, <4>2, <4>3, PushType DEF IInv, Severity
        <4>5. CASE s = v
          BY <2>0, <4>2, <4>4, <4>5
        <4>6. CASE s # v
          BY <2>0, <4>2, <4>4, <4>6
        <4> QED
          BY <4>5, <4>6
      <3> QED
        BY <2>3, <3>1, <3>2, <3>3 DEF Submit
    <2> QED
      BY <2>1, <2>2, <2>3, LaneSteps
  <1>2. [][NoGrowth]_vars <=> CeilingHolds
    BY PTL DEF CeilingHolds
  <1> QED
    BY <1>1, <1>2, BoundsInductive, PTL DEF Spec

(* The state flips only where the size has reached the mark it flips at. *)
LEMMA FlipsHold == IInv /\ [Next]_vars => FlipsAtMark
  <1> SUFFICES ASSUME IInv, [Next]_vars, state' # state
               PROVE  \/ state' = "shedding" /\ Size(lane') >= HighMark
                      \/ state' = "normal"   /\ Size(lane') <= LowMark
    BY DEF FlipsAtMark
  <1>1. state' = Recompute(state, Size(lane'))
    <2>1. ASSUME NEW d \in Drainers, StartDrain(d)
          PROVE  state' = Recompute(state, Size(lane'))
      BY <2>1, StartDrainType DEF IInv
    <2>2. ASSUME NEW s \in Severity, Submit(s)
          PROVE  state' = Recompute(state, Size(lane'))
      BY <2>2, SubmitType DEF IInv
    <2> QED
      BY <2>1, <2>2, LaneSteps
  <1> QED
    BY <1>1 DEF IInv, TypeOK, Recompute

(* Both halves of the hysteresis, for any marks and ceilings. *)
THEOREM HysteresisHolds == Spec => Hysteresis
  <1> DEFINE Both == WatermarkState' /\ FlipsAtMark
  <1>1. IInv /\ IInv' /\ [Next]_vars => Both
    BY FlipsHold DEF IInv
  <1>2. IInv => WatermarkState
    BY DEF IInv
  <1> QED
    BY <1>1, <1>2, BoundsInductive, PTL DEF Spec, Hysteresis

-----------------------------------------------------------------------------
(* The books.                                                              *)

(* The two sums of the account as functions over finite sets. *)
Counters  == Severity \X Reason
Flight(b) == [d \in Drainers |-> Len(b[d])]
Drops(c)  == [sr \in Counters |-> c[sr[1]][sr[2]]]

LEMMA FiniteBooks == IsFiniteSet(Drainers) /\ IsFiniteSet(Counters)
  <1>1. IsFiniteSet(Drainers)
    <2>1. IsFiniteSet({Tick}) /\ IsFiniteSet(Hooks)
      BY BufferAssumption, FS_Singleton
    <2> QED
      BY <2>1, FS_Union DEF Drainers
  <1>2. IsFiniteSet(Severity)
    <2>1. 0 \in Int /\ 3 \in Int
      OBVIOUS
    <2>2. IsFiniteSet(0..3)
      BY <2>1, FS_Interval
    <2> QED
      BY <2>2 DEF Severity
  <1>3. IsFiniteSet(Reason)
    <2>1. Reason = ({"shed_ceiling"} \cup {"hard_capacity"}) \cup {"sink_failure"}
      BY DEF Reason
    <2> QED
      BY <2>1, FS_Singleton, FS_Union
  <1> QED
    BY <1>1, <1>2, <1>3, FS_Product DEF Counters

(* The folds of EverySignalAccounted are these sums. *)
LEMMA FlightFold ==
  MapThenSumSet(LAMBDA d : Len(inFlight[d]), Drainers) = SumOf(Flight(inFlight), Drainers)
  <1> DEFINE f == Flight(inFlight)
  <1> DEFINE P(g) == g = [s \in SUBSET Drainers |->
                           IF s = {} THEN 0
                           ELSE Len(inFlight[CHOOSE x \in s : TRUE])
                                + g[s \ {CHOOSE x \in s : TRUE}]]
  <1>1. MapThenSumSet(LAMBDA d : Len(inFlight[d]), Drainers) = (CHOOSE g : P(g))[Drainers]
    BY DEF MapThenSumSet, MapThenFoldSet
  <1>2. \A s \in SUBSET Drainers : s # {} => f[Chosen(s)] = Len(inFlight[Chosen(s)])
    BY ChosenIn DEF Flight
  <1>3. \A g : P(g) <=> SumsTo(g, f, Drainers)
    BY <1>2 DEF SumsTo, Chosen
  <1> HIDE DEF P, f
  <1>4. SumsTo(CHOOSE g : P(g), f, Drainers)
    BY <1>3, FiniteBooks, SumExists
  <1> QED
    BY <1>1, <1>4, FiniteBooks, SumOfUnique DEF f

LEMMA DropsFold ==
  MapThenSumSet(LAMBDA sr : dropped[sr[1]][sr[2]], Counters) = SumOf(Drops(dropped), Counters)
  <1> DEFINE f == Drops(dropped)
  <1> DEFINE P(g) == g = [s \in SUBSET Counters |->
                           IF s = {} THEN 0
                           ELSE dropped[(CHOOSE x \in s : TRUE)[1]][(CHOOSE x \in s : TRUE)[2]]
                                + g[s \ {CHOOSE x \in s : TRUE}]]
  <1>1. MapThenSumSet(LAMBDA sr : dropped[sr[1]][sr[2]], Counters)
          = (CHOOSE g : P(g))[Counters]
    BY DEF MapThenSumSet, MapThenFoldSet
  <1>2. \A s \in SUBSET Counters :
          s # {} => f[Chosen(s)] = dropped[Chosen(s)[1]][Chosen(s)[2]]
    BY ChosenIn DEF Drops
  <1>3. \A g : P(g) <=> SumsTo(g, f, Counters)
    BY <1>2 DEF SumsTo, Chosen
  <1> HIDE DEF P, f
  <1>4. SumsTo(CHOOSE g : P(g), f, Counters)
    BY <1>3, FiniteBooks, SumExists
  <1> QED
    BY <1>1, <1>4, FiniteBooks, SumOfUnique DEF f

Balanced ==
  arrived = Size(lane) + delivered + SumOf(Flight(inFlight), Drainers)
            + SumOf(Drops(dropped), Counters)

LEMMA BalancedIsAccounted == Balanced <=> EverySignalAccounted
  BY FlightFold, DropsFold DEF Balanced, EverySignalAccounted, Counters

LEMMA BooksType ==
  ASSUME TypeOK
  PROVE  /\ SumOf(Flight(inFlight), Drainers) \in Nat
         /\ SumOf(Drops(dropped), Counters) \in Nat
         /\ Size(lane) \in Nat /\ arrived \in Nat /\ delivered \in Nat
  <1>1. \A d \in Drainers : Flight(inFlight)[d] \in Nat
    BY DEF TypeOK, Flight
  <1>2. \A sr \in Counters : Drops(dropped)[sr] \in Nat
    BY DEF TypeOK, Drops, Counters
  <1>3. Size(lane) \in Nat
    BY SizeType DEF TypeOK, Lanes
  <1> QED
    BY <1>1, <1>2, <1>3, FiniteBooks, SumOfType DEF TypeOK

(* A batch that goes out or comes back changes the sum by its length. *)
LEMMA FlightChange ==
  ASSUME TypeOK, NEW d \in Drainers, NEW b \in Seq(Signal),
         inFlight' = [inFlight EXCEPT ![d] = b]
  PROVE  SumOf(Flight(inFlight'), Drainers)
           = SumOf(Flight(inFlight), Drainers) + Len(b) - Len(inFlight[d])
  <1>1. \A x \in Drainers : Flight(inFlight)[x] \in Int /\ Flight(inFlight')[x] \in Int
    BY DEF TypeOK, Flight
  <1>2. \A x \in Drainers : x # d => Flight(inFlight')[x] = Flight(inFlight)[x]
    BY DEF TypeOK, Flight
  <1>3. Flight(inFlight')[d] = Len(b) /\ Flight(inFlight)[d] = Len(inFlight[d])
    BY DEF TypeOK, Flight
  <1> DEFINE f == Flight(inFlight)
  <1> DEFINE h == Flight(inFlight')
  <1>4. (\A x \in Drainers : f[x] \in Int /\ h[x] \in Int)
        /\ \A x \in Drainers : x # d => h[x] = f[x]
    BY <1>1, <1>2
  <1> HIDE DEF f, h
  <1>5. SumOf(h, Drainers) = SumOf(f, Drainers) + h[d] - f[d]
    BY <1>4, FiniteBooks, SumOfChange
  <1> QED
    BY <1>3, <1>5 DEF f, h

(* A counter that goes up by n takes the sum up by n. *)
LEMMA DropsChange ==
  ASSUME NEW c \in [Severity -> [Reason -> Nat]], NEW e \in [Severity -> [Reason -> Nat]],
         NEW s \in Severity, NEW r \in Reason, NEW n \in Nat,
         e[s][r] = c[s][r] + n,
         \A t \in Severity, q \in Reason : t # s \/ q # r => e[t][q] = c[t][q]
  PROVE  SumOf(Drops(e), Counters) = SumOf(Drops(c), Counters) + n
  <1> DEFINE a == <<s, r>>
  <1>1. a \in Counters /\ a[1] = s /\ a[2] = r
    BY DEF Counters
  <1>2. \A x \in Counters : /\ Drops(c)[x] = c[x[1]][x[2]] /\ Drops(e)[x] = e[x[1]][x[2]]
                            /\ x[1] \in Severity /\ x[2] \in Reason
                            /\ x # a => x[1] # s \/ x[2] # r
    BY DEF Drops, Counters
  <1> HIDE DEF a
  <1>3. \A x \in Counters : Drops(c)[x] \in Int /\ Drops(e)[x] \in Int
    BY <1>2
  <1>4. \A x \in Counters : x # a => Drops(e)[x] = Drops(c)[x]
    BY <1>2
  <1>5. SumOf(Drops(e), Counters) = SumOf(Drops(c), Counters) + Drops(e)[a] - Drops(c)[a]
    BY <1>1, <1>3, <1>4, FiniteBooks, SumOfChange
  <1>6. Drops(e)[a] = c[s][r] + n /\ Drops(c)[a] = c[s][r] /\ c[s][r] \in Nat
    BY <1>1, <1>2
  <1>7. SumOf(Drops(c), Counters) \in Nat
    BY <1>2, FiniteBooks, SumOfType
  <1> QED
    BY <1>5, <1>6, <1>7

(* A batch is as long as what it takes of the lanes. *)
LEMMA BatchTakes ==
  ASSUME NEW q \in Lanes
  PROVE  Len(BatchOf(q)) = Take(q, 0) + Take(q, 1) + Take(q, 2) + Take(q, 3)
  <1> DEFINE part(s) == SubSeq(q[s], 1, Take(q, s))
  <1>1. ASSUME NEW s \in Severity
        PROVE  /\ part(s) \in Seq(Signal) /\ Len(part(s)) = Take(q, s)
               /\ Len(q[s]) \in Nat /\ Take(q, s) \in 0..Len(q[s])
               /\ Len(Rest(q)[s]) = Len(q[s]) - Take(q, s)
    <2>1. q[s] \in Seq(Signal) /\ Len(q[s]) \in Nat /\ Take(q, s) \in 0..Len(q[s])
      BY SizeType, TakeType
    <2>2. part(s) \in Seq(Signal) /\ Len(part(s)) = Take(q, s)
      BY <2>1, SubSeqProperties
    <2> QED
      BY <2>1, <2>2, RestType
  <1>2. 0 \in Severity /\ 1 \in Severity /\ 2 \in Severity /\ 3 \in Severity
    BY DEF Severity
  <1>3. BatchOf(q) = part(0) \o part(1) \o part(2) \o part(3)
    BY DEF BatchOf
  <1> HIDE DEF part
  <1>4. part(0) \o part(1) \in Seq(Signal)
        /\ Len(part(0) \o part(1)) = Len(part(0)) + Len(part(1))
    BY <1>1, <1>2, ConcatProperties
  <1>5. part(0) \o part(1) \o part(2) \in Seq(Signal)
        /\ Len(part(0) \o part(1) \o part(2)) = Len(part(0) \o part(1)) + Len(part(2))
    BY <1>1, <1>2, <1>4, ConcatProperties
  <1>6. Len(BatchOf(q)) = Len(part(0) \o part(1) \o part(2)) + Len(part(3))
    BY <1>1, <1>2, <1>3, <1>5, ConcatProperties
  <1>7. \A s \in Severity : /\ Len(part(s)) = Take(q, s) /\ Take(q, s) \in Nat
                            /\ Len(q[s]) = Take(q, s) + Len(Rest(q)[s])
                            /\ Len(Rest(q)[s]) \in Nat
    <2> SUFFICES ASSUME NEW s \in Severity
                 PROVE  /\ Len(part(s)) = Take(q, s) /\ Take(q, s) \in Nat
                        /\ Len(q[s]) = Take(q, s) + Len(Rest(q)[s])
                        /\ Len(Rest(q)[s]) \in Nat
      OBVIOUS
    <2> QED
      BY <1>1
  <1>8. Len(BatchOf(q)) = Take(q, 0) + Take(q, 1) + Take(q, 2) + Take(q, 3)
    BY <1>2, <1>4, <1>5, <1>6, <1>7
  <1> QED
    BY <1>8

(* A pop splits the buffer: nothing is lost between the batch and what     *)
(* stays.                                                                  *)
LEMMA BatchLength ==
  ASSUME NEW q \in Lanes
  PROVE  Len(BatchOf(q)) + Size(Rest(q)) = Size(q)
  <1>2. 0 \in Severity /\ 1 \in Severity /\ 2 \in Severity /\ 3 \in Severity
    BY DEF Severity
  <1>7. ASSUME NEW s \in Severity
        PROVE  /\ Take(q, s) \in Nat
               /\ Len(q[s]) = Take(q, s) + Len(Rest(q)[s])
               /\ Len(Rest(q)[s]) \in Nat
    <2>1. Len(q[s]) \in Nat /\ Take(q, s) \in 0..Len(q[s])
      BY SizeType, TakeType
    <2> QED
      BY <2>1, RestType
  <1>8. Len(BatchOf(q)) = Take(q, 0) + Take(q, 1) + Take(q, 2) + Take(q, 3)
    BY BatchTakes
  <1>9. Size(q) = (Take(q, 0) + Len(Rest(q)[0])) + (Take(q, 1) + Len(Rest(q)[1]))
                  + (Take(q, 2) + Len(Rest(q)[2])) + (Take(q, 3) + Len(Rest(q)[3]))
    BY <1>2, <1>7 DEF Size
  <1>10. Size(Rest(q)) = Len(Rest(q)[0]) + Len(Rest(q)[1]) + Len(Rest(q)[2]) + Len(Rest(q)[3])
    BY DEF Size
  <1>11. /\ Take(q, 0) \in Nat /\ Take(q, 1) \in Nat /\ Take(q, 2) \in Nat /\ Take(q, 3) \in Nat
         /\ Len(Rest(q)[0]) \in Nat /\ Len(Rest(q)[1]) \in Nat
         /\ Len(Rest(q)[2]) \in Nat /\ Len(Rest(q)[3]) \in Nat
    BY <1>2, <1>7
  <1> DEFINE taken(s) == Take(q, s)
  <1> DEFINE kept(s) == Len(Rest(q)[s])
  <1> DEFINE batch == Len(BatchOf(q))
  <1> DEFINE size == Size(q)
  <1> DEFINE rest == Size(Rest(q))
  <1>12. /\ taken(0) \in Nat /\ taken(1) \in Nat /\ taken(2) \in Nat /\ taken(3) \in Nat
         /\ kept(0) \in Nat /\ kept(1) \in Nat /\ kept(2) \in Nat /\ kept(3) \in Nat
         /\ batch = taken(0) + taken(1) + taken(2) + taken(3)
         /\ size = (taken(0) + kept(0)) + (taken(1) + kept(1))
                   + (taken(2) + kept(2)) + (taken(3) + kept(3))
         /\ rest = kept(0) + kept(1) + kept(2) + kept(3)
    BY <1>8, <1>9, <1>10, <1>11
  <1> HIDE DEF taken, kept, batch, size, rest
  <1>13. batch + rest = size
    BY <1>12
  <1> QED
    BY <1>13 DEF batch, rest, size

(* Every signal of a batch has one severity. *)
LEMMA CountSplit ==
  ASSUME NEW b \in Seq(Signal)
  PROVE  /\ CountOf(b, 0) \in Nat /\ CountOf(b, 1) \in Nat
         /\ CountOf(b, 2) \in Nat /\ CountOf(b, 3) \in Nat
         /\ CountOf(b, 0) + CountOf(b, 1) + CountOf(b, 2) + CountOf(b, 3) = Len(b)
  <1> DEFINE K(s) == {i \in DOMAIN b : b[i].sev = s}
  <1>1. DOMAIN b = 1..Len(b) /\ Len(b) \in Nat
    OBVIOUS
  <1>2. \A i \in DOMAIN b : b[i].sev \in Severity
    <2>1. \A i \in DOMAIN b : b[i] \in Signal
      BY <1>1
    <2> QED
      BY <2>1 DEF Signal
  <1>3. IsFiniteSet(1..Len(b)) /\ Cardinality(1..Len(b)) = Len(b)
    BY <1>1, FS_Interval
  <1>4. \A s : K(s) \subseteq 1..Len(b)
    BY <1>1
  <1>5. \A s : IsFiniteSet(K(s)) /\ CountOf(b, s) = Cardinality(K(s))
    BY <1>3, <1>4, FS_Subset DEF CountOf
  <1>6. \A s : Cardinality(K(s)) \in Nat
    BY <1>5, FS_CardinalityType
  <1> DEFINE K1 == K(0) \cup K(1)
  <1> DEFINE K2 == K1 \cup K(2)
  <1> DEFINE K3 == K2 \cup K(3)
  <1>7. K(0) \cap K(1) = {} /\ K1 \cap K(2) = {} /\ K2 \cap K(3) = {}
    OBVIOUS
  <1>8. K3 = 1..Len(b)
    BY <1>1, <1>2 DEF Severity
  <1> HIDE DEF K
  <1>9. IsFiniteSet(K1) /\ Cardinality(K1) = Cardinality(K(0)) + Cardinality(K(1))
    BY <1>5, <1>7, DisjointUnion
  <1> HIDE DEF K1
  <1>10. IsFiniteSet(K2) /\ Cardinality(K2) = Cardinality(K1) + Cardinality(K(2))
    BY <1>5, <1>7, <1>9, DisjointUnion
  <1> HIDE DEF K2
  <1>11. Cardinality(K3) = Cardinality(K2) + Cardinality(K(3))
    BY <1>5, <1>7, <1>10, DisjointUnion
  <1> QED
    BY <1>3, <1>5, <1>6, <1>8, <1>9, <1>10, <1>11

(* A failed sink call moves its whole batch to the counters, severity by   *)
(* severity.                                                               *)
LEMMA SinkFailsDrops ==
  ASSUME TypeOK, NEW b \in Seq(Signal),
         dropped' = [s \in Severity |->
                       [dropped[s] EXCEPT !["sink_failure"] = @ + CountOf(b, s)]]
  PROVE  SumOf(Drops(dropped'), Counters) = SumOf(Drops(dropped), Counters) + Len(b)
  <1> DEFINE C == [Severity -> [Reason -> Nat]]
  <1> DEFINE upto(k) == [s \in Severity |-> IF s < k THEN dropped'[s] ELSE dropped[s]]
  <1>1. dropped \in C /\ "sink_failure" \in Reason
    BY DEF TypeOK, Reason
  <1>2. \A s \in Severity : CountOf(b, s) \in Nat
    BY CountType
  <1>3. \A s \in Severity, r \in Reason :
          dropped'[s][r] = dropped[s][r] + IF r = "sink_failure" THEN CountOf(b, s) ELSE 0
    BY <1>1, <1>2
  <1>4. dropped' \in C
    BY <1>1, <1>2
  <1>5. ASSUME NEW k \in Severity
        PROVE  SumOf(Drops(upto(k + 1)), Counters) = SumOf(Drops(upto(k)), Counters) + CountOf(b, k)
    <2>1. upto(k) \in C /\ upto(k + 1) \in C
      BY <1>1, <1>4
    <2>2. upto(k + 1)[k]["sink_failure"] = upto(k)[k]["sink_failure"] + CountOf(b, k)
      BY <1>1, <1>3 DEF Severity
    <2>3. \A t \in Severity, q \in Reason :
            t # k \/ q # "sink_failure" => upto(k + 1)[t][q] = upto(k)[t][q]
      <3> SUFFICES ASSUME NEW t \in Severity, NEW q \in Reason, t # k \/ q # "sink_failure"
                   PROVE  upto(k + 1)[t][q] = upto(k)[t][q]
        OBVIOUS
      <3>1. CASE t # k
        BY <3>1 DEF Severity
      <3>2. CASE t = k
        <4>1. upto(k + 1)[t] = dropped'[t] /\ upto(k)[t] = dropped[t] /\ q # "sink_failure"
          BY <3>2 DEF Severity
        <4>2. dropped[t][q] \in Nat
          BY <1>1
        <4> QED
          BY <1>3, <4>1, <4>2
      <3> QED
        BY <3>1, <3>2
    <2> HIDE DEF upto
    <2> QED
      BY <1>1, <1>2, <2>1, <2>2, <2>3, DropsChange
  <1>6. upto(0) = dropped /\ upto(4) = dropped'
    BY <1>1, <1>4 DEF Severity
  <1>7. SumOf(Drops(dropped), Counters) \in Nat
    BY BooksType
  <1> HIDE DEF upto
  <1>8. /\ SumOf(Drops(upto(1)), Counters) = SumOf(Drops(upto(0)), Counters) + CountOf(b, 0)
        /\ SumOf(Drops(upto(2)), Counters) = SumOf(Drops(upto(1)), Counters) + CountOf(b, 1)
        /\ SumOf(Drops(upto(3)), Counters) = SumOf(Drops(upto(2)), Counters) + CountOf(b, 2)
        /\ SumOf(Drops(upto(4)), Counters) = SumOf(Drops(upto(3)), Counters) + CountOf(b, 3)
    BY <1>5 DEF Severity
  <1>9. /\ CountOf(b, 0) \in Nat /\ CountOf(b, 1) \in Nat
        /\ CountOf(b, 2) \in Nat /\ CountOf(b, 3) \in Nat
        /\ CountOf(b, 0) + CountOf(b, 1) + CountOf(b, 2) + CountOf(b, 3) = Len(b)
    BY CountSplit
  <1> DEFINE n(k) == SumOf(Drops(upto(k)), Counters)
  <1>10. /\ n(0) \in Nat /\ n(1) = n(0) + CountOf(b, 0) /\ n(2) = n(1) + CountOf(b, 1)
         /\ n(3) = n(2) + CountOf(b, 2) /\ n(4) = n(3) + CountOf(b, 3)
    BY <1>6, <1>7, <1>8
  <1>11. n(0) = SumOf(Drops(dropped), Counters) /\ n(4) = SumOf(Drops(dropped'), Counters)
    BY <1>6
  <1> HIDE DEF n
  <1>12. n(1) \in Nat
    BY <1>9, <1>10
  <1>13. n(4) = n(0) + Len(b)
    BY <1>9, <1>10, <1>12
  <1> QED
    BY <1>11, <1>13

(* Nothing has been submitted: all the books are empty. *)
LEMMA BooksOpen == Init => Balanced
  <1> SUFFICES ASSUME Init PROVE Balanced
    OBVIOUS
  <1>1. \A d \in Drainers : Flight(inFlight)[d] = 0
    BY DEF Init, Flight
  <1>2. \A sr \in Counters : Drops(dropped)[sr] = 0
    BY DEF Init, Drops, Counters
  <1>3. Size(lane) = 0
    BY DEF Init, Size, Severity
  <1>4. arrived = 0 /\ delivered = 0
    BY DEF Init
  <1>5. SumOf(Flight(inFlight), Drainers) = 0 /\ SumOf(Drops(dropped), Counters) = 0
    BY <1>1, <1>2, FiniteBooks, SumOfZero
  <1> QED
    BY <1>3, <1>4, <1>5 DEF Balanced

(* One counted drop takes the sum of the counters up by one. *)
LEMMA OneDrop ==
  ASSUME TypeOK, NEW s \in Severity, NEW r \in Reason, dropped' = Dropping(s, r, 1)
  PROVE  SumOf(Drops(dropped'), Counters) = SumOf(Drops(dropped), Counters) + 1
  <1>1. dropped \in [Severity -> [Reason -> Nat]]
    BY DEF TypeOK
  <1>2. dropped' \in [Severity -> [Reason -> Nat]]
    BY <1>1, DroppingType
  <1>3. dropped'[s][r] = dropped[s][r] + 1
    BY <1>1 DEF Dropping
  <1>4. \A t \in Severity, q \in Reason : t # s \/ q # r => dropped'[t][q] = dropped[t][q]
    BY <1>1 DEF Dropping
  <1> DEFINE e == dropped'
  <1>5. e \in [Severity -> [Reason -> Nat]] /\ e[s][r] = dropped[s][r] + 1 /\ 1 \in Nat
        /\ \A t \in Severity, q \in Reason : t # s \/ q # r => e[t][q] = dropped[t][q]
    BY <1>2, <1>3, <1>4
  <1> HIDE DEF e
  <1>6. SumOf(Drops(e), Counters) = SumOf(Drops(dropped), Counters) + 1
    BY <1>1, <1>5, DropsChange
  <1> QED
    BY <1>6 DEF e

(* A submit is counted once: buffered, refused, or in place of a victim    *)
(* that is counted instead.                                                *)
LEMMA SubmitBalances ==
  ASSUME TypeOK, Balanced, NEW s \in Severity, Submit(s)
  PROVE  Balanced'
  <1>0. lane \in Lanes
    BY DEF TypeOK, Lanes
  <1>1. arrived' = arrived + 1 /\ inFlight' = inFlight /\ delivered' = delivered
    BY DEF Submit, SubmitShed, SubmitFull, SubmitAccepted, SubmitEvicting, Arrive, drainVars
  <1> DEFINE flight == SumOf(Flight(inFlight), Drainers)
  <1> DEFINE drops == SumOf(Drops(dropped), Counters)
  <1> DEFINE drops2 == SumOf(Drops(dropped'), Counters)
  <1> DEFINE size == Size(lane)
  <1> DEFINE size2 == Size(lane')
  <1>2. size2 + drops2 = size + drops + 1
    <2>1. CASE SubmitShed(s)
      <3>1. drops2 = drops + 1
        BY <2>1, OneDrop DEF SubmitShed, Reason
      <3>2. size2 = size
        BY <2>1 DEF SubmitShed
      <3> QED
        BY <3>1, <3>2, BooksType
    <2>2. CASE SubmitFull(s)
      <3>1. drops2 = drops + 1
        BY <2>2, OneDrop DEF SubmitFull, Reason
      <3>2. size2 = size
        BY <2>2 DEF SubmitFull
      <3> QED
        BY <3>1, <3>2, BooksType
    <2>3. CASE SubmitAccepted(s)
      <3>1. size2 = size + 1
        BY <1>0, <2>3, PushType DEF SubmitAccepted
      <3>2. drops2 = drops
        BY <2>3 DEF SubmitAccepted
      <3> QED
        BY <3>1, <3>2, BooksType
    <2>4. CASE SubmitEvicting
      <3>1. PICK v \in Severity : /\ IsVictimLane(lane, v)
                                  /\ dropped' = Dropping(v, "hard_capacity", 1)
                                  /\ Push([lane EXCEPT ![v] = Tail(@)], 0)
        BY <2>4 DEF SubmitEvicting
      <3> DEFINE q == [lane EXCEPT ![v] = Tail(@)]
      <3>2. q \in Lanes /\ Size(q) = size - 1
        BY <1>0, <3>1, TailSize DEF IsVictimLane
      <3>3. Push(q, 0) /\ 0 \in Severity
        BY <3>1 DEF Severity
      <3> HIDE DEF q
      <3>4. size2 = Size(q) + 1
        BY <3>2, <3>3, PushType
      <3>5. drops2 = drops + 1
        BY <3>1, OneDrop DEF Reason
      <3> QED
        BY <3>2, <3>4, <3>5, BooksType
    <2> QED
      BY <2>1, <2>2, <2>3, <2>4 DEF Submit
  <1>3. arrived = size + delivered + flight + drops
    BY DEF Balanced
  <1>4. arrived' = size2 + delivered' + SumOf(Flight(inFlight'), Drainers) + drops2
    <2>1. SumOf(Flight(inFlight'), Drainers) = flight
      BY <1>1
    <2>2. /\ size2 \in Nat /\ drops2 \in Nat /\ size \in Nat /\ drops \in Nat
          /\ flight \in Nat /\ delivered \in Nat /\ arrived \in Nat
      <3>1. size2 \in Nat
        BY SubmitType, SizeType
      <3>2. \A sr \in Counters : Drops(dropped')[sr] \in Nat
        BY SubmitType DEF Drops, Counters
      <3> QED
        BY <3>1, <3>2, FiniteBooks, SumOfType, BooksType
    <2> HIDE DEF flight, drops, drops2, size, size2
    <2> QED
      BY <1>1, <1>2, <1>3, <2>1, <2>2
  <1> QED
    BY <1>4 DEF Balanced

(* A pop moves signals from the lanes to the batch, one for one. *)
LEMMA PopBalances ==
  ASSUME TypeOK, Balanced, NEW d \in Drainers, inFlight[d] = <<>>, StartDrain(d)
  PROVE  Balanced'
  <1>0. lane \in Lanes
    BY DEF TypeOK, Lanes
  <1>1. /\ lane' = Rest(lane) /\ inFlight' = [inFlight EXCEPT ![d] = BatchOf(lane)]
        /\ arrived' = arrived /\ delivered' = delivered /\ dropped' = dropped
    BY DEF StartDrain
  <1>2. BatchOf(lane) \in Seq(Signal)
    BY <1>0, BatchType
  <1> DEFINE flight == SumOf(Flight(inFlight), Drainers)
  <1> DEFINE flight2 == SumOf(Flight(inFlight'), Drainers)
  <1> DEFINE drops == SumOf(Drops(dropped), Counters)
  <1> DEFINE size == Size(lane)
  <1> DEFINE rest == Size(Rest(lane))
  <1> DEFINE batch == Len(BatchOf(lane))
  <1>3. flight2 = flight + batch - Len(inFlight[d])
    BY <1>1, <1>2, FlightChange
  <1>4. Len(inFlight[d]) = 0
    OBVIOUS
  <1>5. batch + rest = size
    BY <1>0, BatchLength
  <1>6. batch \in Nat /\ rest \in Nat /\ size \in Nat /\ flight \in Nat /\ drops \in Nat
        /\ arrived \in Nat /\ delivered \in Nat
    BY <1>0, <1>2, RestSize, BooksType
  <1>7. arrived = size + delivered + flight + drops
    BY DEF Balanced
  <1> HIDE DEF flight, flight2, drops, size, rest, batch
  <1>8. arrived = rest + delivered + flight2 + drops
    BY <1>3, <1>4, <1>5, <1>6, <1>7
  <1> QED
    BY <1>1, <1>8 DEF Balanced, flight2, drops, rest

(* A sink call that settles moves its batch to the delivered ones or to    *)
(* the counters.                                                           *)
LEMMA SinkBalances ==
  ASSUME TypeOK, Balanced, NEW d \in Drainers, SinkSucceeds(d) \/ SinkFails(d)
  PROVE  Balanced'
  <1> DEFINE flight == SumOf(Flight(inFlight), Drainers)
  <1> DEFINE flight2 == SumOf(Flight(inFlight'), Drainers)
  <1> DEFINE drops == SumOf(Drops(dropped), Counters)
  <1> DEFINE drops2 == SumOf(Drops(dropped'), Counters)
  <1> DEFINE size == Size(lane)
  <1> DEFINE batch == Len(inFlight[d])
  <1>1. inFlight' = [inFlight EXCEPT ![d] = <<>>] /\ lane' = lane /\ arrived' = arrived
    BY DEF SinkSucceeds, SinkFails
  <1>2. inFlight[d] \in Seq(Signal) /\ <<>> \in Seq(Signal) /\ batch \in Nat
    BY DEF TypeOK
  <1>3. flight2 = flight + Len(<<>>) - batch
    BY <1>1, <1>2, FlightChange
  <1>4. Len(<<>>) = 0
    OBVIOUS
  <1>5. size \in Nat /\ flight \in Nat /\ drops \in Nat /\ arrived \in Nat /\ delivered \in Nat
    BY BooksType
  <1>6. arrived = size + delivered + flight + drops
    BY DEF Balanced
  <1>7. \/ delivered' = delivered + batch /\ drops2 = drops
        \/ delivered' = delivered /\ drops2 = drops + batch
    <2>1. CASE SinkSucceeds(d)
      BY <2>1 DEF SinkSucceeds
    <2>2. CASE SinkFails(d)
      BY <1>2, <2>2, SinkFailsDrops DEF SinkFails
    <2> QED
      BY <2>1, <2>2
  <1> HIDE DEF flight, flight2, drops, drops2, size, batch
  <1>8. arrived = size + delivered' + flight2 + drops2
    BY <1>2, <1>3, <1>4, <1>5, <1>6, <1>7
  <1> QED
    BY <1>1, <1>8 DEF Balanced, flight2, drops2, size

(* Nothing is dropped silently, for any configuration, number of signals   *)
(* and number of overlapping drains: every submitted signal is buffered,   *)
(* with a sink call, delivered, or counted under one drop reason.          *)
THEOREM BooksBalance == Spec => []EverySignalAccounted
  <1>1. TypeOK /\ Balanced /\ [Next]_vars => Balanced'
    <2> SUFFICES ASSUME TypeOK, Balanced, [Next]_vars PROVE Balanced'
      OBVIOUS
    <2>1. ASSUME NEW s \in Severity, Submit(s) PROVE Balanced'
      BY <2>1, SubmitBalances
    <2>2. CASE DrainTick
      BY <2>2, PopBalances DEF DrainTick, Drainers
    <2>3. ASSUME NEW d \in Drainers, SinkSucceeds(d) \/ SinkFails(d) PROVE Balanced'
      BY <2>3, SinkBalances
    <2>4. ASSUME NEW h \in Hooks, DrainAllStep(h) PROVE Balanced'
      BY <2>4, PopBalances DEF DrainAllStep, Drainers
    <2>5. ASSUME UNCHANGED <<lane, dropped, inFlight, arrived, delivered>> PROVE Balanced'
      BY <2>5 DEF Balanced
    <2>6. ASSUME NEW h \in Hooks, BeginShutdown(h) \/ DrainAllReturns(h) \/ DeadlinePasses(h)
          PROVE  Balanced'
      BY <2>5, <2>6 DEF BeginShutdown, DrainAllReturns, DeadlinePasses
    <2>7. CASE UNCHANGED vars
      BY <2>5, <2>7 DEF vars
    <2> QED
      BY <2>1, <2>2, <2>3, <2>4, <2>6, <2>7 DEF Next
  <1> QED
    BY <1>1, TypeCorrect, BooksOpen, BalancedIsAccounted, PTL DEF Spec

-----------------------------------------------------------------------------
(* The order of the signals.                                               *)

(* Every lane holds signals of its severity, oldest first, none of them    *)
(* newer than the n-th.                                                    *)
Aligned(q, n) ==
  \A s \in Severity :
    /\ \A i \in 1..Len(q[s]) : q[s][i].sev = s /\ q[s][i].id <= n
    /\ \A i, j \in 1..Len(q[s]) : i < j => q[s][i].id < q[s][j].id

OrderInv == IInv /\ Aligned(lane, arrived)

Held(q) == UNION {Range(q[s]) : s \in Severity}

Part(q, s) == SubSeq(q[s], 1, Take(q, s))

InOrder(c) == \A i, j \in 1..Len(c) : i < j => Before(c[i], c[j])

LEMMA ElementsOf ==
  ASSUME NEW c \in Seq(Signal), NEW x
  PROVE  /\ DOMAIN c = 1..Len(c)
         /\ x \in Range(c) <=> \E i \in 1..Len(c) : x = c[i]
  BY DEF Range

(* A signal is held where a lane has it.                                   *)
LEMMA HeldSomewhere ==
  ASSUME NEW q \in Lanes, NEW x
  PROVE  x \in Held(q) <=> \E s \in Severity : \E i \in 1..Len(q[s]) : x = q[s][i]
  <1>1. \A s \in Severity : x \in Range(q[s]) <=> \E i \in 1..Len(q[s]) : x = q[s][i]
    BY SizeType, ElementsOf
  <1> QED
    BY <1>1 DEF Held

(* A pop cuts every lane in two, where Take says.                          *)
LEMMA PopCuts ==
  ASSUME NEW q \in Lanes, NEW s \in Severity
  PROVE  /\ Part(q, s) \in Seq(Signal) /\ Len(Part(q, s)) = Take(q, s)
         /\ \A i \in 1..Take(q, s) : Part(q, s)[i] = q[s][i]
         /\ Len(Rest(q)[s]) = Len(q[s]) - Take(q, s)
         /\ \A i \in 1..Len(Rest(q)[s]) : Rest(q)[s][i] = q[s][Take(q, s) + i]
         /\ Take(q, s) \in 0..Len(q[s]) /\ Len(q[s]) \in Nat
  <1> DEFINE t == Take(q, s)
             l == Len(q[s])
  <1>1. q[s] \in Seq(Signal) /\ l \in Nat /\ t \in 0..l
    BY SizeType, TakeType
  <1>2. Rest(q)[s] = SubSeq(q[s], t + 1, l)
    BY DEF Rest
  <1>3. Len(Rest(q)[s]) = l - t
    BY RestType
  <1>4. Part(q, s) = SubSeq(q[s], 1, t)
    BY DEF Part
  <1> HIDE DEF t, l
  <1>5. \A i \in 1..t : q[s][i] \in Signal
    BY <1>1 DEF l
  <1>6. \A i \in (t + 1)..l : q[s][i] \in Signal
    BY <1>1 DEF l
  <1>7. /\ SubSeq(q[s], 1, t) \in Seq(Signal)
        /\ Len(SubSeq(q[s], 1, t)) = IF 1 <= t THEN t - 1 + 1 ELSE 0
        /\ \A i \in 1..(t - 1 + 1) : SubSeq(q[s], 1, t)[i] = q[s][1 + i - 1]
    BY <1>1, <1>5, SubSeqProperties
  <1>8. \A i \in 1..(l - (t + 1) + 1) : SubSeq(q[s], t + 1, l)[i] = q[s][t + 1 + i - 1]
    BY <1>1, <1>6, SubSeqProperties
  <1>9. Part(q, s) \in Seq(Signal) /\ Len(Part(q, s)) = t
    BY <1>1, <1>4, <1>7
  <1>10. \A i \in 1..t : Part(q, s)[i] = q[s][i]
    <2> SUFFICES ASSUME NEW i \in 1..t PROVE Part(q, s)[i] = q[s][i]
      OBVIOUS
    <2>1. i \in 1..(t - 1 + 1) /\ 1 + i - 1 = i
      BY <1>1
    <2> QED
      BY <1>4, <1>7, <2>1
  <1>11. \A i \in 1..Len(Rest(q)[s]) : Rest(q)[s][i] = q[s][t + i]
    <2> SUFFICES ASSUME NEW i \in 1..Len(Rest(q)[s]) PROVE Rest(q)[s][i] = q[s][t + i]
      OBVIOUS
    <2>1. i \in 1..(l - (t + 1) + 1) /\ t + 1 + i - 1 = t + i
      BY <1>1, <1>3
    <2> QED
      BY <1>2, <1>8, <2>1
  <1> QED
    BY <1>1, <1>3, <1>9, <1>10, <1>11 DEF t, l

(* A batch takes from a lane only what the more urgent ones leave room     *)
(* for, and is short only when it takes all.                               *)
LEMMA TakesInTurn ==
  ASSUME NEW q \in Lanes, NEW s \in Severity, NEW t \in Severity, t < s, Take(q, s) # 0
  PROVE  Take(q, t) = Len(q[t])
  <1>1. /\ Len(q[0]) \in Nat /\ Len(q[1]) \in Nat /\ Len(q[2]) \in Nat
        /\ Len(q[s]) \in Nat /\ Len(q[t]) \in Nat /\ BatchSize \in Nat
    BY SizeType, BufferAssumption DEF Severity
  <1>2. /\ Ahead(q, 0) = 0 /\ Ahead(q, 1) = Len(q[0]) /\ Ahead(q, 2) = Len(q[0]) + Len(q[1])
        /\ Ahead(q, 3) = Len(q[0]) + Len(q[1]) + Len(q[2])
    BY DEF Ahead
  <1>3. /\ s = 0 \/ s = 1 \/ s = 2 \/ s = 3
        /\ t = 0 \/ t = 1 \/ t = 2 \/ t = 3
    BY DEF Severity
  <1>4. /\ Ahead(q, t) \in Nat /\ Ahead(q, s) \in Nat
        /\ Ahead(q, t) + Len(q[t]) <= Ahead(q, s)
    <2> DEFINE a == Len(q[0])
               b == Len(q[1])
               c == Len(q[2])
               x == Ahead(q, t)
               y == Len(q[t])
               z == Ahead(q, s)
    <2>1. a \in Nat /\ b \in Nat /\ c \in Nat
      BY <1>1
    <2>2. \/ x = 0 /\ y = a /\ (z = a \/ z = a + b \/ z = a + b + c)
          \/ x = a /\ y = b /\ (z = a + b \/ z = a + b + c)
          \/ x = a + b /\ y = c /\ z = a + b + c
      <3>1. \/ t = 0 /\ s \in {1, 2, 3}
            \/ t = 1 /\ s \in {2, 3}
            \/ t = 2 /\ s = 3
        BY <1>3
      <3> QED
        BY <1>2, <3>1
    <2> HIDE DEF a, b, c, x, y, z
    <2>3. x \in Nat /\ z \in Nat /\ x + y <= z
      BY <2>1, <2>2
    <2> QED
      BY <2>3 DEF x, y, z
  <1>5. ~ (Ahead(q, s) >= BatchSize)
    BY DEF Take
  <1>6. /\ ~ (Ahead(q, t) >= BatchSize) /\ Len(q[t]) <= BatchSize - Ahead(q, t)
    <2> DEFINE x == Ahead(q, t)
               y == Len(q[t])
               z == Ahead(q, s)
               n == BatchSize
    <2>1. x \in Nat /\ y \in Nat /\ z \in Nat /\ n \in Nat /\ x + y <= z /\ ~ (z >= n)
      BY <1>1, <1>4, <1>5
    <2> HIDE DEF x, y, z, n
    <2>2. ~ (x >= n) /\ y <= n - x
      BY <2>1
    <2> QED
      BY <2>2 DEF x, y, n
  <1> QED
    BY <1>6 DEF Take

LEMMA TakesFill ==
  ASSUME NEW q \in Lanes
  PROVE  \/ Take(q, 0) + Take(q, 1) + Take(q, 2) + Take(q, 3) = BatchSize
         \/ \A s \in Severity : Take(q, s) = Len(q[s])
  <1> DEFINE a == Len(q[0])
             b == Len(q[1])
             c == Len(q[2])
             d == Len(q[3])
             n == BatchSize
             room(ahead, len) == IF ahead >= n THEN 0
                                 ELSE IF len <= n - ahead THEN len ELSE n - ahead
  <1>1. a \in Nat /\ b \in Nat /\ c \in Nat /\ d \in Nat /\ n \in Nat
    BY SizeType, BufferAssumption DEF Severity
  <1>2. /\ Take(q, 0) = room(0, a) /\ Take(q, 1) = room(a, b)
        /\ Take(q, 2) = room(a + b, c) /\ Take(q, 3) = room(a + b + c, d)
    BY DEF Take, Ahead
  <1> HIDE DEF a, b, c, d, n
  <1>3. \/ room(0, a) + room(a, b) + room(a + b, c) + room(a + b + c, d) = n
        \/ room(0, a) = a /\ room(a, b) = b /\ room(a + b, c) = c /\ room(a + b + c, d) = d
    <2>1. CASE a >= n
      BY <1>1, <2>1
    <2>2. CASE a < n /\ a + b >= n
      BY <1>1, <2>2
    <2>3. CASE a + b < n /\ a + b + c >= n
      BY <1>1, <2>3
    <2>4. CASE a + b + c < n
      BY <1>1, <2>4
    <2> QED
      BY <1>1, <2>1, <2>2, <2>3, <2>4
  <1> HIDE DEF room
  <1>4. CASE room(0, a) + room(a, b) + room(a + b, c) + room(a + b + c, d) = n
    BY <1>2, <1>4 DEF n
  <1>5. CASE room(0, a) = a /\ room(a, b) = b /\ room(a + b, c) = c /\ room(a + b + c, d) = d
    <2>1. /\ Take(q, 0) = Len(q[0]) /\ Take(q, 1) = Len(q[1])
          /\ Take(q, 2) = Len(q[2]) /\ Take(q, 3) = Len(q[3])
      BY <1>2, <1>5 DEF a, b, c, d
    <2>2. \A s \in Severity : s = 0 \/ s = 1 \/ s = 2 \/ s = 3
      BY DEF Severity
    <2> QED
      BY <2>1, <2>2
  <1> QED
    BY <1>3, <1>4, <1>5

(* Two ordered sequences, one after the other.                             *)
LEMMA ConcatOrder ==
  ASSUME NEW a \in Seq(Signal), NEW b \in Seq(Signal), InOrder(a), InOrder(b),
         \A x \in Range(a), y \in Range(b) : Before(x, y)
  PROVE  a \o b \in Seq(Signal) /\ InOrder(a \o b)
  <1>1. /\ a \o b \in Seq(Signal) /\ Len(a \o b) = Len(a) + Len(b)
        /\ \A i \in 1..(Len(a) + Len(b)) :
             (a \o b)[i] = IF i <= Len(a) THEN a[i] ELSE b[i - Len(a)]
    BY ConcatProperties
  <1> DEFINE m == Len(a)
             n == Len(b)
             c == a \o b
  <1>2. m \in Nat /\ n \in Nat
    OBVIOUS
  <1>3. ASSUME NEW i \in 1..m, NEW j \in 1..n PROVE Before(a[i], b[j])
    BY ElementsOf
  <1>4. ASSUME NEW i \in 1..Len(c), NEW j \in 1..Len(c), i < j PROVE Before(c[i], c[j])
    <2>1. Len(c) = m + n
      BY <1>1
    <2>2. c[i] = (IF i <= m THEN a[i] ELSE b[i - m]) /\ c[j] = (IF j <= m THEN a[j] ELSE b[j - m])
      BY <1>1, <2>1
    <2> HIDE DEF c
    <2>3. CASE j <= m
      <3>1. i \in 1..m /\ j \in 1..m /\ c[i] = a[i] /\ c[j] = a[j]
        BY <1>2, <1>4, <2>1, <2>2, <2>3
      <3> QED
        BY <1>4, <3>1 DEF InOrder
    <2>4. CASE i <= m /\ ~ (j <= m)
      <3>1. i \in 1..m /\ j - m \in 1..n /\ c[i] = a[i] /\ c[j] = b[j - m]
        BY <1>2, <1>4, <2>1, <2>2, <2>4
      <3> QED
        BY <1>3, <3>1
    <2>5. CASE ~ (i <= m)
      <3>1. i - m \in 1..n /\ j - m \in 1..n /\ i - m < j - m /\ c[i] = b[i - m] /\ c[j] = b[j - m]
        BY <1>2, <1>4, <2>1, <2>2, <2>5
      <3> QED
        BY <3>1 DEF InOrder
    <2> QED
      BY <2>3, <2>4, <2>5
  <1> QED
    BY <1>1, <1>4 DEF InOrder

LEMMA ConcatRange ==
  ASSUME NEW a \in Seq(Signal), NEW b \in Seq(Signal)
  PROVE  a \o b \in Seq(Signal) /\ Range(a \o b) = Range(a) \cup Range(b)
  <1>1. /\ a \o b \in Seq(Signal) /\ Len(a \o b) = Len(a) + Len(b)
        /\ \A i \in 1..(Len(a) + Len(b)) :
             (a \o b)[i] = IF i <= Len(a) THEN a[i] ELSE b[i - Len(a)]
    BY ConcatProperties
  <1> DEFINE m == Len(a)
             n == Len(b)
  <1>2. m \in Nat /\ n \in Nat
    OBVIOUS
  <1>3. ASSUME NEW x \in Range(a \o b) PROVE x \in Range(a) \cup Range(b)
    <2>0. a \o b \in Seq(Signal) /\ Len(a \o b) = m + n
      BY <1>1
    <2>1. PICK i \in 1..(m + n) : x = (a \o b)[i]
      BY <2>0 DEF Range
    <2>2. CASE i <= m
      BY <1>1, <1>2, <2>1, <2>2, ElementsOf
    <2>3. CASE ~ (i <= m)
      <3>1. i - m \in 1..n /\ x = b[i - m]
        BY <1>1, <1>2, <2>1, <2>3
      <3> QED
        BY <3>1, ElementsOf
    <2> QED
      BY <2>2, <2>3
  <1>4. ASSUME NEW x \in Range(a) PROVE x \in Range(a \o b)
    <2>1. PICK i \in 1..m : x = a[i]
      BY ElementsOf
    <2>2. i \in 1..(m + n) /\ x = (a \o b)[i]
      BY <1>1, <1>2, <2>1
    <2> QED
      BY <1>1, <2>2, ElementsOf
  <1>5. ASSUME NEW x \in Range(b) PROVE x \in Range(a \o b)
    <2>1. PICK i \in 1..n : x = b[i]
      BY ElementsOf
    <2>2. m + i \in 1..(m + n) /\ ~ (m + i <= m) /\ m + i - m = i
      BY <1>2
    <2>3. x = (a \o b)[m + i]
      BY <1>1, <2>1, <2>2
    <2> QED
      BY <1>1, <2>2, <2>3, ElementsOf
  <1> QED
    BY <1>1, <1>3, <1>4, <1>5

(* What a batch holds, and in which order.                                 *)
LEMMA BatchHolds ==
  ASSUME NEW q \in Lanes, NEW x
  PROVE  x \in Range(BatchOf(q)) <=> \E s \in Severity : \E i \in 1..Take(q, s) : x = q[s][i]
  <1>1. ASSUME NEW s \in Severity
        PROVE  /\ Part(q, s) \in Seq(Signal)
               /\ x \in Range(Part(q, s)) <=> \E i \in 1..Take(q, s) : x = q[s][i]
    <2>1. /\ Part(q, s) \in Seq(Signal) /\ Len(Part(q, s)) = Take(q, s)
          /\ \A i \in 1..Take(q, s) : Part(q, s)[i] = q[s][i]
      BY PopCuts
    <2>2. x \in Range(Part(q, s)) <=> \E i \in 1..Len(Part(q, s)) : x = Part(q, s)[i]
      BY <2>1, ElementsOf
    <2> QED
      BY <2>1, <2>2
  <1>2. 0 \in Severity /\ 1 \in Severity /\ 2 \in Severity /\ 3 \in Severity
    BY DEF Severity
  <1>3. BatchOf(q) = Part(q, 0) \o Part(q, 1) \o Part(q, 2) \o Part(q, 3)
    BY DEF BatchOf, Part
  <1>4. Range(BatchOf(q)) = Range(Part(q, 0)) \cup Range(Part(q, 1)) \cup Range(Part(q, 2))
                            \cup Range(Part(q, 3))
    <2> DEFINE a == Part(q, 0) \o Part(q, 1)
    <2>1. a \in Seq(Signal) /\ Range(a) = Range(Part(q, 0)) \cup Range(Part(q, 1))
      BY <1>1, <1>2, ConcatRange
    <2> HIDE DEF a
    <2> DEFINE b == a \o Part(q, 2)
    <2>2. b \in Seq(Signal) /\ Range(b) = Range(a) \cup Range(Part(q, 2))
      BY <1>1, <1>2, <2>1, ConcatRange
    <2> HIDE DEF b
    <2>3. Range(b \o Part(q, 3)) = Range(b) \cup Range(Part(q, 3))
      BY <1>1, <1>2, <2>2, ConcatRange
    <2>4. BatchOf(q) = b \o Part(q, 3)
      BY <1>3 DEF a, b
    <2> QED
      BY <2>1, <2>2, <2>3, <2>4
  <1>5. \A s \in Severity : s = 0 \/ s = 1 \/ s = 2 \/ s = 3
    BY DEF Severity
  <1>6. x \in Range(BatchOf(q)) <=> \E s \in Severity : x \in Range(Part(q, s))
    BY <1>2, <1>4, <1>5
  <1> QED
    BY <1>1, <1>6

LEMMA PartsApart ==
  ASSUME NEW q \in Lanes, NEW n, Aligned(q, n), NEW s \in Severity, NEW t \in Severity, s < t,
         NEW x \in Range(Part(q, s)), NEW y \in Range(Part(q, t))
  PROVE  Before(x, y)
  <1>1. PICK i \in 1..Take(q, s) : x = q[s][i]
    BY PopCuts, ElementsOf
  <1>2. PICK j \in 1..Take(q, t) : y = q[t][j]
    BY PopCuts, ElementsOf
  <1>3. i \in 1..Len(q[s]) /\ j \in 1..Len(q[t])
    BY PopCuts
  <1>4. x.sev = s /\ y.sev = t
    BY <1>1, <1>2, <1>3 DEF Aligned
  <1> QED
    BY <1>4 DEF Before

LEMMA BatchIsInOrder ==
  ASSUME NEW q \in Lanes, NEW n, Aligned(q, n)
  PROVE  InOrder(BatchOf(q))
  <1>1. ASSUME NEW s \in Severity
        PROVE  Part(q, s) \in Seq(Signal) /\ InOrder(Part(q, s))
    <2>1. ASSUME NEW i \in 1..Take(q, s), NEW j \in 1..Take(q, s), i < j
          PROVE  Before(Part(q, s)[i], Part(q, s)[j])
      <3>1. /\ i \in 1..Len(q[s]) /\ j \in 1..Len(q[s])
            /\ Part(q, s)[i] = q[s][i] /\ Part(q, s)[j] = q[s][j]
        BY PopCuts
      <3>2. q[s][i].sev = s /\ q[s][j].sev = s /\ q[s][i].id < q[s][j].id
        BY <2>1, <3>1 DEF Aligned
      <3> QED
        BY <3>1, <3>2 DEF Before
    <2> QED
      BY <2>1, PopCuts DEF InOrder
  <1>2. 0 \in Severity /\ 1 \in Severity /\ 2 \in Severity /\ 3 \in Severity
    BY DEF Severity
  <1>3. BatchOf(q) = Part(q, 0) \o Part(q, 1) \o Part(q, 2) \o Part(q, 3)
    BY DEF BatchOf, Part
  <1> DEFINE a == Part(q, 0) \o Part(q, 1)
  <1>4. \A x \in Range(Part(q, 0)), y \in Range(Part(q, 1)) : Before(x, y)
    BY <1>2, PartsApart
  <1>5. \A x \in Range(Part(q, 0)), y \in Range(Part(q, 2)) : Before(x, y)
    BY <1>2, PartsApart
  <1>6. \A x \in Range(Part(q, 0)), y \in Range(Part(q, 3)) : Before(x, y)
    BY <1>2, PartsApart
  <1>7. \A x \in Range(Part(q, 1)), y \in Range(Part(q, 2)) : Before(x, y)
    BY <1>2, PartsApart
  <1>8. \A x \in Range(Part(q, 1)), y \in Range(Part(q, 3)) : Before(x, y)
    BY <1>2, PartsApart
  <1>9. \A x \in Range(Part(q, 2)), y \in Range(Part(q, 3)) : Before(x, y)
    BY <1>2, PartsApart
  <1>10. a \in Seq(Signal) /\ InOrder(a) /\ Range(a) = Range(Part(q, 0)) \cup Range(Part(q, 1))
    BY <1>1, <1>2, <1>4, ConcatOrder, ConcatRange
  <1> HIDE DEF a
  <1> DEFINE b == a \o Part(q, 2)
  <1>11. \A x \in Range(a), y \in Range(Part(q, 2)) : Before(x, y)
    BY <1>5, <1>7, <1>10
  <1>12. b \in Seq(Signal) /\ InOrder(b) /\ Range(b) = Range(a) \cup Range(Part(q, 2))
    BY <1>1, <1>2, <1>10, <1>11, ConcatOrder, ConcatRange
  <1> HIDE DEF b
  <1>13. \A x \in Range(b), y \in Range(Part(q, 3)) : Before(x, y)
    BY <1>6, <1>8, <1>9, <1>10, <1>12
  <1>14. InOrder(b \o Part(q, 3))
    BY <1>1, <1>2, <1>12, <1>13, ConcatOrder
  <1>15. BatchOf(q) = b \o Part(q, 3)
    BY <1>3 DEF a, b
  <1> QED
    BY <1>14, <1>15

(* What stays behind a pop comes after all of the batch.                   *)
LEMMA RestComesAfter ==
  ASSUME NEW q \in Lanes, NEW n, Aligned(q, n),
         NEW x \in Range(BatchOf(q)), NEW y \in Held(Rest(q))
  PROVE  Before(x, y)
  <1>0. Rest(q) \in Lanes
    BY RestType
  <1>1. PICK s \in Severity : \E i \in 1..Take(q, s) : x = q[s][i]
    BY BatchHolds
  <1>2. PICK i \in 1..Take(q, s) : x = q[s][i]
    BY <1>1
  <1>3. PICK t \in Severity : \E j \in 1..Len(Rest(q)[t]) : y = Rest(q)[t][j]
    BY <1>0, HeldSomewhere
  <1>4. PICK j \in 1..Len(Rest(q)[t]) : y = Rest(q)[t][j]
    BY <1>3
  <1>5. /\ Take(q, s) \in 0..Len(q[s]) /\ Len(q[s]) \in Nat
        /\ Take(q, t) \in 0..Len(q[t]) /\ Len(q[t]) \in Nat
        /\ Len(Rest(q)[t]) = Len(q[t]) - Take(q, t)
        /\ y = q[t][Take(q, t) + j]
    BY <1>4, PopCuts
  <1>6. i \in 1..Len(q[s]) /\ Take(q, t) + j \in 1..Len(q[t]) /\ Take(q, s) # 0
        /\ Take(q, t) # Len(q[t])
    <2> DEFINE a == Take(q, s)
               b == Take(q, t)
               l == Len(q[s])
               m == Len(q[t])
               r == Len(Rest(q)[t])
    <2>1. a \in 0..l /\ l \in Nat /\ b \in 0..m /\ m \in Nat /\ r = m - b
          /\ i \in 1..a /\ j \in 1..r
      BY <1>5
    <2> HIDE DEF a, b, l, m, r
    <2>2. i \in 1..l /\ b + j \in 1..m /\ a # 0 /\ b # m
      BY <2>1
    <2> QED
      BY <2>2 DEF a, b, l, m
  <1>7. x.sev = s /\ y.sev = t
    BY <1>2, <1>5, <1>6 DEF Aligned
  <1>8. ~ (t < s)
    BY <1>6, TakesInTurn
  <1>9. s < t \/ s = t
    BY <1>8 DEF Severity
  <1>10. CASE s < t
    BY <1>7, <1>10 DEF Before
  <1>11. CASE s = t
    <2>1. i < Take(q, t) + j
      BY <1>5, <1>11
    <2>2. x.id < y.id
      BY <1>2, <1>5, <1>6, <1>11, <2>1 DEF Aligned
    <2> QED
      BY <1>7, <1>11, <2>2 DEF Before
  <1> QED
    BY <1>9, <1>10, <1>11

(* A batch is full, or it leaves nothing.                                  *)
LEMMA FullOrAll ==
  ASSUME NEW q \in Lanes
  PROVE  Len(BatchOf(q)) = BatchSize \/ Held(Rest(q)) = {}
  <1>1. CASE \A s \in Severity : Take(q, s) = Len(q[s])
    <2>1. Rest(q) \in Lanes /\ \A s \in Severity : Len(Rest(q)[s]) = 0
      BY <1>1, RestType, PopCuts
    <2>2. \A x : x \notin Held(Rest(q))
      BY <2>1, HeldSomewhere
    <2> QED
      BY <2>2
  <1>2. CASE Take(q, 0) + Take(q, 1) + Take(q, 2) + Take(q, 3) = BatchSize
    BY <1>2, BatchTakes
  <1> QED
    BY <1>1, <1>2, TakesFill

(* Nothing of a popped lane is neither in the batch nor left.              *)
LEMMA PopKeepsAll ==
  ASSUME NEW q \in Lanes, NEW x \in Held(q)
  PROVE  x \in Held(Rest(q)) \/ x \in Range(BatchOf(q))
  <1>0. Rest(q) \in Lanes
    BY RestType
  <1>1. PICK s \in Severity : \E i \in 1..Len(q[s]) : x = q[s][i]
    BY HeldSomewhere
  <1>2. PICK i \in 1..Len(q[s]) : x = q[s][i]
    BY <1>1
  <1>3. /\ Take(q, s) \in 0..Len(q[s]) /\ Len(q[s]) \in Nat
        /\ Len(Rest(q)[s]) = Len(q[s]) - Take(q, s)
        /\ \A j \in 1..Len(Rest(q)[s]) : Rest(q)[s][j] = q[s][Take(q, s) + j]
    BY PopCuts
  <1>4. CASE i <= Take(q, s)
    <2>1. i \in 1..Take(q, s)
      BY <1>3, <1>4
    <2> QED
      BY <1>2, <2>1, BatchHolds
  <1>5. CASE ~ (i <= Take(q, s))
    <2>1. i - Take(q, s) \in 1..Len(Rest(q)[s]) /\ Take(q, s) + (i - Take(q, s)) = i
      BY <1>3, <1>5
    <2>2. Rest(q)[s][i - Take(q, s)] = x
      BY <1>2, <1>3, <2>1
    <2> QED
      BY <1>0, <2>1, <2>2, HeldSomewhere
  <1> QED
    BY <1>4, <1>5

LEMMA RestAligned ==
  ASSUME NEW q \in Lanes, NEW n, Aligned(q, n)
  PROVE  Aligned(Rest(q), n)
  <1>1. ASSUME NEW s \in Severity
        PROVE  /\ \A i \in 1..Len(Rest(q)[s]) : Rest(q)[s][i].sev = s /\ Rest(q)[s][i].id <= n
               /\ \A i, j \in 1..Len(Rest(q)[s]) : i < j => Rest(q)[s][i].id < Rest(q)[s][j].id
    <2> DEFINE t == Take(q, s)
               m == Len(Rest(q)[s])
    <2>1. /\ t \in 0..Len(q[s]) /\ Len(q[s]) \in Nat /\ m = Len(q[s]) - t
          /\ \A i \in 1..m : Rest(q)[s][i] = q[s][t + i]
      BY PopCuts
    <2> HIDE DEF t, m
    <2>2. \A i \in 1..m : t + i \in 1..Len(q[s])
      BY <2>1
    <2>3. \A i, j \in 1..m : i < j => t + i < t + j
      BY <2>1
    <2>4. \A i \in 1..m : Rest(q)[s][i].sev = s /\ Rest(q)[s][i].id <= n
      BY <2>1, <2>2 DEF Aligned
    <2>5. ASSUME NEW i \in 1..m, NEW j \in 1..m, i < j
          PROVE  Rest(q)[s][i].id < Rest(q)[s][j].id
      <3>1. q[s][t + i].id < q[s][t + j].id
        BY <2>2, <2>3, <2>5 DEF Aligned
      <3> QED
        BY <2>1, <3>1
    <2> QED
      BY <2>4, <2>5 DEF m
  <1> QED
    BY <1>1 DEF Aligned

(* The two changes of a lane by a submit.                                  *)
LEMMA TailShifts ==
  ASSUME NEW q \in Lanes, NEW v \in Severity, q[v] # <<>>
  PROVE  LET r == [q EXCEPT ![v] = Tail(@)] IN
         /\ r \in Lanes /\ Len(q[v]) \in Nat \ {0} /\ Len(r[v]) = Len(q[v]) - 1
         /\ \A i \in 1..Len(r[v]) : r[v][i] = q[v][i + 1]
         /\ \A t \in Severity \ {v} : r[t] = q[t]
  <1> DEFINE l == q[v]
             r == [q EXCEPT ![v] = Tail(@)]
  <1>1. l \in Seq(Signal) /\ l # <<>>
    BY SizeType
  <1>2. r[v] = Tail(l)
    BY DEF Lanes
  <1>3. r \in Lanes /\ \A t \in Severity \ {v} : r[t] = q[t]
    BY TailSize
  <1>4. /\ Len(Tail(l)) = Len(l) - 1
        /\ \A i \in 1..Len(Tail(l)) : Tail(l)[i] = l[i + 1]
    BY <1>1, HeadTailProperties
  <1>5. Len(l) \in Nat \ {0}
    BY <1>1
  <1> QED
    BY <1>2, <1>3, <1>4, <1>5

LEMMA AppendShifts ==
  ASSUME NEW q \in Lanes, NEW s \in Severity, NEW x \in Signal
  PROVE  LET r == [q EXCEPT ![s] = Append(@, x)] IN
         /\ r \in Lanes /\ Len(q[s]) \in Nat /\ Len(r[s]) = Len(q[s]) + 1
         /\ \A i \in 1..Len(q[s]) : r[s][i] = q[s][i]
         /\ r[s][Len(q[s]) + 1] = x
         /\ \A t \in Severity \ {s} : r[t] = q[t]
  <1> DEFINE l == q[s]
             r == [q EXCEPT ![s] = Append(@, x)]
  <1>1. l \in Seq(Signal)
    BY SizeType
  <1>2. r[s] = Append(l, x)
    BY DEF Lanes
  <1>3. r \in Lanes /\ \A t \in Severity \ {s} : r[t] = q[t]
    BY AppendSize
  <1>4. /\ Len(l) \in Nat /\ Len(Append(l, x)) = Len(l) + 1
        /\ \A i \in 1..Len(l) : Append(l, x)[i] = l[i]
        /\ Append(l, x)[Len(l) + 1] = x
    BY <1>1
  <1> QED
    BY <1>2, <1>3, <1>4

LEMMA TailAligned ==
  ASSUME NEW q \in Lanes, NEW n, Aligned(q, n), NEW v \in Severity, q[v] # <<>>
  PROVE  Aligned([q EXCEPT ![v] = Tail(@)], n)
  <1> DEFINE r == [q EXCEPT ![v] = Tail(@)]
  <1>1. /\ r \in Lanes /\ Len(q[v]) \in Nat \ {0} /\ Len(r[v]) = Len(q[v]) - 1
        /\ \A i \in 1..Len(r[v]) : r[v][i] = q[v][i + 1]
        /\ \A t \in Severity \ {v} : r[t] = q[t]
    BY TailShifts
  <1> HIDE DEF r
  <1>2. \A i \in 1..Len(r[v]) : i + 1 \in 1..Len(q[v])
    BY <1>1
  <1>3. \A i, j \in 1..Len(r[v]) : i < j => i + 1 < j + 1
    BY <1>1
  <1>4. \A i \in 1..Len(r[v]) : r[v][i].sev = v /\ r[v][i].id <= n
    BY <1>1, <1>2 DEF Aligned
  <1>5. ASSUME NEW i \in 1..Len(r[v]), NEW j \in 1..Len(r[v]), i < j
        PROVE  r[v][i].id < r[v][j].id
    <2>1. q[v][i + 1].id < q[v][j + 1].id
      BY <1>2, <1>3, <1>5 DEF Aligned
    <2> QED
      BY <1>1, <2>1
  <1>6. ASSUME NEW t \in Severity, t # v
        PROVE  /\ \A i \in 1..Len(r[t]) : r[t][i].sev = t /\ r[t][i].id <= n
               /\ \A i, j \in 1..Len(r[t]) : i < j => r[t][i].id < r[t][j].id
    <2>1. r[t] = q[t]
      BY <1>1, <1>6
    <2> QED
      BY <2>1 DEF Aligned
  <1>7. Aligned(r, n)
    BY <1>4, <1>5, <1>6 DEF Aligned
  <1> QED
    BY <1>7 DEF r

LEMMA AppendAligned ==
  ASSUME NEW q \in Lanes, NEW n \in Nat, Aligned(q, n), NEW s \in Severity
  PROVE  Aligned([q EXCEPT ![s] = Append(@, [sev |-> s, id |-> n + 1])], n + 1)
  <1> DEFINE x == [sev |-> s, id |-> n + 1]
             r == [q EXCEPT ![s] = Append(@, x)]
             m == Len(q[s])
  <1>0. x \in Signal /\ x.sev = s /\ x.id = n + 1
    BY DEF Signal
  <1> HIDE DEF x
  <1>1. /\ r \in Lanes /\ m \in Nat /\ Len(r[s]) = m + 1
        /\ \A i \in 1..m : r[s][i] = q[s][i]
        /\ r[s][m + 1] = x
        /\ \A t \in Severity \ {s} : r[t] = q[t]
    BY <1>0, AppendShifts
  <1> HIDE DEF r
  <1>2. ASSUME NEW t \in Severity, NEW i \in 1..Len(q[t])
        PROVE  q[t][i].sev = t /\ q[t][i].id \in Nat /\ q[t][i].id <= n /\ q[t][i].id <= n + 1
    <2>1. q[t][i] \in Signal
      BY SizeType
    <2>2. q[t][i].id \in Nat /\ q[t][i].id <= n /\ q[t][i].sev = t
      BY <2>1 DEF Signal, Aligned
    <2> QED
      BY <2>2
  <1>3. ASSUME NEW i \in 1..Len(r[s]) PROVE r[s][i].sev = s /\ r[s][i].id <= n + 1
    <2>1. CASE i \in 1..m
      BY <1>1, <1>2, <2>1
    <2>2. CASE i = m + 1
      BY <1>0, <1>1, <2>2
    <2> QED
      BY <1>1, <2>1, <2>2
  <1>4. ASSUME NEW i \in 1..Len(r[s]), NEW j \in 1..Len(r[s]), i < j
        PROVE  r[s][i].id < r[s][j].id
    <2>1. i \in 1..m
      BY <1>1, <1>4
    <2>2. CASE j \in 1..m
      <3>1. q[s][i].id < q[s][j].id
        BY <1>4, <2>1, <2>2 DEF Aligned
      <3> QED
        BY <1>1, <2>1, <2>2, <3>1
    <2>3. CASE j = m + 1
      <3>1. q[s][i].id \in Nat /\ q[s][i].id <= n
        BY <1>2, <2>1
      <3>2. q[s][i].id < n + 1
        BY <3>1
      <3> QED
        BY <1>0, <1>1, <2>1, <2>3, <3>2
    <2> QED
      BY <1>1, <2>2, <2>3
  <1>5. ASSUME NEW t \in Severity, t # s
        PROVE  /\ \A i \in 1..Len(r[t]) : r[t][i].sev = t /\ r[t][i].id <= n + 1
               /\ \A i, j \in 1..Len(r[t]) : i < j => r[t][i].id < r[t][j].id
    <2>1. r[t] = q[t]
      BY <1>1, <1>5
    <2> QED
      BY <1>2, <2>1 DEF Aligned
  <1>6. Aligned(r, n + 1)
    BY <1>3, <1>4, <1>5 DEF Aligned
  <1> QED
    BY <1>6 DEF r, x

LEMMA AlignedLater ==
  ASSUME NEW q \in Lanes, NEW n \in Nat, Aligned(q, n)
  PROVE  Aligned(q, n + 1)
  <1>1. ASSUME NEW t \in Severity, NEW i \in 1..Len(q[t])
        PROVE  q[t][i].sev = t /\ q[t][i].id <= n + 1
    <2>1. q[t][i] \in Signal
      BY SizeType
    <2>2. q[t][i].id \in Nat /\ q[t][i].id <= n /\ q[t][i].sev = t
      BY <2>1 DEF Signal, Aligned
    <2> QED
      BY <2>2
  <1> QED
    BY <1>1 DEF Aligned

(* What a submit adds and takes away.                                      *)
LEMMA AppendHeld ==
  ASSUME NEW q \in Lanes, NEW s \in Severity, NEW x \in Signal, NEW y
  PROVE  /\ y \in Held(q) => y \in Held([q EXCEPT ![s] = Append(@, x)])
         /\ y \in Held([q EXCEPT ![s] = Append(@, x)]) => y \in Held(q) \/ y = x
  <1> DEFINE r == [q EXCEPT ![s] = Append(@, x)]
             m == Len(q[s])
  <1>1. /\ r \in Lanes /\ m \in Nat /\ Len(r[s]) = m + 1
        /\ \A i \in 1..m : r[s][i] = q[s][i]
        /\ r[s][m + 1] = x
        /\ \A t \in Severity \ {s} : r[t] = q[t]
    BY AppendShifts
  <1> HIDE DEF r
  <1>2. ASSUME y \in Held(q) PROVE y \in Held(r)
    <2>1. PICK t \in Severity : \E i \in 1..Len(q[t]) : y = q[t][i]
      BY <1>2, HeldSomewhere
    <2>2. PICK i \in 1..Len(q[t]) : y = q[t][i]
      BY <2>1
    <2>3. i \in 1..Len(r[t]) /\ y = r[t][i]
      <3>1. CASE t = s
        BY <1>1, <2>2, <3>1
      <3>2. CASE t # s
        BY <1>1, <2>2, <3>2
      <3> QED
        BY <3>1, <3>2
    <2> QED
      BY <1>1, <2>3, HeldSomewhere
  <1>3. ASSUME y \in Held(r) PROVE y \in Held(q) \/ y = x
    <2>1. PICK t \in Severity : \E i \in 1..Len(r[t]) : y = r[t][i]
      BY <1>1, <1>3, HeldSomewhere
    <2>2. PICK i \in 1..Len(r[t]) : y = r[t][i]
      BY <2>1
    <2>3. y = x \/ (i \in 1..Len(q[t]) /\ y = q[t][i])
      <3>1. CASE t = s
        BY <1>1, <2>2, <3>1
      <3>2. CASE t # s
        BY <1>1, <2>2, <3>2
      <3> QED
        BY <3>1, <3>2
    <2> QED
      BY <2>3, HeldSomewhere
  <1> QED
    BY <1>2, <1>3 DEF r

LEMMA TailHeld ==
  ASSUME NEW q \in Lanes, NEW v \in Severity, q[v] # <<>>, NEW y \in Held(q),
         y \notin Held([q EXCEPT ![v] = Tail(@)])
  PROVE  y = q[v][1]
  <1> DEFINE r == [q EXCEPT ![v] = Tail(@)]
  <1>1. /\ r \in Lanes /\ Len(q[v]) \in Nat \ {0} /\ Len(r[v]) = Len(q[v]) - 1
        /\ \A i \in 1..Len(r[v]) : r[v][i] = q[v][i + 1]
        /\ \A t \in Severity \ {v} : r[t] = q[t]
    BY TailShifts
  <1>2. y \notin Held(r)
    OBVIOUS
  <1> HIDE DEF r
  <1>3. PICK t \in Severity : \E i \in 1..Len(q[t]) : y = q[t][i]
    BY HeldSomewhere
  <1>4. PICK i \in 1..Len(q[t]) : y = q[t][i]
    BY <1>3
  <1>5. CASE t # v
    BY <1>1, <1>2, <1>4, <1>5, HeldSomewhere
  <1>6. CASE t = v /\ i # 1
    <2>1. i - 1 \in 1..Len(r[v]) /\ i - 1 + 1 = i
      BY <1>1, <1>6
    <2>2. r[v][i - 1] = y
      BY <1>1, <1>4, <1>6, <2>1
    <2> QED
      BY <1>1, <1>2, <2>1, <2>2, HeldSomewhere
  <1> QED
    BY <1>4, <1>5, <1>6

(* The lanes and the count of the arrivals move by submits and pops only,  *)
(* and a sink call is opened by its pop only.                              *)
LEMMA LanesAndArrivals ==
  ASSUME [Next]_vars
  PROVE  \/ \E s \in Severity : Submit(s)
         \/ \E d \in Drainers : StartDrain(d)
         \/ UNCHANGED <<lane, arrived>>
  <1>1. ASSUME NEW d \in Drainers, SinkSucceeds(d) \/ SinkFails(d)
        PROVE  UNCHANGED <<lane, arrived>>
    BY <1>1 DEF SinkSucceeds, SinkFails
  <1>2. ASSUME NEW h \in Hooks, BeginShutdown(h) \/ DrainAllReturns(h) \/ DeadlinePasses(h)
        PROVE  UNCHANGED <<lane, arrived>>
    BY <1>2 DEF BeginShutdown, DrainAllReturns, DeadlinePasses
  <1>3. ASSUME NEW h \in Hooks, DrainAllStep(h)
        PROVE  h \in Drainers /\ StartDrain(h)
    BY <1>3 DEF DrainAllStep, Drainers
  <1>4. CASE DrainTick
    BY <1>4 DEF DrainTick, Drainers
  <1>5. CASE UNCHANGED vars
    BY <1>5 DEF vars
  <1> QED
    BY <1>1, <1>2, <1>3, <1>4, <1>5 DEF Next

LEMMA FlightStarts ==
  ASSUME [Next]_vars, inFlight \in [Drainers -> Seq(Signal)], NEW d \in Drainers,
         inFlight[d] = <<>>, inFlight'[d] # <<>>
  PROVE  StartDrain(d)
  <1>1. inFlight' # inFlight
    OBVIOUS
  <1>2. ASSUME NEW s \in Severity PROVE ~ Submit(s)
    BY <1>1 DEF Submit, SubmitShed, SubmitFull, SubmitAccepted, SubmitEvicting, drainVars
  <1>3. ASSUME NEW e \in Drainers PROVE ~ SinkSucceeds(e) /\ ~ SinkFails(e)
    <2> SUFFICES ASSUME inFlight' = [inFlight EXCEPT ![e] = <<>>] PROVE FALSE
      BY DEF SinkSucceeds, SinkFails
    <2> QED
      OBVIOUS
  <1>4. ASSUME NEW h \in Hooks
        PROVE  ~ BeginShutdown(h) /\ ~ DrainAllReturns(h) /\ ~ DeadlinePasses(h)
    BY <1>1 DEF BeginShutdown, DrainAllReturns, DeadlinePasses
  <1>5. ASSUME NEW e \in Drainers, StartDrain(e) PROVE e = d
    BY <1>5 DEF StartDrain
  <1>6. ASSUME NEW h \in Hooks, DrainAllStep(h) PROVE StartDrain(d)
    <2>1. h \in Drainers /\ StartDrain(h)
      BY <1>6 DEF DrainAllStep, Drainers
    <2> QED
      BY <1>5, <2>1
  <1>7. CASE DrainTick
    <2>1. Tick \in Drainers /\ StartDrain(Tick)
      BY <1>7 DEF DrainTick, Drainers
    <2> QED
      BY <1>5, <2>1
  <1>8. ~ UNCHANGED vars
    BY <1>1 DEF vars
  <1> QED
    BY <1>2, <1>3, <1>4, <1>6, <1>7, <1>8 DEF Next

(* A submit keeps the lanes in order.                                      *)
LEMMA SubmitOrder ==
  ASSUME OrderInv, NEW s \in Severity, Submit(s)
  PROVE  Aligned(lane', arrived')
  <1>0. lane \in Lanes /\ arrived \in Nat /\ Aligned(lane, arrived)
    BY DEF OrderInv, IInv, TypeOK, Lanes
  <1>1. CASE SubmitShed(s) \/ SubmitFull(s)
    <2>1. lane' = lane /\ arrived' = arrived + 1
      BY <1>1 DEF SubmitShed, SubmitFull, Arrive
    <2> QED
      BY <1>0, <2>1, AlignedLater
  <1>2. CASE SubmitAccepted(s)
    <2>1. /\ lane' = [lane EXCEPT ![s] = Append(@, [sev |-> s, id |-> arrived + 1])]
          /\ arrived' = arrived + 1
      BY <1>2 DEF SubmitAccepted, Push, Arrive
    <2> QED
      BY <1>0, <2>1, AppendAligned
  <1>3. CASE SubmitEvicting
    <2>1. PICK v \in Severity : /\ IsVictimLane(lane, v)
                                /\ Push([lane EXCEPT ![v] = Tail(@)], 0)
      BY <1>3 DEF SubmitEvicting
    <2> DEFINE q == [lane EXCEPT ![v] = Tail(@)]
    <2>2. q \in Lanes /\ Aligned(q, arrived)
      BY <1>0, <2>1, TailShifts, TailAligned DEF IsVictimLane
    <2>3. Push(q, 0)
      BY <2>1
    <2>4. arrived' = arrived + 1
      BY <1>3 DEF SubmitEvicting, Arrive
    <2> HIDE DEF q
    <2>5. lane' = [q EXCEPT ![0] = Append(@, [sev |-> 0, id |-> arrived + 1])]
      BY <2>3 DEF Push
    <2>6. 0 \in Severity
      BY DEF Severity
    <2> QED
      BY <1>0, <2>2, <2>4, <2>5, <2>6, AppendAligned
  <1> QED
    BY <1>1, <1>2, <1>3 DEF Submit

LEMMA OrderInductive == Spec => []OrderInv
  <1>1. Init => Aligned(lane, arrived)
    <2> SUFFICES ASSUME Init PROVE Aligned(lane, arrived)
      OBVIOUS
    <2>1. \A s \in Severity : lane[s] = <<>>
      BY DEF Init
    <2> QED
      BY <2>1 DEF Aligned
  <1>2. IInv /\ Aligned(lane, arrived) /\ [Next]_vars => Aligned(lane, arrived)'
    <2> SUFFICES ASSUME OrderInv, [Next]_vars PROVE Aligned(lane', arrived')
      BY DEF OrderInv
    <2>0. lane \in Lanes /\ Aligned(lane, arrived)
      BY DEF OrderInv, IInv, TypeOK, Lanes
    <2>1. ASSUME NEW s \in Severity, Submit(s) PROVE Aligned(lane', arrived')
      BY <2>1, SubmitOrder
    <2>2. ASSUME NEW d \in Drainers, StartDrain(d) PROVE Aligned(lane', arrived')
      BY <2>0, <2>2, RestAligned DEF StartDrain
    <2>3. CASE UNCHANGED <<lane, arrived>>
      BY <2>0, <2>3
    <2> QED
      BY <2>1, <2>2, <2>3, LanesAndArrivals
  <1>3. OrderInv <=> IInv /\ Aligned(lane, arrived)
    BY DEF OrderInv
  <1> QED
    BY <1>1, <1>2, <1>3, BoundsInductive, PTL DEF Spec

(* A P0 in a full buffer is all that drives out a signal: the oldest of    *)
(* the least urgent that there are.                                        *)
LEMMA EvictedInOrder ==
  ASSUME OrderInv, NEW s \in Severity, Submit(s),
         NEW x \in Held(lane), x \notin Held(lane')
  PROVE  /\ Size(lane) = Capacity
         /\ Len(lane'[0]) >= Len(lane[0])
         /\ \A y \in Held(lane') \cap Held(lane) :
              y.sev <= x.sev /\ (y.sev = x.sev => x.id < y.id)
  <1>0. /\ lane \in Lanes /\ arrived \in Nat /\ Aligned(lane, arrived)
        /\ Size(lane) \in Nat /\ Size(lane) <= Capacity /\ Capacity \in Nat
    BY SizeType, BufferAssumption DEF OrderInv, IInv, TypeOK, Lanes, CapacityBound
  <1> DEFINE new(t) == [sev |-> t, id |-> arrived + 1]
  <1>a. \A t \in Severity : new(t) \in Signal /\ new(t).sev = t /\ new(t).id = arrived + 1
    BY <1>0 DEF Signal
  <1>1. ~ SubmitShed(s) /\ ~ SubmitFull(s)
    BY DEF SubmitShed, SubmitFull
  <1>2. ~ SubmitAccepted(s)
    <2> SUFFICES ASSUME SubmitAccepted(s) PROVE FALSE
      OBVIOUS
    <2>1. lane' = [lane EXCEPT ![s] = Append(@, new(s))]
      BY DEF SubmitAccepted, Push
    <2> HIDE DEF new
    <2> QED
      BY <1>0, <1>a, <2>1, AppendHeld
  <1>3. SubmitEvicting /\ 0 \in Severity
    BY <1>1, <1>2 DEF Submit, Severity
  <1>4. PICK v \in Severity : /\ IsVictimLane(lane, v)
                              /\ Push([lane EXCEPT ![v] = Tail(@)], 0)
    BY <1>3 DEF SubmitEvicting
  <1> DEFINE q == [lane EXCEPT ![v] = Tail(@)]
  <1>5. /\ q \in Lanes /\ Len(lane[v]) \in Nat \ {0} /\ Len(q[v]) = Len(lane[v]) - 1
        /\ \A t \in Severity \ {v} : q[t] = lane[t]
        /\ \A i \in 1..Len(q[v]) : q[v][i] = lane[v][i + 1]
    BY <1>0, <1>4, TailShifts DEF IsVictimLane
  <1>6. lane' = [q EXCEPT ![0] = Append(@, new(0))]
    BY <1>4 DEF Push
  <1>7. x \notin Held(q) => x = lane[v][1]
    BY <1>0, <1>4, TailHeld DEF IsVictimLane
  <1> HIDE DEF new, q
  <1>8. x = lane[v][1]
    BY <1>3, <1>5, <1>6, <1>7, <1>a, AppendHeld
  <1>9. x.sev = v
    BY <1>0, <1>5, <1>8 DEF Aligned
  <1>10. Size(lane) = Capacity
    BY <1>0, <1>3 DEF SubmitEvicting
  <1>11. Len(lane'[0]) >= Len(lane[0])
    <2>1. Len(lane'[0]) = Len(q[0]) + 1 /\ Len(q[0]) \in Nat /\ Len(lane[0]) \in Nat
      <3>1. new(0) \in Signal
        BY <1>3, <1>a
      <3>2. Len(lane'[0]) = Len(q[0]) + 1 /\ Len(q[0]) \in Nat
        BY <1>3, <1>5, <1>6, <3>1, AppendShifts
      <3> QED
        BY <1>0, <1>3, <3>2, SizeType
    <2>2. Len(q[0]) >= Len(lane[0]) - 1
      <3>1. CASE v = 0
        BY <1>5, <3>1
      <3>2. CASE v # 0
        BY <1>3, <1>5, <2>1, <3>2
      <3> QED
        BY <3>1, <3>2
    <2> QED
      BY <2>1, <2>2
  <1>12. ASSUME NEW y \in Held(lane') \cap Held(lane)
         PROVE  y.sev <= x.sev /\ (y.sev = x.sev => x.id < y.id)
    <2>1. PICK t \in Severity : \E i \in 1..Len(lane[t]) : y = lane[t][i]
      BY <1>0, <1>12, HeldSomewhere
    <2>2. PICK i \in 1..Len(lane[t]) : y = lane[t][i]
      BY <2>1
    <2>3. y.sev = t /\ y.id <= arrived
      BY <1>0, <2>2 DEF Aligned
    <2>4. ~ (t > v)
      <3>1. Len(lane[t]) \in Nat /\ lane[t] # <<>>
        BY <1>0, <2>2, SizeType
      <3> QED
        BY <1>4, <3>1 DEF IsVictimLane
    <2>5. t <= v
      BY <2>4 DEF Severity
    <2>6. CASE t = v
      <3>1. i # 1
        <4> SUFFICES ASSUME i = 1 PROVE FALSE
          OBVIOUS
        <4>1. y = x
          BY <1>8, <2>2, <2>6
        <4> QED
          BY <1>12, <4>1
      <3>2. 1 \in 1..Len(lane[v]) /\ i \in 1..Len(lane[v]) /\ 1 < i
        BY <1>5, <2>2, <2>6, <3>1
      <3>3. lane[v][1].id < lane[v][i].id
        BY <1>0, <3>2 DEF Aligned
      <3> QED
        BY <1>8, <1>9, <2>2, <2>3, <2>5, <2>6, <3>3
    <2>7. CASE t # v
      BY <1>9, <2>3, <2>5, <2>7
    <2> QED
      BY <2>6, <2>7
  <1> QED
    BY <1>10, <1>11, <1>12

(* evictToMakeRoomForP0 (docs/backpressure.md): whatever is buffered, a    *)
(* signal is evicted only for a P0, only from a full buffer, only when     *)
(* nothing less urgent is there and as the oldest of its severity.         *)
THEOREM EvictionInOrder == Spec => EvictionOrder
  <1> DEFINE Ordered == \A x \in Buffered \ (Buffered' \cup Flying') :
                          /\ Size(lane) = Capacity
                          /\ Len(lane'[0]) >= Len(lane[0])
                          /\ \A y \in Buffered' \cap Buffered :
                               y.sev <= x.sev /\ (y.sev = x.sev => x.id < y.id)
  <1>1. OrderInv /\ [Next]_vars => Ordered
    <2> SUFFICES ASSUME OrderInv, [Next]_vars, NEW x \in Buffered, x \notin Buffered',
                        x \notin Flying'
                 PROVE  /\ Size(lane) = Capacity
                        /\ Len(lane'[0]) >= Len(lane[0])
                        /\ \A y \in Buffered' \cap Buffered :
                             y.sev <= x.sev /\ (y.sev = x.sev => x.id < y.id)
      OBVIOUS
    <2>0. lane \in Lanes /\ Buffered = Held(lane) /\ Buffered' = Held(lane')
      BY DEF OrderInv, IInv, TypeOK, Lanes, Buffered, Held
    <2>1. ASSUME NEW s \in Severity, Submit(s)
          PROVE  /\ Size(lane) = Capacity
                 /\ Len(lane'[0]) >= Len(lane[0])
                 /\ \A y \in Buffered' \cap Buffered :
                      y.sev <= x.sev /\ (y.sev = x.sev => x.id < y.id)
      BY <2>0, <2>1, EvictedInOrder
    <2>2. ASSUME NEW d \in Drainers, StartDrain(d) PROVE FALSE
      <3>1. lane' = Rest(lane) /\ x \in Range(BatchOf(lane))
        BY <2>0, <2>2, PopKeepsAll DEF StartDrain
      <3>2. inFlight'[d] = BatchOf(lane)
        BY <2>2 DEF StartDrain, OrderInv, IInv, TypeOK
      <3>3. x \in Flying'
        BY <3>1, <3>2 DEF Flying
      <3> QED
        BY <3>3
    <2>3. ~ UNCHANGED <<lane, arrived>>
      BY <2>0
    <2> QED
      BY <2>1, <2>2, <2>3, LanesAndArrivals
  <1>2. [][Ordered]_vars <=> EvictionOrder
    BY PTL DEF EvictionOrder
  <1> QED
    BY <1>1, <1>2, OrderInductive, PTL DEF Spec

(* popPriorityBatch: for every batch size, a sink call gets the most       *)
(* urgent signals there are, the oldest first, and as many as fit.         *)
THEOREM DrainsInOrder == Spec => DrainPriority
  <1> DEFINE Prior == \A d \in Drainers : LET batch == inFlight'[d] IN
                        inFlight[d] = <<>> /\ batch # <<>> =>
                          /\ \A i, j \in DOMAIN batch : i < j => Before(batch[i], batch[j])
                          /\ \A x \in Range(batch), y \in Buffered' : Before(x, y)
                          /\ Len(batch) = BatchSize \/ Buffered' = {}
  <1>1. OrderInv /\ [Next]_vars => Prior
    <2> SUFFICES ASSUME OrderInv, [Next]_vars, NEW d \in Drainers,
                        inFlight[d] = <<>>, inFlight'[d] # <<>>
                 PROVE  LET batch == inFlight'[d] IN
                          /\ \A i, j \in DOMAIN batch : i < j => Before(batch[i], batch[j])
                          /\ \A x \in Range(batch), y \in Buffered' : Before(x, y)
                          /\ Len(batch) = BatchSize \/ Buffered' = {}
      OBVIOUS
    <2>0. lane \in Lanes /\ Aligned(lane, arrived) /\ inFlight \in [Drainers -> Seq(Signal)]
          /\ Buffered' = Held(lane')
      BY DEF OrderInv, IInv, TypeOK, Lanes, Buffered, Held
    <2>1. StartDrain(d)
      BY <2>0, FlightStarts
    <2>2. inFlight'[d] = BatchOf(lane) /\ lane' = Rest(lane)
      BY <2>0, <2>1 DEF StartDrain
    <2>3. BatchOf(lane) \in Seq(Signal) /\ InOrder(BatchOf(lane))
      BY <2>0, BatchType, BatchIsInOrder
    <2>4. DOMAIN BatchOf(lane) = 1..Len(BatchOf(lane))
      BY <2>3
    <2>5. \A i, j \in DOMAIN BatchOf(lane) : i < j => Before(BatchOf(lane)[i], BatchOf(lane)[j])
      BY <2>3, <2>4 DEF InOrder
    <2>6. \A x \in Range(BatchOf(lane)), y \in Held(Rest(lane)) : Before(x, y)
      BY <2>0, RestComesAfter
    <2>7. Len(BatchOf(lane)) = BatchSize \/ Held(Rest(lane)) = {}
      BY <2>0, FullOrAll
    <2> QED
      BY <2>0, <2>2, <2>5, <2>6, <2>7
  <1>2. [][Prior]_vars <=> DrainPriority
    BY PTL DEF DrainPriority
  <1> QED
    BY <1>1, <1>2, OrderInductive, PTL DEF Spec

=============================================================================
