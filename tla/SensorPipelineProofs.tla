------------------------ MODULE SensorPipelineProofs ------------------------
(***************************************************************************)
(* Theorems about SensorPipeline, for every set of spots and sensors, any  *)
(* capacity of the queue and any number of deaths of the consumer.         *)
(***************************************************************************)
EXTENDS SensorPipeline, InventoryProofs

-----------------------------------------------------------------------------
(* The inventory inside the pipeline *)

\* Only the consumer touches its own transaction.
LEMMA WorkloadKeeps ==
  ASSUME Workload PROVE UNCHANGED <<sensor, queue, handled, reported, missed, restarts>>
BY DEF Workload, pipeline, ReserveSpot, CancelReservation, Serve, PricingOutcome,
       CheckSpot, FindUser, CheckOverlap, CommitReservation, Refresh,
       CommitCancel, Abort, Tick

LEMMA CurrentMessage ==
  ASSUME ConsumerOK, handled < Len(queue)
  PROVE  Current.spot \in Sensors /\ Current.status \in SensorStatus
<1>1. Current \in Message
  <2>1. handled + 1 \in 1..Len(queue) /\ queue \in Seq(Message)
    BY DEF ConsumerOK
  <2> QED
    BY <2>1 DEF Current
<1> QED
  BY <1>1 DEF Message

\* The consumer works on the event at its position in the queue, whatever is
\* published, acknowledged or delivered again meanwhile.
LEMMA ConsumerPosition == PipelineSpec => []ConsumerOK
<1>1. PipelineInit => ConsumerOK
  BY DEF PipelineInit, Init, ConsumerOK, Updating
<1>2. ConsumerOK /\ [PipelineNext]_pipelineVars => ConsumerOK'
  <2> SUFFICES ASSUME ConsumerOK, [PipelineNext]_pipelineVars PROVE ConsumerOK'
    OBVIOUS
  <2> USE DEF ConsumerOK, Updating, Current
  <2>1. ASSUME NEW s \in Sensors, NEW new \in SensorStatus, Publish(s, new)
        PROVE  ConsumerOK'
    <3>1. [spot |-> s, status |-> new] \in Message
      BY DEF Message
    <3>2. handled' = handled /\ sensor' = sensor
          /\ queue' = Append(queue, [spot |-> s, status |-> new])
      BY <2>1 DEF Publish, vars
    <3> QED
      BY <3>1, <3>2
  <2>2. CASE TakeEvent
    BY <2>2 DEF TakeEvent, SensorRead, pipeline
  <2>3. CASE ApplyEvent
    BY <2>3 DEF ApplyEvent, SensorCommit
  <2>4. CASE DropEvent
    BY <2>4 DEF DropEvent, SensorAbort, vars
  <2>5. CASE Settle
    <3>1. /\ queue' = Tail(queue) /\ handled' = handled - 1 /\ sensor' = sensor
          /\ handled \in 1..Len(queue)
      BY <2>5 DEF Settle, vars
    <3>2. /\ queue' \in Seq(Message) /\ Len(queue') = Len(queue) - 1
          /\ \A i \in 1..Len(queue) - 1 : queue'[i] = queue[i + 1]
      BY <3>1
    <3>3. handled < Len(queue) => queue'[handled' + 1] = queue[handled + 1]
      BY <3>1, <3>2
    <3> QED
      BY <3>1, <3>2, <3>3
  <2>6. CASE ConsumerDies
    BY <2>6 DEF ConsumerDies, SensorAbort, vars
  <2>7. CASE Workload \/ UNCHANGED pipelineVars
    BY <2>7, WorkloadKeeps DEF pipelineVars
  <2> QED
    BY <2>1, <2>2, <2>3, <2>4, <2>5, <2>6, <2>7 DEF PipelineNext
<1> QED
  BY <1>1, <1>2, PTL DEF PipelineSpec

\* The queue and the consumer only choose which of the sensor steps of
\* Inventory happen: every theorem about Inventory holds of the pipeline.
THEOREM InventoryInPipeline == PipelineSpec => Spec
<1>1. PipelineInit => Init
  BY DEF PipelineInit
<1>2. ConsumerOK /\ [PipelineNext]_pipelineVars => [Next]_vars
  <2> SUFFICES ASSUME ConsumerOK, [PipelineNext]_pipelineVars PROVE [Next]_vars
    OBVIOUS
  <2>1. CASE TakeEvent
    <3>1. Current.spot \in Spots /\ Current.status \in SensorStatus
      BY <2>1, CurrentMessage DEF TakeEvent
    <3> QED
      BY <2>1, <3>1 DEF TakeEvent, Next
  <2>2. CASE ApplyEvent
    BY <2>2 DEF ApplyEvent, Next
  <2>3. CASE DropEvent \/ ConsumerDies
    BY <2>3 DEF DropEvent, ConsumerDies, Next
  <2>4. CASE Workload
    BY <2>4 DEF Workload, Next
  <2>5. CASE \/ \E s \in Sensors, new \in SensorStatus : Publish(s, new)
             \/ Settle
             \/ UNCHANGED pipelineVars
    BY <2>5 DEF Publish, Settle, pipelineVars, vars
  <2> QED
    BY <2>1, <2>2, <2>3, <2>4, <2>5 DEF PipelineNext
<1> QED
  BY <1>1, <1>2, ConsumerPosition, PTL DEF PipelineSpec, Spec

\* Every reachable state of the pipeline is well typed.
THEOREM PipelineTypeCorrect == PipelineSpec => []PipelineTypeOK
<1> DEFINE Rest == /\ reported \in [Sensors \cup Spots -> SensorStatus]
                   /\ missed \subseteq Sensors
                   /\ restarts \in 0..MaxRestarts
<1>1. PipelineInit => Rest
  BY PipelineAssumption DEF PipelineInit, SensorStatus
<1>2. Rest /\ ConsumerOK /\ [PipelineNext]_pipelineVars => Rest'
  <2> SUFFICES ASSUME Rest, ConsumerOK, [PipelineNext]_pipelineVars PROVE Rest'
    OBVIOUS
  <2>1. CASE DropEvent
    <3>1. Current.spot \in Sensors
      BY <2>1, CurrentMessage DEF DropEvent
    <3> QED
      BY <2>1, <3>1 DEF DropEvent
  <2>2. CASE Workload \/ UNCHANGED pipelineVars
    BY <2>2, WorkloadKeeps DEF pipelineVars
  <2>3. CASE \/ \E s \in Sensors, new \in SensorStatus : Publish(s, new)
             \/ TakeEvent \/ ApplyEvent \/ Settle
    BY <2>3 DEF Publish, TakeEvent, ApplyEvent, Settle, pipeline
  <2>4. CASE ConsumerDies
    BY <2>4, PipelineAssumption DEF ConsumerDies
  <2> QED
    BY <2>1, <2>2, <2>3, <2>4 DEF PipelineNext
<1>3. Rest /\ ConsumerOK /\ TypeOK => PipelineTypeOK
  BY DEF PipelineTypeOK
<1> HIDE DEF Rest
<1> QED
  BY <1>1, <1>2, <1>3, ConsumerPosition, InventoryInPipeline, TypeCorrect,
     PTL DEF PipelineSpec

\* However the consumer repeats, drops and delays events, overbooking is bounded
\* by the pool of workers.
THEOREM PipelineOverbookingIsBounded == PipelineSpec => []BoundedOverbooking
BY InventoryInPipeline, OverbookingIsBounded, PTL

-----------------------------------------------------------------------------
(* The status of a spot *)

\* The last event of a spot in the queue is the last one reported.
QueueReports ==
  \A i \in 1..Len(queue) :
    (\A j \in i + 1..Len(queue) : queue[j].spot # queue[i].spot)
      => queue[i].status = reported[queue[i].spot]

\* Between the read and the write of an update, only a booking intervenes.
UpdateFresh == Updating => status[sensor.spot] \in {sensor.seen, "reserved"}

StatusInv == QueueReports /\ UpdateFresh /\ StatusFollows

\* What a step of the workers does to the status of a spot.
LEMMA WorkloadReserves ==
  ASSUME TypeOK, Workload, NEW s \in Spots
  PROVE  status'[s] \in {status[s], "reserved"}
<1>1. CASE \E w \in Workers : CommitReservation(w)
  BY <1>1 DEF CommitReservation, TypeOK, RequestOK, ReservePC, ReserveRequest
<1>2. CASE status' = status
  BY <1>2
<1> QED
  BY <1>1, <1>2 DEF Workload, ReserveSpot, CancelReservation, Serve, PricingOutcome,
     CheckSpot, FindUser, CheckOverlap, Refresh, CommitCancel, Abort, Tick

LEMMA StatusInvStep ==
  ASSUME PipelineTypeOK, PipelineTypeOK', StatusInv, [PipelineNext]_pipelineVars
  PROVE  StatusInv'
<1> USE DEF StatusInv, PipelineTypeOK, ConsumerOK, Message
<1>1. ASSUME NEW s \in Sensors, NEW new \in SensorStatus, Publish(s, new)
      PROVE  StatusInv'
  <2>1. /\ status' = status /\ sensor' = sensor /\ handled' = handled
        /\ missed' = missed
        /\ reported' = [reported EXCEPT ![s] = new]
        /\ Len(queue') = Len(queue) + 1
        /\ queue'[Len(queue) + 1] = [spot |-> s, status |-> new]
        /\ \A i \in 1..Len(queue) : queue'[i] = queue[i]
    BY <1>1 DEF Publish, vars
  <2>2. QueueReports'
    <3> SUFFICES ASSUME NEW i \in 1..Len(queue'),
                        \A j \in i + 1..Len(queue') : queue'[j].spot # queue'[i].spot
                 PROVE  queue'[i].status = reported'[queue'[i].spot]
      BY DEF QueueReports
    <3>1. CASE i = Len(queue) + 1
      BY <2>1, <3>1
    <3>2. CASE i \in 1..Len(queue)
      <4>1. \A j \in i + 1..Len(queue) : queue[j].spot # queue[i].spot
        BY <2>1, <3>2
      <4>2. queue[i].spot # s
        BY <2>1, <3>2
      <4> QED
        BY <2>1, <3>2, <4>1, <4>2 DEF QueueReports
    <3> QED
      BY <2>1, <3>1, <3>2
  <2>3. UpdateFresh'
    BY <2>1 DEF UpdateFresh, Updating
  <2>4. ASSUME NEW t \in Spots, Drained(t)' PROVE Drained(t) /\ t # s
    BY <2>1, <2>4 DEF Drained
  <2>5. StatusFollows'
    BY <2>1, <2>4 DEF StatusFollows
  <2> QED
    BY <2>2, <2>3, <2>5
<1>2. CASE TakeEvent
  <2>1. /\ sensor' = [spot |-> Current.spot, seen |-> status[Current.spot],
                      new |-> Current.status]
        /\ UNCHANGED <<status, queue, handled, reported, missed>>
    BY <1>2 DEF TakeEvent, SensorRead, pipeline
  <2>2. QueueReports' /\ UpdateFresh'
    BY <2>1 DEF QueueReports, UpdateFresh, Updating
  <2> QED
    BY <2>1, <2>2 DEF StatusFollows, Drained
<1>3. CASE ApplyEvent
  <2>1. /\ sensor # NoEvent /\ sensor' = NoEvent
        /\ status' = SensorWrite
        /\ handled' = handled + 1
        /\ missed' = missed \ {Current.spot}
        /\ UNCHANGED <<queue, reported>>
    BY <1>3 DEF ApplyEvent, SensorCommit
  <2>2. /\ sensor.spot = Current.spot /\ sensor.new = Current.status
        /\ handled \in 0..Len(queue) - 1
        /\ status \in [Spots -> SpotStatus] /\ sensor.spot \in Spots
    BY <2>1 DEF Updating, TypeOK, SensorEvent
  <2>3. QueueReports' /\ UpdateFresh'
    BY <2>1 DEF QueueReports, UpdateFresh, Updating
  <2>4. ASSUME NEW t \in Spots, Drained(t)', t \notin missed'
        PROVE  status'[t] \in {reported'[t], "reserved"}
    <3>1. CASE t = Current.spot
      <4>1. \A j \in (handled + 1) + 1..Len(queue) : queue[j].spot # t
        BY <2>1, <2>4 DEF Drained
      <4>2. Current.status = reported[t]
        BY <2>2, <3>1, <4>1 DEF QueueReports, Current
      <4>3. status[t] \in {sensor.seen, "reserved"}
        BY <2>1, <2>2, <3>1 DEF UpdateFresh, Updating
      <4> QED
        BY <2>1, <2>2, <3>1, <4>2, <4>3 DEF SensorWrite
    <3>2. CASE t # Current.spot
      <4>1. Drained(t) /\ t \notin missed
        BY <2>1, <2>2, <2>4, <3>2 DEF Drained, Current
      <4>2. status'[t] = status[t]
        BY <2>1, <2>2, <3>2 DEF SensorWrite
      <4> QED
        BY <2>1, <4>1, <4>2 DEF StatusFollows
    <3> QED
      BY <3>1, <3>2
  <2> QED
    BY <2>3, <2>4 DEF StatusFollows
<1>4. CASE DropEvent
  <2>1. /\ sensor' = NoEvent /\ status' = status
        /\ handled \in 0..Len(queue) - 1 /\ handled' = handled + 1
        /\ missed' = missed \cup {Current.spot}
        /\ UNCHANGED <<queue, reported>>
    BY <1>4 DEF DropEvent, SensorAbort, Updating, vars
  <2>2. QueueReports' /\ UpdateFresh'
    BY <2>1 DEF QueueReports, UpdateFresh, Updating
  <2>3. ASSUME NEW t \in Spots, Drained(t)', t \notin missed'
        PROVE  Drained(t) /\ t \notin missed
    BY <2>1, <2>3 DEF Drained, Current
  <2> QED
    BY <2>1, <2>2, <2>3 DEF StatusFollows
<1>5. CASE Settle
  <2>1. /\ UNCHANGED <<status, sensor, reported, missed>>
        /\ handled \in 1..Len(queue) /\ handled' = handled - 1
        /\ Len(queue') = Len(queue) - 1
        /\ \A i \in 1..Len(queue) - 1 : queue'[i] = queue[i + 1]
    BY <1>5 DEF Settle, vars
  <2>2. QueueReports'
    <3> SUFFICES ASSUME NEW i \in 1..Len(queue'),
                        \A j \in i + 1..Len(queue') : queue'[j].spot # queue'[i].spot
                 PROVE  queue'[i].status = reported'[queue'[i].spot]
      BY DEF QueueReports
    <3>1. /\ i + 1 \in 1..Len(queue) /\ queue'[i] = queue[i + 1]
      BY <2>1
    <3>2. ASSUME NEW k \in (i + 1) + 1..Len(queue) PROVE queue[k].spot # queue[i + 1].spot
      <4>1. k - 1 \in i + 1..Len(queue') /\ queue'[k - 1] = queue[k]
        BY <2>1
      <4> QED
        BY <3>1, <4>1
    <3> QED
      BY <2>1, <3>1, <3>2 DEF QueueReports
  <2>3. UpdateFresh'
    BY <2>1 DEF UpdateFresh, Updating
  <2>4. ASSUME NEW t \in Spots, Drained(t)' PROVE Drained(t)
    <3> SUFFICES ASSUME NEW k \in handled + 1..Len(queue) PROVE queue[k].spot # t
      BY DEF Drained
    <3>1. k - 1 \in handled' + 1..Len(queue') /\ queue'[k - 1] = queue[k]
      BY <2>1
    <3> QED
      BY <2>4, <3>1 DEF Drained
  <2> QED
    BY <2>1, <2>2, <2>3, <2>4 DEF StatusFollows
<1>6. CASE ConsumerDies
  <2>1. /\ sensor' = NoEvent /\ handled' = 0
        /\ UNCHANGED <<status, queue, reported, missed>>
    BY <1>6 DEF ConsumerDies, SensorAbort, Updating, vars
  <2>2. QueueReports' /\ UpdateFresh'
    BY <2>1 DEF QueueReports, UpdateFresh, Updating
  <2>3. ASSUME NEW t \in Spots, Drained(t)' PROVE Drained(t)
    BY <2>1, <2>3 DEF Drained
  <2> QED
    BY <2>1, <2>2, <2>3 DEF StatusFollows
<1>7. CASE Workload
  <2>1. UNCHANGED <<sensor, queue, handled, reported, missed>>
    BY <1>7, WorkloadKeeps
  <2>2. \A s \in Spots : status'[s] \in {status[s], "reserved"}
    BY <1>7, WorkloadReserves
  <2>3. QueueReports'
    BY <2>1 DEF QueueReports
  <2>4. Updating => sensor.spot \in Spots
    BY DEF Updating, TypeOK, SensorEvent
  <2>5. UpdateFresh'
    BY <2>1, <2>2, <2>4 DEF UpdateFresh, Updating
  <2> QED
    BY <2>1, <2>2, <2>3, <2>5 DEF StatusFollows, Drained
<1>8. CASE UNCHANGED pipelineVars
  BY <1>8 DEF pipelineVars, QueueReports, UpdateFresh, Updating, StatusFollows, Drained
<1> QED
  BY <1>1, <1>2, <1>3, <1>4, <1>5, <1>6, <1>7, <1>8 DEF PipelineNext

\* A spot the consumer has caught up with shows its last report or is reserved,
\* though events are delivered twice, dropped and interleaved with bookings.
THEOREM SpotsFollowReports == PipelineSpec => []StatusFollows
<1>1. PipelineInit => StatusInv
  BY DEF PipelineInit, Init, StatusInv, QueueReports, UpdateFresh, Updating,
         StatusFollows
<1>2. StatusInv => StatusFollows
  BY DEF StatusInv
<1> QED
  BY <1>1, <1>2, StatusInvStep, PipelineTypeCorrect, PTL DEF PipelineSpec
=============================================================================
