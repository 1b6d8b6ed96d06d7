--------------------------- MODULE SensorPipeline ---------------------------
(***************************************************************************)
(* The way of a sensor event from the simulator through the queue of the   *)
(* broker to the consumer, which updates the inventory of module Inventory *)
(* while its workers reserve and cancel.                                   *)
(* The consumer sets no prefetch limit: the broker sends it everything, it *)
(* handles one event after the other, and the broker keeps an event until  *)
(* the acknowledgement arrives.  When the consumer or its connection dies, *)
(* the events it had not acknowledged return to their place in the queue.  *)
(* The simulator reports for the spots it is configured with, which need   *)
(* not be the spots of the lot.                                            *)
(***************************************************************************)
EXTENDS Inventory

CONSTANTS
  Sensors,      \* the spots the simulator is configured with
  MaxQueue,     \* bound: events at the broker
  MaxRestarts   \* bound: deaths of the consumer or its connection

VARIABLES
  queue,     \* the events the broker keeps, oldest first
  handled,   \* how many of them the consumer has finished
  reported,  \* history: the status last reported of each spot
  missed,    \* history: the spots whose last finished event was dropped
  restarts   \* number of deaths so far

pipeline == <<queue, handled, reported, missed, restarts>>
pipelineVars == <<status, users, reservations, pc, req, sensor, now, requests,
                  queue, handled, reported, missed, restarts>>

ASSUME PipelineAssumption == MaxQueue \in Nat /\ MaxRestarts \in Nat

-----------------------------------------------------------------------------
(* State *)

Message == [spot: Sensors, status: SensorStatus]

\* The event the consumer works on or takes next.
Current == queue[handled + 1]

\* The consumer is in the transaction of the current event.
Updating == sensor # NoEvent

\* The consumer's transaction is the one of the current event.
ConsumerOK ==
  /\ queue \in Seq(Message)
  /\ handled \in 0..Len(queue)
  /\ Updating => /\ handled < Len(queue)
                 /\ sensor.spot = Current.spot
                 /\ sensor.new = Current.status

PipelineTypeOK ==
  /\ TypeOK
  /\ ConsumerOK
  /\ reported \in [Sensors \cup Spots -> SensorStatus]
  /\ missed \subseteq Sensors
  /\ restarts \in 0..MaxRestarts

\* What the seed script stored counts as reported.
PipelineInit ==
  /\ Init
  /\ queue = << >>
  /\ handled = 0
  /\ reported = [s \in Sensors \cup Spots |-> "available"]
  /\ missed = {}
  /\ restarts = 0

-----------------------------------------------------------------------------
(* The simulator *)

\* An event for some spot: the simulator draws the spot and whether its status
\* flips, and a restart draws every status anew, so any may follow any other.
Publish(s, new) ==
  /\ Len(queue) < MaxQueue
  /\ queue' = Append(queue, [spot |-> s, status |-> new])
  /\ reported' = [reported EXCEPT ![s] = new]
  /\ UNCHANGED <<vars, handled, missed, restarts>>

-----------------------------------------------------------------------------
(* The consumer *)

\* The spot of the next event is looked up.
TakeEvent ==
  /\ handled < Len(queue)
  /\ Current.spot \in Spots
  /\ SensorRead(Current.spot, Current.status)
  /\ UNCHANGED pipeline

\* The spot's row is committed; the acknowledgement is on its way.
ApplyEvent ==
  /\ SensorCommit
  /\ handled' = handled + 1
  /\ missed' = missed \ {Current.spot}
  /\ UNCHANGED <<queue, reported, restarts>>

\* Mutant of DropEvent: the event is requeued, behind the ones that wait.
DropEventRequeues ==
  /\ handled < Len(queue)
  /\ IF Updating THEN SensorAbort ELSE UNCHANGED vars
  /\ missed' = missed \cup {Current.spot}
  /\ queue' = Append([i \in 1..Len(queue) - 1 |-> queue[IF i <= handled THEN i ELSE i + 1]],
                     Current)
  /\ UNCHANGED <<handled, reported, restarts>>

\* An unknown spot or any other exception: the transaction is rolled back and
\* the event rejected without requeueing it.
DropEvent ==
  /\ handled < Len(queue)
  /\ IF Updating THEN SensorAbort ELSE UNCHANGED vars
  /\ handled' = handled + 1
  /\ missed' = missed \cup {Current.spot}
  /\ UNCHANGED <<queue, reported, restarts>>

\* Mutant of Settle: the consumer's position does not move with the queue.
SettleOnly ==
  /\ handled > 0
  /\ queue' = Tail(queue)
  /\ UNCHANGED <<vars, handled, reported, missed, restarts>>

\* The acknowledgement or rejection of the oldest event reaches the broker.
Settle ==
  /\ handled > 0
  /\ queue' = Tail(queue)
  /\ handled' = handled - 1
  /\ UNCHANGED <<vars, reported, missed, restarts>>

\* The consumer or its connection dies and is restarted: the open transaction
\* is rolled back, and every event not acknowledged is delivered again.
ConsumerDies ==
  /\ restarts < MaxRestarts
  /\ IF Updating THEN SensorAbort ELSE UNCHANGED vars
  /\ handled' = 0
  /\ restarts' = restarts + 1
  /\ UNCHANGED <<queue, reported, missed>>

-----------------------------------------------------------------------------

\* The workers and the clock, as in Inventory.
Workload ==
  /\ \/ \E w \in Workers :
          \/ \E u \in Users, win \in Windows : ReserveSpot(w, u, win)
          \/ \E u \in Users, i \in 1..Len(reservations) + 1 : CancelReservation(w, u, i)
          \/ Serve(w)
          \/ Abort(w)
     \/ Tick
  /\ UNCHANGED pipeline

PipelineNext ==
  \/ \E s \in Sensors, new \in SensorStatus : Publish(s, new)
  \/ TakeEvent
  \/ ApplyEvent
  \/ DropEvent
  \/ Settle
  \/ ConsumerDies
  \/ Workload

PipelineSpec == PipelineInit /\ [][PipelineNext]_pipelineVars

\* The simulator draws every spot again and again; the containers of the
\* simulator and the consumer are always restarted; not every update fails.
PipelineFairness ==
  /\ \A s \in Sensors : SF_pipelineVars(\E new \in SensorStatus : Publish(s, new))
  /\ WF_pipelineVars(TakeEvent \/ DropEvent)
  /\ SF_pipelineVars(TakeEvent) /\ SF_pipelineVars(ApplyEvent)
  /\ WF_pipelineVars(Settle)
PipelineFairSpec == PipelineSpec /\ PipelineFairness

-----------------------------------------------------------------------------
(* Properties *)

\* No event of spot s waits for the consumer.
Drained(s) == \A i \in handled + 1..Len(queue) : queue[i].spot # s

\* Once the consumer has caught up with a spot, the spot shows what was last
\* reported of it or is reserved, unless that report was dropped: in particular
\* after the consumer died between commit and acknowledgement and old events
\* were applied a second time, and when a booking was committed between the
\* read and the write of an update.
StatusFollows ==
  \A s \in Spots : Drained(s) /\ s \notin missed =>
    status[s] \in {reported[s], "reserved"}

\* A spot with a sensor does not stay reserved for ever, though nothing in the
\* service releases it and events are dropped, repeated and overtaken by bookings.
SpotsReleased ==
  \A s \in Spots \cap Sensors : status[s] = "reserved" ~> status[s] # "reserved"
=============================================================================
