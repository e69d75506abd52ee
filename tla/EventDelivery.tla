---------------------------- MODULE EventDelivery ----------------------------
(***************************************************************************)
(* The path of an event from the actor to a DAP client.                    *)
(*                                                                         *)
(*   actor --publish--> subscription channel (EventBuffer)                 *)
(*         --pump-----> connection queue (QueueSize)                       *)
(*         --serve----> DAP event on the wire                              *)
(*                                                                         *)
(* Both queues are bounded and nobody blocks: a full subscription is closed *)
(* by the actor, a full connection queue closes the connection.  Either     *)
(* way the frontend is failed and released, and a client that comes back    *)
(* starts from the configuration barrier.                                   *)
(*                                                                         *)
(* One connection exists at a time (dap.Server claims it); Frontends treats *)
(* the hand-over between connections and the control lease in detail.       *)
(***************************************************************************)
EXTENDS SessionCore

CONSTANTS
    EventBuffer,     \* Options.EventBuffer: capacity of a subscription
    QueueSize,       \* defaultEventQueueSize: capacity of the connection queue
    MaxConnections   \* bound: connections over the life of the session

ASSUME EventBufferAssumption == EventBuffer \in Nat \ {0}
ASSUME QueueSizeAssumption == QueueSize \in Nat \ {0}
ASSUME MaxConnectionsAssumption == MaxConnections \in Nat

VARIABLES
    sub,            \* the actor's subscriber: "none", "open" or "closed" (overflow)
    chan,           \* events buffered in the subscription
    frontend,       \* daemon frontend: "none", "attaching", "active" or "failed"
    phase,          \* lifecycle phase of the connection's DAP session
    queue,          \* clientConnection.events
    shown,          \* what the client was last told
    connections     \* connections so far

frontendVars == <<sub, chan, frontend, phase, queue, shown, connections>>
deliveryVars == <<vars, frontendVars>>

DeliveryInit ==
    /\ Init
    /\ sub = "none" /\ chan = <<>> /\ frontend = "none"
    /\ phase = "closed" /\ queue = <<>> /\ shown = "nothing"
    /\ connections = 0

-----------------------------------------------------------------------------

(* publish: append what fits; the first event that does not closes and      *)
(* deletes the subscription.                                                *)
Deliver(events) ==
    IF sub # "open" \/ events = <<>>
    THEN UNCHANGED <<sub, chan>>
    ELSE LET room == EventBuffer - Len(chan)
         IN  IF Len(events) <= room
             THEN chan' = chan \o events /\ UNCHANGED sub
             ELSE chan' = chan \o SubSeq(events, 1, room) /\ sub' = "closed"

(* A step of the actor, with the events it publishes.                       *)
Delivering(step) ==
    /\ UNCHANGED <<frontend, phase, queue, shown, connections>>
    /\ step
    /\ Deliver(out')

(* Every actor step that is not a frontend's own call.                      *)
ActorStep == Delivering(CoreStep)

-----------------------------------------------------------------------------
(* The connection's serving goroutine.                                      *)

Connect ==
    /\ phase = "closed"
    /\ connections < MaxConnections
    /\ connections' = connections + 1
    /\ phase' = "awaitAttach"
    /\ queue' = <<>>
    /\ shown' = "nothing"
    /\ UNCHANGED <<vars, sub, chan, frontend>>

(* backend.attach, first half: core.Attach subscribes.                      *)
Attach ==
    /\ phase = "awaitAttach" /\ frontend = "none" /\ ~faulted
    /\ sub' = "open" /\ chan' = <<>>
    /\ frontend' = "attaching"
    /\ UNCHANGED <<vars, phase, queue, shown, connections>>

(* Second half: threadMap needs an opened session, the barrier goes up, the *)
(* frontend becomes active, the DAP session enters its configuration window.*)
BeginBarrier ==
    /\ frontend = "attaching" /\ opened
    /\ BeginConfigurationCommand
    /\ frontend' = "active"
    /\ phase' = "configuring"
    /\ UNCHANGED <<sub, chan, queue, shown, connections>>

(* The session is not open yet or the reducer refuses: the attach request   *)
(* fails and Detach unsubscribes.                                           *)
AttachFails ==
    /\ frontend = "attaching"
    /\ ~opened \/ ~BeginConfiguration(red).ok
    /\ frontend' = "none"
    /\ sub' = "none" /\ chan' = <<>>
    /\ UNCHANGED <<vars, phase, queue, shown, connections>>

(* configurationDone: the barrier comes down, the actor publishes the final *)
(* state, and the session answers and becomes attached.  A concurrent       *)
(* failure of the frontend makes the backend refuse.                        *)
FinishConfiguration ==
    /\ phase = "configuring" /\ frontend = "active"
    /\ ConfigurationDoneCommand
    /\ Deliver(out')
    /\ phase' = "attached"
    /\ UNCHANGED <<frontend, queue, shown, connections>>

(* One queued input: dropped in the configuration window, shown when        *)
(* attached.  "unknown" produces no message.                                *)
Serve ==
    /\ phase \in {"configuring", "attached"}
    /\ queue # <<>>
    /\ queue' = Tail(queue)
    /\ IF Head(queue) = "terminate"
       THEN phase' = "disconnected" /\ shown' = "terminated"
       ELSE /\ UNCHANGED phase
            /\ shown' = IF phase = "attached" /\ Head(queue) # "unknown"
                        THEN Head(queue) ELSE shown
    /\ UNCHANGED <<vars, sub, chan, frontend, connections>>

(* The client disconnects or its transport is lost; the session's Close     *)
(* releases the frontend it had attached.                                   *)
ClientLeaves ==
    /\ phase \in {"awaitAttach", "configuring", "attached"}
    /\ frontend # "attaching"
    /\ phase' = "disconnected"
    /\ UNCHANGED <<vars, sub, chan, frontend, queue, shown, connections>>

-----------------------------------------------------------------------------
(* frontend.release: cancel the barrier this frontend still holds, detach.  *)
Unsubscribe == sub' = "none" /\ chan' = <<>> /\ frontend' = "none"

ReleaseFrontend ==
    /\ \/ frontend = "failed"
       \/ frontend = "active" /\ phase = "disconnected"
    /\ IF red.configuring THEN CancelConfigurationCommand ELSE UNCHANGED vars
    /\ Unsubscribe
    /\ UNCHANGED <<phase, queue, shown, connections>>

(* Server.release: the connection ends after the session has been closed.   *)
EndConnection ==
    /\ phase = "disconnected" /\ frontend # "active"
    /\ phase' = "closed"
    /\ queue' = <<>>
    /\ UNCHANGED <<vars, sub, chan, frontend, shown, connections>>

-----------------------------------------------------------------------------
(* The frontend's pump goroutine.                                           *)

(* targetState: the DAP event is chosen by the snapshot's state, not by the *)
(* kind of the actor's event.                                               *)
TargetState(event) == IF event.state \in {"running", "stopped"} THEN event.state ELSE "unknown"

(* Server.offer: into the queue if it has room, otherwise the connection is *)
(* closed.                                                                  *)
HasRoom == Len(queue) < QueueSize

Offer(input) ==
    IF HasRoom
    THEN queue' = Append(queue, input) /\ UNCHANGED phase
    ELSE phase' = "disconnected" /\ UNCHANGED queue

PumpSkips ==
    /\ frontend = "active" /\ chan # <<>>
    /\ Head(chan).kind = "invalidated"
    /\ chan' = Tail(chan)
    /\ UNCHANGED <<vars, sub, frontend, phase, queue, shown, connections>>

(* Mutant: an event that finds the queue full is dropped.                   *)
PumpForwardsMutant ==
    /\ frontend = "active" /\ chan # <<>>
    /\ Head(chan).kind \in {"resumed", "stopped"}
    /\ chan' = Tail(chan)
    /\ queue' = IF HasRoom THEN Append(queue, TargetState(Head(chan))) ELSE queue
    /\ UNCHANGED <<vars, sub, frontend, phase, shown, connections>>

PumpForwards ==
    /\ frontend = "active" /\ chan # <<>>
    /\ Head(chan).kind \in {"resumed", "stopped"}
    /\ chan' = Tail(chan)
    /\ Offer(TargetState(Head(chan)))
    /\ frontend' = IF HasRoom THEN "active" ELSE "failed"
    /\ UNCHANGED <<vars, sub, shown, connections>>

(* Mutant: a closed subscription goes unnoticed.                            *)
PumpIgnoresClose ==
    /\ frontend = "active"
    /\ chan # <<>> /\ Head(chan).kind = "reconcile"
    /\ Offer("terminate")
    /\ frontend' = "failed"
    /\ UNCHANGED <<vars, sub, chan, shown, connections>>

(* Reconciliation or a closed subscription: terminate the session and give  *)
(* the frontend up.                                                         *)
PumpFails ==
    /\ frontend = "active"
    /\ IF chan = <<>> THEN sub = "closed" ELSE Head(chan).kind = "reconcile"
    /\ Offer("terminate")
    /\ frontend' = "failed"
    /\ UNCHANGED <<vars, sub, chan, shown, connections>>

Pump == PumpSkips \/ PumpForwards \/ PumpFails

-----------------------------------------------------------------------------
ClientRequest == Connect \/ Attach \/ FinishConfiguration \/ ClientLeaves

Progress == BeginBarrier \/ AttachFails \/ Serve \/ Pump \/ ReleaseFrontend \/ EndConnection

DeliveryNext == ActorStep \/ ClientRequest \/ Progress

(* Goroutines run: the pump, the serving loop and the actor take the steps  *)
(* they can.  Clients owe nothing.                                          *)
DeliverySpec == DeliveryInit /\ [][DeliveryNext]_deliveryVars

FairDeliverySpec ==
    /\ DeliverySpec
    /\ WF_deliveryVars(Delivering(PollTick))
    /\ WF_deliveryVars(Delivering(SampleStep \/ InspectionStep))
    /\ WF_deliveryVars(BeginBarrier \/ AttachFails)
    /\ WF_deliveryVars(Serve)
    /\ WF_deliveryVars(Pump)
    /\ WF_deliveryVars(ReleaseFrontend)
    /\ WF_deliveryVars(EndConnection)

-----------------------------------------------------------------------------
(* Properties.                                                              *)

(* Type correctness of the subscription, the frontend and the connection;   *)
(* neither bounded queue (actor.go publish, transport.go offer) overflows.  *)
DeliveryTypeOK ==
    /\ sub \in {"none", "open", "closed"}
    /\ chan \in Seq(Events) /\ Len(chan) <= EventBuffer
    /\ frontend \in {"none", "attaching", "active", "failed"}
    /\ phase \in {"closed", "awaitAttach", "configuring", "attached", "disconnected"}
    /\ queue \in Seq({"running", "stopped", "unknown", "terminate"}) /\ Len(queue) <= QueueSize
    /\ shown \in {"nothing", "running", "stopped", "terminated"}
    /\ connections \in 0..MaxConnections

Drained == chan = <<>> /\ queue = <<>> /\ sub = "open" /\ frontend = "active"

(* Events suppressed by the barrier, published around attach, or folded     *)
(* into missed cycles: once nothing is in transit, an attached client has   *)
(* been told exactly the state the session is in.                           *)
ClientKnowsState ==
    phase = "attached" /\ Drained /\ red.state # "unknown" => shown = red.state

(* The barrier belongs to the frontend that is configuring: it never stays  *)
(* up once that frontend is gone, which would silence the next client       *)
(* (session.go CancelConfiguration).                                        *)
BarrierHasOwner ==
    red.configuring => frontend \in {"active", "failed"} /\ phase # "attached"

(* The client is served right in every state: the queues are within their   *)
(* bounds, the barrier has an owner that will lower it, and what the client *)
(* was told last is how the session stands.                                 *)
DeliveryInv == DeliveryTypeOK /\ BarrierHasOwner /\ ClientKnowsState

(* Polling alone finds every state the target rests in, and a client that   *)
(* has been told nothing, or something outdated, is not forgotten: when the *)
(* target stops moving the session reaches its exact position or fails      *)
(* closed, and a client that stays attached ends up knowing the target's    *)
(* real state, or its session is terminated.                                *)
ClientConverges ==
    <>[](/\ PositionKnown
         /\ phase = "attached" /\ frontend = "active" => shown = StatusOf(target))

(* A client that can no longer be kept informed is not left in the dark: an *)
(* overflowing subscription, and failClosed, which is terminal for every    *)
(* client whatever its subscription still holds, end in the release of the  *)
(* frontend, so that the client is terminated or disconnected.              *)
FailureEndsFrontend ==
    (sub = "closed" \/ (faulted /\ frontend = "active")) ~> (frontend = "none")
=============================================================================
