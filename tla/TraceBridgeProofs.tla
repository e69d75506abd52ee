-------------------------- MODULE TraceBridgeProofs --------------------------
(***************************************************************************)
(* For any number of callers and requests: an admitted request that was not *)
(* answered has poisoned the client, and every step of the client and its   *)
(* helper is a step of TraceBackend or a stutter.                           *)
(***************************************************************************)
EXTENDS TraceBridge, TLAPS

-----------------------------------------------------------------------------
(* What the helpers of the actions do to the record they change.            *)

(* abortWith changes no flag but poisoned.                                  *)
LEMMA AbortedClient ==
  ASSUME NEW x, ClientShape(x)
  PROVE  /\ ClientShape(Aborted(x))
         /\ Aborted(x).poisoned = TRUE
         /\ \A f \in ClientFlags \ {"poisoned"} : Aborted(x)[f] = x[f]
  BY Zenon DEF ClientShape, ClientFields, ClientFlags, Aborted

(* The helper's process starts, serves, drains and exits, and stays so.     *)
LEMMA HelperProcess ==
  ASSUME process \in [at : {"boot", "serve", "drain", "exited"}, code : {0, 1}],
         Buffer \/ HelperStep
  PROVE  /\ process' \in [at : {"boot", "serve", "drain", "exited"}, code : {0, 1}]
         /\ process.at = "exited" => process'.at = "exited"
<1>1. CASE Buffer
  BY <1>1 DEF Buffer, BufferGrows, BufferReplaced, DecoderReplaced, CollectionOnly
<1>2. CASE \E bits \in BOOLEAN : Boot(bits)
  BY <1>2 DEF Boot
<1>3. CASE Callback \/ TakeRequest \/ Pump \/ OpenSession \/ PollEvents \/ PacketCount
           \/ Refreshed \/ GetPackets \/ ControlTrace
  BY <1>3 DEF Callback, TakeRequest, Pump, OpenSession, PollEvents, PacketCount, Refreshed,
              GetPackets, ControlTrace
<1>4. CASE CloseSession \/ NativeFails \/ InputEnds
  BY <1>4 DEF CloseSession, NativeFails, InputEnds, Working
<1>5. CASE \E late \in BOOLEAN : HelperExits(late)
  BY <1>5 DEF HelperExits, Exits
<1> QED
  BY <1>1, <1>2, <1>3, <1>4, <1>5 DEF HelperStep

(* A call that returns is idle again, and is remembered as unanswered only  *)
(* if its request was sent and it neither succeeded nor was stale.          *)
LEMMA ReturnEffect ==
  ASSUME BridgeTypes, NEW c \in Callers, NEW result, Return(c, result)
  PROVE  /\ caller' \in [Callers -> [at : CallerSteps, op : Ops \union {"none"}]]
         /\ caller'[c].at = "idle"
         /\ \A d \in Callers \ {c} : caller'[d] = caller[d]
         /\ past' \in [unanswered : BOOLEAN, confirmed : BOOLEAN]
         /\ past'.unanswered => past.unanswered \/ (Sent(c) /\ result \notin {"ok", "stale"})
<1>1. Idle \in [at : CallerSteps, op : Ops \union {"none"}] /\ Idle.at = "idle"
  BY DEF Idle, CallerSteps
<1>2. past.unanswered \in BOOLEAN /\ past.confirmed \in BOOLEAN
  BY DEF BridgeTypes
<1>3. /\ past' \in [unanswered : BOOLEAN, confirmed : BOOLEAN]
      /\ past'.unanswered => past.unanswered \/ (Sent(c) /\ result \notin {"ok", "stale"})
  BY <1>2, Zenon DEF Return
<1> QED
  BY <1>1, <1>3 DEF Return, BridgeTypes

(* A call that goes on changes its step and nothing else of the callers.    *)
LEMMA GotoEffect ==
  ASSUME BridgeTypes, NEW c \in Callers, NEW at \in CallerSteps, Goto(c, at)
  PROVE  /\ caller' \in [Callers -> [at : CallerSteps, op : Ops \union {"none"}]]
         /\ caller'[c].at = at /\ caller'[c].op = caller[c].op
         /\ \A d \in Callers \ {c} : caller'[d] = caller[d]
         /\ past' = past
  BY DEF Goto, BridgeTypes

-----------------------------------------------------------------------------
(* The invariant.  Each lemma is about the actions of one goroutine.        *)

LEMMA BridgeInvInit == Init => BridgeInv
<1> SUFFICES ASSUME Init PROVE BridgeInv
  OBVIOUS
<1>1. ClientShape(client)
  BY DEF Init, ClientShape, ClientFields, ClientFlags
<1>2. process \in [at : {"boot", "serve", "drain", "exited"}, code : {0, 1}]
  BY DEF Init, HelperInit
<1>3. BridgeTypes
  BY <1>1, <1>2 DEF Init, BridgeTypes, Idle, CallerSteps
<1>4. GateInv
  BY CallersAssumption DEF Init, GateInv, Idle
<1>5. ReapInv /\ UnansweredPoisons
  BY DEF Init, ReapInv, UnansweredPoisons, Done
<1> QED
  BY <1>3, <1>4, <1>5 DEF BridgeInv

(* Steps that leave callers, gate and history alone and at most poison.     *)
LEMMA PoisoningKeepsInv ==
  ASSUME BridgeInv,
         client' \in {client, Aborted(client)},
         UNCHANGED <<caller, gate, past, waiter>>,
         process' \in [at : {"boot", "serve", "drain", "exited"}, code : {0, 1}],
         process.at = "exited" => process'.at = "exited",
         start' = start \/ start # "started",
         writer' = writer \/ writer' = None,
         reader' = reader \/ reader' = "done"
  PROVE  BridgeInv'
<1>1. /\ ClientShape(client')
      /\ client.poisoned => client'.poisoned
      /\ \A f \in ClientFlags \ {"poisoned"} : client'[f] = client[f]
  <2>1. ClientShape(client)
    BY DEF BridgeInv, BridgeTypes
  <2>2. /\ ClientShape(Aborted(client)) /\ Aborted(client).poisoned
        /\ \A f \in ClientFlags \ {"poisoned"} : Aborted(client)[f] = client[f]
    BY <2>1, AbortedClient, Zenon
  <2>3. client' = client \/ client' = Aborted(client)
    OBVIOUS
  <2> QED
    BY <2>1, <2>2, <2>3
<1>2. /\ client'.closing = client.closing /\ client'.opened = client.opened
      /\ client'.ended = client.ended /\ client'.exitFailed = client.exitFailed
  BY <1>1 DEF ClientFlags
<1>3. BridgeTypes'
  BY <1>1 DEF BridgeInv, BridgeTypes
<1>4. GateInv'
  BY <1>2 DEF BridgeInv, GateInv
<1>5. ReapInv'
  BY <1>1, <1>2 DEF BridgeInv, BridgeTypes, ReapInv, Done
<1>6. UnansweredPoisons'
  BY <1>1 DEF BridgeInv, UnansweredPoisons
<1> QED
  BY <1>3, <1>4, <1>5, <1>6 DEF BridgeInv

LEMMA HelperKeepsInv ==
  BridgeInv /\ (Buffer \/ HelperStep) /\ UNCHANGED clientVars => BridgeInv'
  BY HelperProcess, PoisoningKeepsInv DEF clientVars, BridgeInv, BridgeTypes

LEMMA StartKeepsInv == BridgeInv /\ StartStep => BridgeInv'
<1> SUFFICES ASSUME BridgeInv, StartStep PROVE BridgeInv'
  OBVIOUS
<1>1. UNCHANGED <<caller, gate, past, waiter, process, writer, reader>>
  BY DEF StartStep, Assign, Greeted, StartGivenUp, StartFails, StartOnly, Machine
<1>2. client' \in {client, Aborted(client)} /\ start # "started"
  BY DEF StartStep, Assign, Greeted, StartGivenUp, StartFails
<1>3. process \in [at : {"boot", "serve", "drain", "exited"}, code : {0, 1}]
  BY DEF BridgeInv, BridgeTypes
<1> QED
  BY <1>1, <1>2, <1>3, PoisoningKeepsInv

LEMMA GoroutinesKeepInv ==
  BridgeInv /\ (Abort \/ Write \/ WriteFails \/ ReadFrame \/ ReadEnds \/ Kill \/ Crash)
    => BridgeInv'
<1> SUFFICES ASSUME BridgeInv,
                    Abort \/ Write \/ WriteFails \/ ReadFrame \/ ReadEnds \/ Kill \/ Crash
             PROVE  BridgeInv'
  OBVIOUS
<1>0. process \in [at : {"boot", "serve", "drain", "exited"}, code : {0, 1}]
  BY DEF BridgeInv, BridgeTypes
<1>1. CASE Abort \/ Write \/ WriteFails \/ ReadFrame \/ ReadEnds
  <2>1. UNCHANGED <<caller, gate, past, waiter, process, start>>
    BY <1>1 DEF Abort, Write, WriteFails, ReadFrame, ReadEnds, Machine
  <2>2. client' \in {client, Aborted(client)}
    BY <1>1 DEF Abort, Write, WriteFails, ReadFrame, ReadEnds
  <2>3. (writer' = writer \/ writer' = None) /\ (reader' = reader \/ reader' = "done")
    BY <1>1 DEF Abort, Write, WriteFails, ReadFrame, ReadEnds
  <2> QED
    BY <1>0, <2>1, <2>2, <2>3, PoisoningKeepsInv
<1>2. CASE Crash
  BY <1>0, <1>2, PoisoningKeepsInv DEF Crash, Killed, Exits, clientVars
<1>3. CASE Kill
  <2>1. /\ UNCHANGED <<caller, gate, past, waiter, start, writer, reader>>
        /\ client' = [client EXCEPT !.killer = "fired"]
        /\ process' = process \/ process' = [at |-> "exited", code |-> 1]
    BY <1>3 DEF Kill, Killed, Exits, Machine
  <2>2. /\ ClientShape(client')
        /\ \A f \in ClientFlags : client'[f] = client[f]
    BY <2>1 DEF BridgeInv, BridgeTypes, ClientShape, ClientFields, ClientFlags
  <2>3. /\ client'.closing = client.closing /\ client'.opened = client.opened
        /\ client'.ended = client.ended /\ client'.exitFailed = client.exitFailed
        /\ client'.poisoned = client.poisoned
    BY <2>2 DEF ClientFlags
  <2>4. BridgeTypes'
    BY <1>0, <2>1, <2>2 DEF BridgeInv, BridgeTypes
  <2>5. GateInv' /\ ReapInv' /\ UnansweredPoisons'
    BY <2>1, <2>3 DEF BridgeInv, GateInv, ReapInv, UnansweredPoisons, Done
  <2> QED
    BY <2>4, <2>5 DEF BridgeInv
<1> QED
  BY <1>1, <1>2, <1>3

(* waitProcess: the client learns of the exit, then judges it, then waits   *)
(* for the other goroutines.                                                *)
LEMMA WaiterKeepsInv ==
  BridgeInv /\ (ProcessEnded \/ (\E released \in BOOLEAN : ReleaseJob(released)) \/ CleanUp)
    => BridgeInv'
<1> SUFFICES ASSUME BridgeInv,
                    ProcessEnded \/ (\E released \in BOOLEAN : ReleaseJob(released)) \/ CleanUp
             PROVE  BridgeInv'
  OBVIOUS
<1>1. CASE ProcessEnded
  <2>1. /\ UNCHANGED <<caller, gate, past, start, writer, reader, process>>
        /\ waiter' = "ended" /\ process.at = "exited"
        /\ client' = [client EXCEPT !.ended = TRUE, !.exitFailed = (process.code # 0)]
    BY <1>1 DEF ProcessEnded, Machine
  <2>2. /\ ClientShape(client')
        /\ client'.ended
        /\ \A f \in ClientFlags \ {"ended", "exitFailed"} : client'[f] = client[f]
    BY <2>1, Zenon DEF BridgeInv, BridgeTypes, ClientShape, ClientFields, ClientFlags
  <2>3. /\ client'.closing = client.closing /\ client'.opened = client.opened
        /\ client'.poisoned = client.poisoned
    BY <2>2 DEF ClientFlags
  <2>4. BridgeTypes'
    BY <2>1, <2>2 DEF BridgeInv, BridgeTypes
  <2>5. GateInv' /\ ReapInv' /\ UnansweredPoisons'
    BY <2>1, <2>2, <2>3 DEF BridgeInv, GateInv, ReapInv, UnansweredPoisons, Done
  <2> QED
    BY <2>4, <2>5 DEF BridgeInv
<1>2. ASSUME NEW released \in BOOLEAN, ReleaseJob(released) PROVE BridgeInv'
  <2> DEFINE after == [client EXCEPT !.cleanupFailed = ~released]
  <2>1. /\ UNCHANGED <<caller, gate, past, start, writer, reader, process>>
        /\ waiter = "ended" /\ waiter' = "cleanup"
        /\ client' = IF client.exitFailed \/ ~client.closing THEN Aborted(after) ELSE after
    BY <1>2 DEF ReleaseJob, Machine
  <2>2. /\ ClientShape(after)
        /\ \A f \in ClientFlags \ {"cleanupFailed"} : after[f] = client[f]
    BY DEF BridgeInv, BridgeTypes, ClientShape, ClientFields, ClientFlags
  <2>3. /\ ClientShape(client')
        /\ \A f \in ClientFlags \ {"cleanupFailed", "poisoned"} : client'[f] = client[f]
        /\ client.poisoned => client'.poisoned
        /\ client'.poisoned \/ (client.closing /\ ~client.exitFailed)
    <3>1. CASE client.exitFailed \/ ~client.closing
      <4>1. client' = Aborted(after)
        BY <2>1, <3>1
      <4> HIDE DEF after
      <4> QED
        BY <4>1, <2>2, AbortedClient, Zenon DEF ClientFlags
    <3>2. CASE ~(client.exitFailed \/ ~client.closing)
      <4>1. client' = after
        BY <2>1, <3>2
      <4> HIDE DEF after
      <4> QED
        BY <4>1, <3>2, <2>2 DEF ClientFlags
    <3> QED
      BY <3>1, <3>2
  <2>4. /\ client'.closing = client.closing /\ client'.opened = client.opened
        /\ client'.ended = client.ended /\ client'.exitFailed = client.exitFailed
    BY <2>3 DEF ClientFlags
  <2>5. BridgeTypes'
    BY <2>1, <2>3 DEF BridgeInv, BridgeTypes
  <2>6. GateInv' /\ ReapInv' /\ UnansweredPoisons'
    BY <2>1, <2>3, <2>4 DEF BridgeInv, GateInv, ReapInv, UnansweredPoisons, Done
  <2> QED
    BY <2>5, <2>6 DEF BridgeInv
<1>3. CASE CleanUp
  <2>1. /\ UNCHANGED <<client, caller, gate, past, start, writer, reader, process>>
        /\ waiter = "cleanup" /\ writer = None /\ reader = "done" /\ waiter' = "done"
    BY <1>3 DEF CleanUp, Machine
  <2> QED
    BY <2>1 DEF BridgeInv, BridgeTypes, GateInv, ReapInv, UnansweredPoisons, Done
<1> QED
  BY <1>1, <1>2, <1>3

-----------------------------------------------------------------------------
(* The steps of a caller: what they have in common keeps the invariant.     *)

LEMMA CallKeepsInv ==
  ASSUME BridgeInv, NEW c \in Callers,
         UNCHANGED <<process, reader, waiter, start>>,
         caller' \in [Callers -> [at : CallerSteps, op : Ops \union {"none"}]],
         \A d \in Callers \ {c} : caller'[d] = caller[d],
         caller'[c].at # "idle" => start = "started" /\ caller'[c].op \in Ops,
         caller'[c].at = "gated" =>
             ~client'.closing /\ (client'.opened <=> caller'[c].op # "open"),
         ClientShape(client'),
         client'.ended = client.ended, client'.exitFailed = client.exitFailed,
         client.poisoned => client'.poisoned,
         client.closing => client'.closing,
         (client'.closing = client.closing /\ client'.opened = client.opened) \/ gate = c,
         writer' = writer \/ ~client.ended,
         \/ gate' = gate /\ (caller'[c].at \in {"gated", "waiting"} <=> gate = c)
         \/ gate = c /\ gate' = NoCaller /\ caller'[c].at \notin {"gated", "waiting"}
         \/ gate = NoCaller /\ gate' = c /\ caller'[c].at \in {"gated", "waiting"},
         past' \in [unanswered : BOOLEAN, confirmed : BOOLEAN],
         past'.unanswered => client'.poisoned
  PROVE  BridgeInv'
<1>1. BridgeTypes'
  BY DEF BridgeInv, BridgeTypes
<1>2. GateInv'
  <2> SUFFICES ASSUME NEW d \in Callers
               PROVE  /\ caller'[d].at \in {"gated", "waiting"} <=> gate' = d
                      /\ caller'[d].at # "idle" => start' = "started" /\ caller'[d].op \in Ops
                      /\ caller'[d].at = "gated" =>
                            ~client'.closing /\ (client'.opened <=> caller'[d].op # "open")
    BY DEF GateInv
  <2>1. CASE d = c
    BY <2>1, CallersAssumption DEF BridgeInv, GateInv
  <2>2. CASE d # c
    <3>1. caller'[d] = caller[d]
      BY <2>2
    <3>2. caller[d].at = "gated" => gate # c
      BY <2>2 DEF BridgeInv, GateInv
    <3> QED
      BY <2>2, <3>1, <3>2, CallersAssumption DEF BridgeInv, GateInv
  <2> QED
    BY <2>1, <2>2
<1>3. ReapInv'
  BY DEF BridgeInv, ReapInv, Done
<1>4. UnansweredPoisons'
  BY DEF UnansweredPoisons
<1> QED
  BY <1>1, <1>2, <1>3, <1>4 DEF BridgeInv

(* A call returns, or Close goes on to wait for the exit, and the client is *)
(* left alone or aborted.                                                   *)
LEMMA ReturnKeepsInv ==
  ASSUME BridgeInv, NEW c \in Callers, NEW result, Return(c, result),
         UNCHANGED <<process, reader, waiter, start, writer>>,
         client' \in {client, Aborted(client)},
         Sent(c) /\ result \notin {"ok", "stale"} => client'.poisoned,
         \/ gate = c /\ gate' = NoCaller
         \/ gate # c /\ gate' = gate
  PROVE  BridgeInv'
<1>1. BridgeTypes /\ ClientShape(client)
  BY DEF BridgeInv, BridgeTypes
<1>2. /\ caller' \in [Callers -> [at : CallerSteps, op : Ops \union {"none"}]]
      /\ caller'[c].at = "idle"
      /\ \A d \in Callers \ {c} : caller'[d] = caller[d]
      /\ past' \in [unanswered : BOOLEAN, confirmed : BOOLEAN]
      /\ past'.unanswered => past.unanswered \/ (Sent(c) /\ result \notin {"ok", "stale"})
  BY <1>1, ReturnEffect
<1>3. /\ ClientShape(Aborted(client)) /\ Aborted(client).poisoned
      /\ \A f \in ClientFlags \ {"poisoned"} : Aborted(client)[f] = client[f]
  BY <1>1, AbortedClient, Zenon
<1>4. /\ ClientShape(client')
      /\ client.poisoned => client'.poisoned
      /\ client'.closing = client.closing /\ client'.opened = client.opened
      /\ client'.ended = client.ended /\ client'.exitFailed = client.exitFailed
  BY <1>1, <1>3 DEF ClientFlags
<1>5. past'.unanswered => client'.poisoned
  BY <1>2, <1>4 DEF BridgeInv, UnansweredPoisons
<1> QED
  BY <1>2, <1>4, <1>5, CallKeepsInv

LEMMA CallOnlyKeeps == CallOnly => UNCHANGED <<process, reader, waiter, start>>
  BY DEF CallOnly, Machine

LEMMA BeginCallKeepsInv ==
  ASSUME BridgeInv, NEW c \in Callers, NEW op \in Ops, BeginCall(c, op)
  PROVE  BridgeInv'
<1>1. /\ start = "started" /\ caller[c].at = "idle"
      /\ UNCHANGED <<client, gate, writer, past>>
      /\ UNCHANGED <<process, reader, waiter, start>>
  BY CallOnlyKeeps DEF BeginCall
<1>2. PICK at \in {"gate", "settling"} : caller' = [caller EXCEPT ![c] = [at |-> at, op |-> op]]
  BY Zenon DEF BeginCall
<1>3. /\ caller' \in [Callers -> [at : CallerSteps, op : Ops \union {"none"}]]
      /\ caller'[c].at \notin {"gated", "waiting"} /\ caller'[c].op \in Ops
      /\ \A d \in Callers \ {c} : caller'[d] = caller[d]
  BY <1>2 DEF BridgeInv, BridgeTypes, CallerSteps
<1>4. gate # c /\ ClientShape(client)
  BY <1>1 DEF BridgeInv, BridgeTypes, GateInv
<1>5. past \in [unanswered : BOOLEAN, confirmed : BOOLEAN] /\ (past.unanswered => client.poisoned)
  BY DEF BridgeInv, BridgeTypes, UnansweredPoisons
<1> QED
  BY <1>1, <1>3, <1>4, <1>5, CallKeepsInv

(* A step of a caller that leaves the client, the writer and the history    *)
(* alone, and may take the gate.                                            *)
LEMMA GotoKeepsInv ==
  ASSUME BridgeInv, NEW c \in Callers, NEW at \in CallerSteps, Goto(c, at),
         caller[c].at # "idle",
         UNCHANGED <<process, reader, waiter, start, writer, client>>,
         at = "gated" => ~client.closing /\ (client.opened <=> caller[c].op # "open"),
         \/ gate # c /\ gate' = gate /\ at \notin {"gated", "waiting"}
         \/ gate = NoCaller /\ gate' = c /\ at \in {"gated", "waiting"}
  PROVE  BridgeInv'
<1>1. BridgeTypes /\ ClientShape(client)
  BY DEF BridgeInv, BridgeTypes
<1>2. /\ caller' \in [Callers -> [at : CallerSteps, op : Ops \union {"none"}]]
      /\ caller'[c].at = at /\ caller'[c].op = caller[c].op
      /\ \A d \in Callers \ {c} : caller'[d] = caller[d]
      /\ past' = past
  BY <1>1, GotoEffect
<1>3. start = "started" /\ caller[c].op \in Ops
  BY DEF BridgeInv, GateInv
<1>4. past' \in [unanswered : BOOLEAN, confirmed : BOOLEAN] /\ (past'.unanswered => client.poisoned)
  BY <1>2 DEF BridgeInv, BridgeTypes, UnansweredPoisons
<1> QED
  BY <1>1, <1>2, <1>3, <1>4, CallKeepsInv

LEMMA TakeGateKeepsInv ==
  ASSUME BridgeInv, NEW c \in Callers, LeaveGate(c) \/ TakeGate(c)
  PROVE  BridgeInv'
<1>1. /\ caller[c].at = "gate" /\ ~Sent(c) /\ gate # c
      /\ UNCHANGED <<client, writer>>
      /\ UNCHANGED <<process, reader, waiter, start>>
  BY CallOnlyKeeps DEF LeaveGate, TakeGate, Sent, BridgeInv, GateInv
<1>2. ASSUME NEW result, Return(c, result), gate' = gate PROVE BridgeInv'
  BY <1>1, <1>2, ReturnKeepsInv
<1>3. CASE LeaveGate(c)
  BY <1>2, <1>3 DEF LeaveGate
<1>4. CASE TakeGate(c)
  <2>1. \/ \E result \in {"failed", "refused"} : Return(c, result) /\ gate' = gate
        \/ Goto(c, "settling") /\ gate' = gate
        \/ /\ ~client.closing /\ (client.opened <=> caller[c].op # "open")
           /\ Goto(c, "gated") /\ gate = NoCaller /\ gate' = c
    BY <1>4 DEF TakeGate
  <2>2. CASE Goto(c, "settling") /\ gate' = gate
    BY <1>1, <2>2, GotoKeepsInv DEF CallerSteps
  <2>3. CASE /\ ~client.closing /\ (client.opened <=> caller[c].op # "open")
             /\ Goto(c, "gated") /\ gate = NoCaller /\ gate' = c
    BY <1>1, <2>3, GotoKeepsInv DEF CallerSteps
  <2> QED
    BY <1>2, <2>1, <2>2, <2>3
<1> QED
  BY <1>3, <1>4

(* The request is handed to the writer: the call waits, with the gate.      *)
LEMMA AdmitKeepsInv ==
  ASSUME BridgeInv, NEW c \in Callers, Admit(c)
  PROVE  BridgeInv'
<1>1. /\ caller[c].at = "gated" /\ ~Sent(c) /\ gate = c
      /\ UNCHANGED <<process, reader, waiter, start>>
  BY CallOnlyKeeps DEF Admit, Sent, BridgeInv, GateInv
<1>2. CASE /\ Return(c, "cancelled") /\ Release
           /\ UNCHANGED <<client, writer>>
  BY <1>1, <1>2, ReturnKeepsInv DEF Release
<1>3. CASE /\ Return(c, "failed") /\ Release
           /\ client' = Aborted(client)
           /\ UNCHANGED writer
  BY <1>1, <1>3, ReturnKeepsInv DEF Release
<1>4. CASE /\ ~client.poisoned /\ ~client.ended
           /\ client' = [client EXCEPT !.nextSeq = client.nextSeq + 1,
                                       !.closing = @ \/ caller[c].op = "close"]
           /\ Goto(c, "waiting")
           /\ UNCHANGED gate
  <2>1. BridgeTypes /\ ClientShape(client)
    BY DEF BridgeInv, BridgeTypes
  <2>2. /\ caller' \in [Callers -> [at : CallerSteps, op : Ops \union {"none"}]]
        /\ caller'[c].at = "waiting" /\ caller'[c].op = caller[c].op
        /\ \A d \in Callers \ {c} : caller'[d] = caller[d]
        /\ past' = past
    BY <1>4, <2>1, GotoEffect DEF CallerSteps
  <2>3. /\ ClientShape(client')
        /\ client.closing => client'.closing
        /\ client'.ended = client.ended /\ client'.exitFailed = client.exitFailed
        /\ client'.poisoned = client.poisoned
    BY <1>4, <2>1, Zenon DEF ClientShape, ClientFields, ClientFlags
  <2>4. start = "started" /\ caller[c].op \in Ops
    BY <1>1 DEF BridgeInv, GateInv
  <2>5. past' \in [unanswered : BOOLEAN, confirmed : BOOLEAN] /\ (past'.unanswered => client'.poisoned)
    BY <2>2, <2>3 DEF BridgeInv, BridgeTypes, UnansweredPoisons
  <2> QED
    BY <1>1, <1>4, <2>2, <2>3, <2>4, <2>5, CallKeepsInv
<1> QED
  BY <1>2, <1>3, <1>4 DEF Admit

(* What Commit changes of the flags.                                        *)
LEMMA CommitClient ==
  ASSUME ClientShape(client), NEW op, NEW response
  PROVE  /\ ClientShape(Commit(op, response))
         /\ \A f \in ClientFlags \ {"opened", "closed"} : Commit(op, response)[f] = client[f]
         /\ Commit(op, response).opened = ((client.opened \/ op = "open") /\ op # "close")
<1>1. Commit(op, response) = [f \in ClientFields |-> Commit(op, response)[f]]
  BY ZenonT(30) DEF ClientShape, ClientFields, ClientFlags, Commit
<1>2. \A f \in ClientFlags \ {"opened", "closed"} : Commit(op, response)[f] = client[f]
  BY Zenon DEF ClientShape, ClientFields, ClientFlags, Commit
<1>3. /\ Commit(op, response).opened = ((client.opened \/ op = "open") /\ op # "close")
      /\ Commit(op, response).closed = (client.closed \/ op = "close")
  BY Zenon DEF ClientShape, ClientFields, ClientFlags, Commit
<1>4. \A f \in ClientFlags : Commit(op, response)[f] \in BOOLEAN
  BY <1>2, <1>3, ZenonT(30) DEF ClientShape, ClientFlags
<1> QED
  BY <1>1, <1>2, <1>3, <1>4 DEF ClientShape

(* The answer is taken, or the call gives up and aborts the client.         *)
LEMMA ReceiveKeepsInv ==
  ASSUME BridgeInv, NEW c \in Callers, Receive(c) \/ GiveUp(c)
  PROVE  BridgeInv'
<1>1. /\ caller[c].at = "waiting" /\ gate = c
      /\ UNCHANGED <<process, reader, waiter, start, writer>>
  BY CallOnlyKeeps DEF Receive, GiveUp, BridgeInv, GateInv
<1>2. BridgeTypes /\ ClientShape(client)
  BY DEF BridgeInv, BridgeTypes
<1>3. CASE Fail(c)
  <2>1. client' = Aborted(client) /\ client'.poisoned
    BY <1>2, <1>3, AbortedClient, Zenon DEF Fail
  <2> QED
    BY <1>1, <1>3, <2>1, ReturnKeepsInv DEF Fail, Release
<1>4. CASE Return(c, "stale") /\ Release /\ UNCHANGED client
  BY <1>1, <1>4, ReturnKeepsInv DEF Release
<1>5. CASE /\ client' = Commit(caller[c].op, pending.response)
           /\ IF caller[c].op = "close" THEN Goto(c, "reaping") ELSE Return(c, "ok")
           /\ Release
  <2>1. /\ ClientShape(client')
        /\ client'.closing = client.closing /\ client'.poisoned = client.poisoned
        /\ client'.ended = client.ended /\ client'.exitFailed = client.exitFailed
    <3> DEFINE new == Commit(caller[c].op, pending.response)
    <3>1. /\ ClientShape(new)
          /\ \A f \in ClientFlags \ {"opened", "closed"} : new[f] = client[f]
      BY <1>2, CommitClient
    <3> HIDE DEF new
    <3>2. /\ new.closing = client.closing /\ new.poisoned = client.poisoned
          /\ new.ended = client.ended /\ new.exitFailed = client.exitFailed
      BY <3>1 DEF ClientFlags
    <3>3. client' = new
      BY <1>5, SMTT(30) DEF new
    <3> QED
      BY <3>1, <3>2, <3>3
  <2>2. /\ caller' \in [Callers -> [at : CallerSteps, op : Ops \union {"none"}]]
        /\ caller'[c].at \in {"idle", "reaping"}
        /\ caller'[c].at # "idle" => caller'[c].op = caller[c].op
        /\ \A d \in Callers \ {c} : caller'[d] = caller[d]
        /\ past' \in [unanswered : BOOLEAN, confirmed : BOOLEAN]
        /\ past'.unanswered => past.unanswered
    <3>1. CASE Goto(c, "reaping")
      BY <1>2, <3>1, GotoEffect DEF CallerSteps, BridgeTypes
    <3>2. CASE Return(c, "ok")
      BY <1>2, <3>2, ReturnEffect
    <3> QED
      BY <1>5, <3>1, <3>2
  <2>3. start = "started" /\ caller[c].op \in Ops
    BY <1>1 DEF BridgeInv, GateInv
  <2>4. past'.unanswered => client'.poisoned
    BY <2>1, <2>2 DEF BridgeInv, UnansweredPoisons
  <2>5. gate' = NoCaller
    BY <1>5 DEF Release
  <2> QED
    BY <1>1, <2>1, <2>2, <2>3, <2>4, <2>5, CallKeepsInv
<1> QED
  BY <1>3, <1>4, <1>5 DEF Receive, GiveUp

(* Close waits for the exit: Done with an exit that failed means that       *)
(* waitProcess has aborted the client.                                      *)
LEMMA AwaitKeepsInv ==
  ASSUME BridgeInv, NEW c \in Callers, AwaitExit(c) \/ AwaitClosed(c)
  PROVE  BridgeInv'
<1>1. /\ caller[c].at \in {"reaping", "settling"} /\ gate # c
      /\ UNCHANGED <<process, reader, waiter, start, writer, gate>>
  BY CallOnlyKeeps DEF AwaitExit, AwaitClosed, BridgeInv, GateInv
<1>2. ClientShape(client) /\ ClientShape(Aborted(client)) /\ Aborted(client).poisoned
  BY AbortedClient, Zenon DEF BridgeInv, BridgeTypes
<1>3. CASE AwaitExit(c)
  <2>1. CASE /\ Done /\ Return(c, Outcome)
             /\ client' = IF client.cleanupFailed THEN Aborted(client) ELSE client
    <3>1. Outcome \notin {"ok", "stale"} => client'.poisoned
      BY <1>2, <2>1 DEF Outcome, Done, BridgeInv, ReapInv
    <3> QED
      BY <1>1, <2>1, <3>1, ReturnKeepsInv
  <2>2. CASE Return(c, "failed") /\ client' = Aborted(client)
    BY <1>1, <1>2, <2>2, ReturnKeepsInv
  <2> QED
    BY <1>3, <2>1, <2>2 DEF AwaitExit
<1>4. CASE AwaitClosed(c)
  <2>1. ~Sent(c) /\ client' = client
    BY <1>4 DEF AwaitClosed, Sent
  <2>2. \E result \in {"ok", "failed", "cancelled"} : Return(c, result)
    BY <1>4 DEF AwaitClosed, Outcome
  <2> QED
    BY <1>1, <2>1, <2>2, ReturnKeepsInv
<1> QED
  BY <1>3, <1>4

LEMMA BridgeInvNext == BridgeInv /\ [Next]_vars => BridgeInv'
<1> SUFFICES ASSUME BridgeInv, [Next]_vars PROVE BridgeInv'
  OBVIOUS
<1>1. CASE (Buffer \/ HelperStep) /\ UNCHANGED clientVars
  BY <1>1, HelperKeepsInv
<1>2. CASE StartStep
  BY <1>2, StartKeepsInv
<1>3. ASSUME NEW c \in Callers, CallStep(c) PROVE BridgeInv'
  BY <1>3, TakeGateKeepsInv, AdmitKeepsInv, ReceiveKeepsInv, AwaitKeepsInv DEF CallStep
<1>4. ASSUME NEW c \in Callers, NEW op \in Ops, BeginCall(c, op) PROVE BridgeInv'
  BY <1>4, BeginCallKeepsInv
<1>5. CASE Abort \/ Write \/ WriteFails \/ ReadFrame \/ ReadEnds \/ Kill \/ Crash
  BY <1>5, GoroutinesKeepInv
<1>6. CASE ProcessEnded \/ (\E released \in BOOLEAN : ReleaseJob(released)) \/ CleanUp
  BY <1>6, WaiterKeepsInv
<1>7. CASE UNCHANGED vars
  <2>1. UNCHANGED <<client, caller, gate, past, waiter, process, start, writer, reader>>
    BY <1>7 DEF vars, helperVars, clientVars
  <2>2. process \in [at : {"boot", "serve", "drain", "exited"}, code : {0, 1}]
    BY DEF BridgeInv, BridgeTypes
  <2> QED
    BY <2>1, <2>2, PoisoningKeepsInv
<1> QED
  BY <1>1, <1>2, <1>3, <1>4, <1>5, <1>6, <1>7 DEF Next

(* Callers, gate and reaping fit together in every state, for any number of *)
(* callers and requests.                                                    *)
THEOREM BridgeInvariant == Spec => []BridgeInv
BY BridgeInvInit, BridgeInvNext, PTL DEF Spec

(* A request that was handed to the writer and not answered has poisoned    *)
(* the client (call's deferred abort, Close, waitProcess).                  *)
THEOREM UnansweredIsPoisoned == Spec => []UnansweredPoisons
<1>1. BridgeInv => UnansweredPoisons
  BY DEF BridgeInv
<1> QED
  BY <1>1, BridgeInvariant, PTL

-----------------------------------------------------------------------------
(* The client and its helper are a backend.                                 *)

(* A state of the backend as a function of its fields, so that updates of   *)
(* it can be compared field by field.                                       *)
BackendFields == {"alive", "poisoned", "done", "opened", "closing", "pending"}

BackendShape(r) == r = [f \in BackendFields |-> r[f]]

LEMMA SameBackend ==
  ASSUME NEW r, NEW s, BackendShape(r), BackendShape(s),
         r.alive = s.alive, r.poisoned = s.poisoned, r.done = s.done,
         r.opened = s.opened, r.closing = s.closing, r.pending = s.pending
  PROVE  r = s
<1>1. \A f \in BackendFields : r[f] = s[f]
  BY DEF BackendFields
<1> QED
  BY <1>1 DEF BackendShape

LEMMA MappedFields ==
  /\ BackendShape(Mapped)
  /\ Mapped.alive = (process.at # "exited") /\ Mapped.poisoned = client.poisoned
  /\ Mapped.done = Done /\ Mapped.opened = client.opened
  /\ Mapped.closing = client.closing /\ Mapped.pending = Outstanding
<1>1. BackendShape(Mapped)
  BY Zenon DEF Mapped, BackendShape, BackendFields
<1> QED
  BY <1>1, Zenon DEF Mapped

LEMMA MappedFieldsNext ==
  /\ BackendShape(Mapped')
  /\ Mapped'.alive = (process'.at # "exited") /\ Mapped'.poisoned = client'.poisoned
  /\ Mapped'.done = Done' /\ Mapped'.opened = client'.opened
  /\ Mapped'.closing = client'.closing /\ Mapped'.pending = Outstanding'
<1>1. BackendShape(Mapped')
  BY Zenon DEF Mapped, BackendShape, BackendFields
<1> QED
  BY <1>1, Zenon DEF Mapped

(* What the abstract steps change.                                          *)
LEMMA PoisonedUpdate ==
  ASSUME NEW r, BackendShape(r), NEW x, NEW e, e = [r EXCEPT !.poisoned = x]
  PROVE  /\ BackendShape(e) /\ e.poisoned = x
         /\ \A f \in BackendFields \ {"poisoned"} : e[f] = r[f]
  BY DEF BackendShape, BackendFields

LEMMA EndedUpdate ==
  ASSUME NEW r, BackendShape(r), NEW x, NEW e, e = [r EXCEPT !.alive = x]
  PROVE  /\ BackendShape(e) /\ e.alive = x
         /\ \A f \in BackendFields \ {"alive"} : e[f] = r[f]
  BY DEF BackendShape, BackendFields

LEMMA ReapedUpdate ==
  ASSUME NEW r, BackendShape(r), NEW x, NEW e, e = [r EXCEPT !.done = x]
  PROVE  /\ BackendShape(e) /\ e.done = x
         /\ \A f \in BackendFields \ {"done"} : e[f] = r[f]
  BY DEF BackendShape, BackendFields

(* The steps that only poison, and those that only end the process.         *)
LEMMA QuietStep ==
  ASSUME Outstanding' = Outstanding, Done' = Done,
         client'.opened = client.opened, client'.closing = client.closing,
         \/ /\ process'.at = "exited" <=> process.at = "exited"
            /\ client'.poisoned \in {client.poisoned, TRUE}
         \/ process.at # "exited" /\ process'.at = "exited" /\ client'.poisoned = client.poisoned
  PROVE  [Backend!Next]_Mapped
<1>1. CASE (process'.at = "exited" <=> process.at = "exited") /\ client'.poisoned = client.poisoned
  BY <1>1, MappedFields, MappedFieldsNext, SameBackend
<1>2. CASE (process'.at = "exited" <=> process.at = "exited") /\ client'.poisoned = TRUE
  <2>1. /\ BackendShape(Backend!Poisoned) /\ Backend!Poisoned.poisoned = TRUE
        /\ \A f \in BackendFields \ {"poisoned"} : Backend!Poisoned[f] = Mapped[f]
    BY MappedFields, PoisonedUpdate DEF Backend!Poisoned
  <2>2. Mapped' = Backend!Poisoned
    BY <1>2, <2>1, MappedFields, MappedFieldsNext, SameBackend, ZenonT(30) DEF BackendFields
  <2> QED
    BY <2>2 DEF Backend!Next, Backend!Abort
<1>3. CASE /\ process.at # "exited" /\ process'.at = "exited"
           /\ client'.poisoned = client.poisoned
  <2>1. /\ BackendShape(Backend!Ended) /\ Backend!Ended.alive = FALSE
        /\ \A f \in BackendFields \ {"alive"} : Backend!Ended[f] = Mapped[f]
    BY MappedFields, EndedUpdate DEF Backend!Ended
  <2>2. Mapped' = Backend!Ended
    BY <1>3, <2>1, MappedFields, MappedFieldsNext, SameBackend, ZenonT(30) DEF BackendFields
  <2>3. Mapped.alive
    BY <1>3, MappedFields, Zenon
  <2> QED
    BY <2>2, <2>3 DEF Backend!Next, Backend!End
<1> QED
  BY <1>1, <1>2, <1>3, ZenonT(30)

(* The same from what the actions say.                                      *)
LEMMA PoisoningStep ==
  ASSUME BridgeInv, client' \in {client, Aborted(client)},
         Outstanding' = Outstanding, Done' = Done, process' = process
  PROVE  [Backend!Next]_Mapped
<1>1. ClientShape(client)
  BY DEF BridgeInv, BridgeTypes
<1>2. /\ Aborted(client).poisoned = TRUE
      /\ \A f \in ClientFlags \ {"poisoned"} : Aborted(client)[f] = client[f]
  BY <1>1, AbortedClient, Zenon
<1>3. /\ client'.opened = client.opened /\ client'.closing = client.closing
      /\ client'.poisoned \in {client.poisoned, TRUE}
  BY <1>2, Zenon DEF ClientFlags
<1> QED
  BY <1>3, QuietStep, Zenon

(* A request is given up: poisoned, and no longer pending.                  *)
LEMMA FailingStep ==
  ASSUME BridgeInv, client' = Aborted(client), process' = process, Done' = Done,
         Outstanding # "none", Outstanding' = "none"
  PROVE  Backend!Fail
<1>0. BackendShape(Mapped)
  BY MappedFields
<1>1. ClientShape(client)
  BY DEF BridgeInv, BridgeTypes
<1>2. /\ client'.poisoned = TRUE
      /\ client'.opened = client.opened /\ client'.closing = client.closing
  BY <1>1, AbortedClient, Zenon DEF ClientFlags
<1>3. /\ BackendShape(Backend!Failed) /\ Backend!Failed.poisoned = TRUE
      /\ Backend!Failed.pending = "none"
      /\ \A f \in BackendFields \ {"poisoned", "pending"} : Backend!Failed[f] = Mapped[f]
  BY <1>0, Zenon DEF Backend!Failed, BackendShape, BackendFields
<1>4. /\ Mapped'.alive = Backend!Failed.alive /\ Mapped'.done = Backend!Failed.done
      /\ Mapped'.opened = Backend!Failed.opened /\ Mapped'.closing = Backend!Failed.closing
      /\ Mapped'.poisoned = Backend!Failed.poisoned /\ Mapped'.pending = Backend!Failed.pending
  BY <1>2, <1>3, MappedFields, MappedFieldsNext, ZenonT(60) DEF BackendFields
<1>5. Mapped' = Backend!Failed
  BY <1>3, <1>4, MappedFieldsNext, SameBackend, ZenonT(30)
<1> QED
  BY <1>5, MappedFields DEF Backend!Fail

(* A request, or the greeting, is answered.                                 *)
LEMMA AnsweringStep ==
  ASSUME ~client.poisoned, client'.poisoned = client.poisoned,
         client'.closing = client.closing,
         client'.opened = ((client.opened \/ Outstanding = "open") /\ Outstanding # "close"),
         process' = process, Done' = Done, Outstanding # "none", Outstanding' = "none"
  PROVE  Backend!Answer
<1>0. BackendShape(Mapped)
  BY MappedFields
<1> DEFINE opened == (Mapped.opened \/ Mapped.pending = "open") /\ Mapped.pending # "close"
<1>1. Backend!Answered = [Mapped EXCEPT !.pending = "none", !.opened = opened]
  BY Zenon DEF Backend!Answered
<1>2. client'.opened = opened
  BY MappedFields
<1> HIDE DEF opened
<1>3. /\ BackendShape(Backend!Answered) /\ Backend!Answered.opened = opened
      /\ Backend!Answered.pending = "none"
      /\ \A f \in BackendFields \ {"opened", "pending"} : Backend!Answered[f] = Mapped[f]
  BY <1>0, <1>1, Zenon DEF BackendShape, BackendFields
<1>4. Mapped' = Backend!Answered
  BY <1>2, <1>3, MappedFields, MappedFieldsNext, SameBackend, SMTT(60) DEF BackendFields
<1> QED
  BY <1>4, MappedFields DEF Backend!Answer, Backend!CanAnswer

(* A request is admitted.                                                   *)
LEMMA AdmittingStep ==
  ASSUME NEW op \in Ops, ~client.poisoned, client'.poisoned = client.poisoned,
         client'.closing = (client.closing \/ op = "close"), ~client.closing,
         client'.opened = client.opened, client.opened <=> op # "open",
         process' = process, ~Done, Done' = Done, Outstanding = "none", Outstanding' = op
  PROVE  Backend!Admit
<1>0. BackendShape(Mapped)
  BY MappedFields
<1> DEFINE closing == Mapped.closing \/ op = "close"
<1>1. Backend!Admitted(op) = [Mapped EXCEPT !.pending = op, !.closing = closing]
  BY Zenon DEF Backend!Admitted
<1>2. client'.closing = closing
  BY MappedFields, SMTT(30)
<1> HIDE DEF closing
<1>3. /\ BackendShape(Backend!Admitted(op)) /\ Backend!Admitted(op).closing = closing
      /\ Backend!Admitted(op).pending = op
      /\ \A f \in BackendFields \ {"closing", "pending"} : Backend!Admitted(op)[f] = Mapped[f]
  BY <1>0, <1>1, ZenonT(30) DEF BackendShape, BackendFields
<1>4. Mapped' = Backend!Admitted(op)
  BY <1>2, <1>3, MappedFields, MappedFieldsNext, SameBackend, SMTT(60) DEF BackendFields
<1>5. Backend!CanAdmit(op)
  BY MappedFields DEF Backend!CanAdmit
<1>6. op \in Backend!Operations
  BY DEF Ops, Backend!Operations
<1> QED
  BY <1>4, <1>5, <1>6 DEF Backend!Admit

(* Done comes after the exit of a process that was aborted or closed.       *)
LEMMA ReapingStep ==
  ASSUME client' = client, process' = process, process.at = "exited",
         client.poisoned \/ client.closing, ~Done, Done' = TRUE, Outstanding' = Outstanding
  PROVE  Backend!Reap
<1>1. /\ BackendShape(Backend!Reaped) /\ Backend!Reaped.done = TRUE
      /\ \A f \in BackendFields \ {"done"} : Backend!Reaped[f] = Mapped[f]
  BY MappedFields, ReapedUpdate DEF Backend!Reaped
<1>2. Mapped' = Backend!Reaped
  BY <1>1, MappedFields, MappedFieldsNext, SameBackend, ZenonT(30) DEF BackendFields
<1> QED
  BY <1>2, MappedFields, Zenon DEF Backend!Reap, Backend!CanReap

-----------------------------------------------------------------------------
(* Each action as one of those steps.                                       *)

LEMMA SameOutstanding ==
  UNCHANGED <<start, gate, caller>> => Outstanding' = Outstanding
  BY DEF Outstanding

(* Steps of a caller that neither sends a request nor has one out.          *)
LEMMA OtherCaller ==
  ASSUME BridgeInv, NEW c \in Callers, start' = start, caller[c].at # "waiting",
         \A d \in Callers \ {c} : caller'[d] = caller[d], caller'[c].at # "waiting",
         gate' = gate \/ (gate = c /\ gate' = NoCaller) \/ (gate = NoCaller /\ gate' = c)
  PROVE  Outstanding' = Outstanding
<1>1. gate \in Callers \union {NoCaller}
  BY DEF BridgeInv, BridgeTypes
<1> QED
  BY <1>1, CallersAssumption DEF Outstanding

LEMMA HelperRefines ==
  ASSUME BridgeInv, Buffer \/ HelperStep, UNCHANGED clientVars
  PROVE  [Backend!Next]_Mapped
<1>1. process.at = "exited" => process'.at = "exited"
  BY HelperProcess DEF BridgeInv, BridgeTypes
<1>2. Outstanding' = Outstanding /\ Done' = Done /\ client' = client
  BY SameOutstanding DEF clientVars, Done
<1> QED
  BY <1>1, <1>2, QuietStep

(* The greeting is the first answer.                                        *)
LEMMA StartRefines ==
  ASSUME BridgeInv, StartStep
  PROVE  [Backend!Next]_Mapped
<1>1. UNCHANGED <<caller, gate, waiter, process>> /\ start # "started" /\ Done' = Done
  BY DEF StartStep, Assign, Greeted, StartGivenUp, StartFails, StartOnly, Machine, Done
<1>2. client' \in {client, Aborted(client)}
  BY DEF StartStep, Assign, Greeted, StartGivenUp, StartFails
<1>3. CASE start' # "started"
  <2>1. Outstanding' = Outstanding
    BY <1>1, <1>3 DEF Outstanding
  <2> QED
    BY <1>1, <1>2, <2>1, PoisoningStep
<1>4. CASE start' = "started"
  <2>1. ~client.poisoned /\ client' = client
    BY <1>4 DEF StartStep, Assign, Greeted, StartGivenUp, StartFails
  <2>2. gate = NoCaller
    BY <1>1 DEF BridgeInv, BridgeTypes, GateInv
  <2>3. Outstanding = "ready" /\ Outstanding' = "none"
    BY <1>1, <1>4, <2>2 DEF Outstanding
  <2>4. client.opened \in BOOLEAN
    BY DEF BridgeInv, BridgeTypes, ClientShape, ClientFlags
  <2>5. client'.opened = ((client.opened \/ Outstanding = "open") /\ Outstanding # "close")
    BY <2>1, <2>3, <2>4
  <2>6. Backend!Answer
    BY <1>1, <2>1, <2>3, <2>5, AnsweringStep
  <2> QED
    BY <2>6 DEF Backend!Next
<1> QED
  BY <1>3, <1>4

LEMMA GoroutinesRefine ==
  ASSUME BridgeInv, Abort \/ Write \/ WriteFails \/ ReadFrame \/ ReadEnds \/ Kill \/ Crash
  PROVE  [Backend!Next]_Mapped
<1>0. UNCHANGED <<caller, gate, waiter, start>>
  BY DEF Abort, Write, WriteFails, ReadFrame, ReadEnds, Kill, Crash, clientVars
<1>1. Outstanding' = Outstanding /\ Done' = Done
  BY <1>0, SameOutstanding DEF Done
<1>2. CASE Abort \/ Write \/ WriteFails \/ ReadFrame \/ ReadEnds
  <2>1. process' = process
    BY <1>2 DEF Abort, Write, WriteFails, ReadFrame, ReadEnds, Machine
  <2>2. client' \in {client, Aborted(client)}
    BY <1>2 DEF Abort, Write, WriteFails, ReadFrame, ReadEnds
  <2> QED
    BY <1>1, <2>1, <2>2, PoisoningStep
<1>3. CASE Crash
  <2>1. client' = client /\ process.at # "exited" /\ process'.at = "exited"
    BY <1>3 DEF Crash, Killed, Exits, clientVars
  <2> QED
    BY <1>1, <2>1, QuietStep
<1>4. CASE Kill
  <2>1. /\ client' = [client EXCEPT !.killer = "fired"]
        /\ process' = process \/ (process.at # "exited" /\ process'.at = "exited")
    BY <1>4 DEF Kill, Killed, Exits, Machine
  <2>2. \A f \in ClientFlags : client'[f] = client[f]
    BY <2>1 DEF BridgeInv, BridgeTypes, ClientShape, ClientFields, ClientFlags
  <2>3. /\ client'.closing = client.closing /\ client'.opened = client.opened
        /\ client'.poisoned = client.poisoned
    BY <2>2 DEF ClientFlags
  <2> QED
    BY <1>1, <2>1, <2>3, QuietStep
<1> QED
  BY <1>2, <1>3, <1>4

LEMMA WaiterRefines ==
  ASSUME BridgeInv,
         ProcessEnded \/ (\E released \in BOOLEAN : ReleaseJob(released)) \/ CleanUp
  PROVE  [Backend!Next]_Mapped
<1>0. UNCHANGED <<caller, gate, start, process>>
  BY Zenon DEF ProcessEnded, ReleaseJob, CleanUp, Machine
<1>1. Outstanding' = Outstanding
  BY <1>0, SameOutstanding
<1>2. ClientShape(client)
  BY DEF BridgeInv, BridgeTypes
<1>3. CASE ProcessEnded
  <2>1. /\ waiter = "waiting" /\ waiter' = "ended"
        /\ client' = [client EXCEPT !.ended = TRUE, !.exitFailed = (process.code # 0)]
    BY <1>3 DEF ProcessEnded
  <2>2. \A f \in ClientFlags \ {"ended", "exitFailed"} : client'[f] = client[f]
    BY <1>2, <2>1, Zenon DEF ClientShape, ClientFields, ClientFlags
  <2>3. /\ client'.closing = client.closing /\ client'.opened = client.opened
        /\ client'.poisoned = client.poisoned
    BY <2>2 DEF ClientFlags
  <2> QED
    BY <1>0, <1>1, <2>1, <2>3, QuietStep DEF Done
<1>4. ASSUME NEW released \in BOOLEAN, ReleaseJob(released) PROVE [Backend!Next]_Mapped
  <2> DEFINE after == [client EXCEPT !.cleanupFailed = ~released]
  <2>1. /\ waiter = "ended" /\ waiter' = "cleanup"
        /\ client' = Aborted(after) \/ client' = after
    BY <1>4 DEF ReleaseJob
  <2>2. ClientShape(after) /\ \A f \in ClientFlags \ {"cleanupFailed"} : after[f] = client[f]
    BY <1>2 DEF ClientShape, ClientFields, ClientFlags
  <2> HIDE DEF after
  <2>3. /\ Aborted(after).poisoned = TRUE
        /\ \A f \in ClientFlags \ {"poisoned"} : Aborted(after)[f] = after[f]
    BY <2>2, AbortedClient, Zenon
  <2>4. /\ client'.closing = client.closing /\ client'.opened = client.opened
        /\ client'.poisoned \in {client.poisoned, TRUE}
    BY <2>1, <2>2, <2>3, Zenon DEF ClientFlags
  <2> QED
    BY <1>0, <1>1, <2>1, <2>4, QuietStep, Zenon DEF Done
<1>5. CASE CleanUp
  <2>1. waiter = "cleanup" /\ waiter' = "done" /\ client' = client
    BY <1>5 DEF CleanUp
  <2>2. process.at = "exited" /\ (client.poisoned \/ client.closing)
    BY <2>1 DEF BridgeInv, ReapInv
  <2>3. Backend!Reap
    BY <1>0, <1>1, <2>1, <2>2, ReapingStep, ZenonT(30) DEF Done
  <2> QED
    BY <2>3 DEF Backend!Next
<1> QED
  BY <1>3, <1>4, <1>5

(* Calls before their request is sent, and Close after its acknowledgement. *)
LEMMA WaitingCallRefines ==
  ASSUME BridgeInv, NEW c \in Callers,
         LeaveGate(c) \/ TakeGate(c) \/ AwaitExit(c) \/ AwaitClosed(c)
           \/ \E op \in Ops : BeginCall(c, op)
  PROVE  [Backend!Next]_Mapped
<1>1. BridgeTypes /\ caller[c].at # "waiting"
  BY DEF LeaveGate, TakeGate, AwaitExit, AwaitClosed, BeginCall, BridgeInv
<1>2. UNCHANGED <<process, waiter, start>> /\ Done' = Done
  BY CallOnlyKeeps, SMTT(30) DEF LeaveGate, TakeGate, AwaitExit, AwaitClosed, BeginCall, Done
<1>3. client' \in {client, Aborted(client)}
  BY DEF LeaveGate, TakeGate, AwaitExit, AwaitClosed, BeginCall
<1>4. gate' = gate \/ (gate = NoCaller /\ gate' = c)
  BY DEF LeaveGate, TakeGate, AwaitExit, AwaitClosed, BeginCall
<1>5. /\ \A d \in Callers \ {c} : caller'[d] = caller[d]
      /\ caller'[c].at # "waiting"
  <2>1. CASE \E op \in Ops : BeginCall(c, op)
    <3> PICK op \in Ops : BeginCall(c, op)
      BY <2>1
    <3>1. PICK at \in {"settling", "gate"} : caller' = [caller EXCEPT ![c] = [at |-> at, op |-> op]]
      BY ZenonT(30) DEF BeginCall
    <3> QED
      BY <1>1, <3>1 DEF BridgeTypes
  <2>2. ASSUME NEW result, Return(c, result)
        PROVE  /\ \A d \in Callers \ {c} : caller'[d] = caller[d]
               /\ caller'[c].at # "waiting"
    BY <1>1, <2>2, ReturnEffect, SMTT(30)
  <2>3. ASSUME NEW at \in {"settling", "gated"}, Goto(c, at)
        PROVE  /\ \A d \in Callers \ {c} : caller'[d] = caller[d]
               /\ caller'[c].at # "waiting"
    BY <1>1, <2>3, GotoEffect, SMTT(30) DEF CallerSteps
  <2>4. CASE LeaveGate(c) \/ AwaitExit(c) \/ AwaitClosed(c)
    BY <2>2, <2>4, SMTT(30) DEF LeaveGate, AwaitExit, AwaitClosed
  <2>5. CASE TakeGate(c)
    <3>1. \/ Goto(c, "settling") \/ Goto(c, "gated")
          \/ \E result \in {"failed", "refused"} : Return(c, result)
      BY <2>5, Zenon DEF TakeGate
    <3> QED
      BY <2>2, <2>3, <3>1, Zenon
  <2> QED
    BY <2>1, <2>4, <2>5
<1>6. Outstanding' = Outstanding
  BY <1>1, <1>2, <1>4, <1>5, OtherCaller, Zenon
<1> QED
  BY <1>2, <1>3, <1>6, PoisoningStep

(* With the gate and without a request out: nothing is pending.             *)
LEMMA AdmitRefines ==
  ASSUME BridgeInv, NEW c \in Callers, Admit(c)
  PROVE  [Backend!Next]_Mapped
<1>1. /\ caller[c].at = "gated" /\ gate = c /\ c # NoCaller /\ start = "started"
      /\ caller[c].op \in Ops /\ ~client.closing /\ (client.opened <=> caller[c].op # "open")
  BY CallersAssumption DEF Admit, BridgeInv, GateInv
<1>2. UNCHANGED <<process, waiter, start>> /\ Done' = Done
  BY CallOnlyKeeps DEF Admit, Done
<1>3. BridgeTypes /\ ClientShape(client)
  BY DEF BridgeInv, BridgeTypes
<1>4. ASSUME NEW result, Return(c, result), Release, client' \in {client, Aborted(client)}
      PROVE  [Backend!Next]_Mapped
  <2>1. gate' = NoCaller /\ Outstanding' = Outstanding
    BY <1>1, <1>2, <1>4 DEF Release, Outstanding
  <2> QED
    BY <1>2, <1>4, <2>1, PoisoningStep, SMTT(30)
<1>5. CASE /\ ~client.poisoned /\ ~client.ended
           /\ client' = [client EXCEPT !.nextSeq = client.nextSeq + 1,
                                       !.closing = @ \/ caller[c].op = "close"]
           /\ Goto(c, "waiting")
           /\ UNCHANGED gate
  <2>1. caller'[c].at = "waiting" /\ caller'[c].op = caller[c].op
    BY <1>3, <1>5, GotoEffect DEF CallerSteps
  <2>2. Outstanding = "none" /\ Outstanding' = caller[c].op
    BY <1>1, <1>2, <1>5, <2>1 DEF Outstanding
  <2>3. /\ client'.poisoned = client.poisoned /\ client'.opened = client.opened
        /\ client'.closing = (client.closing \/ caller[c].op = "close")
    BY <1>3, <1>5, Zenon DEF ClientShape, ClientFields, ClientFlags
  <2>4. ~Done
    BY <1>5 DEF Done, BridgeInv, ReapInv
  <2>5. Backend!Admit
    BY <1>1, <1>2, <1>5, <2>2, <2>3, <2>4, AdmittingStep, SMTT(30)
  <2> QED
    BY <2>5 DEF Backend!Next
<1> QED
  BY <1>4, <1>5 DEF Admit

LEMMA ReceiveRefines ==
  ASSUME BridgeInv, NEW c \in Callers, Receive(c) \/ GiveUp(c)
  PROVE  [Backend!Next]_Mapped
<1>1. /\ caller[c].at = "waiting" /\ gate = c /\ c # NoCaller /\ start = "started"
      /\ caller[c].op \in Ops
  <2>1. caller[c].at = "waiting"
    BY Zenon DEF Receive, GiveUp
  <2>2. GateInv
    BY Zenon DEF BridgeInv
  <2> QED
    BY <2>1, <2>2, CallersAssumption, SMTT(30) DEF GateInv
<1>2. UNCHANGED <<process, waiter, start>> /\ Done' = Done /\ gate' = NoCaller
  BY CallOnlyKeeps DEF Receive, GiveUp, Fail, Release, Done
<1>3. BridgeTypes /\ ClientShape(client)
  BY DEF BridgeInv, BridgeTypes
<1>4. Outstanding = caller[c].op /\ Outstanding # "none" /\ Outstanding' = "none"
  BY <1>1, <1>2 DEF Outstanding, Ops
<1>5. CASE Fail(c)
  <2>1. Backend!Fail
    BY <1>2, <1>4, <1>5, FailingStep DEF Fail
  <2> QED
    BY <2>1 DEF Backend!Next
<1>6. ASSUME ~client.poisoned, client'.poisoned = client.poisoned,
             client'.closing = client.closing,
             client'.opened = ((client.opened \/ caller[c].op = "open") /\ caller[c].op # "close")
      PROVE  [Backend!Next]_Mapped
  <2>1. Backend!Answer
    BY <1>2, <1>4, <1>6, AnsweringStep
  <2> QED
    BY <2>1, SMTT(30) DEF Backend!Next
<1>7. CASE ~client.poisoned /\ caller[c].op = "read" /\ UNCHANGED client
  <2>1. client.opened \in BOOLEAN
    BY <1>3 DEF ClientShape, ClientFlags
  <2>2. client.opened = ((client.opened \/ caller[c].op = "open") /\ caller[c].op # "close")
    BY <1>7, <2>1, SMTT(30)
  <2> QED
    BY <1>6, <1>7, <2>2
<1>8. CASE ~client.poisoned /\ client' = Commit(caller[c].op, pending.response)
  <2>1. /\ client'.poisoned = client.poisoned /\ client'.closing = client.closing
        /\ client'.opened = ((client.opened \/ caller[c].op = "open") /\ caller[c].op # "close")
    <3> DEFINE new == Commit(caller[c].op, pending.response)
    <3>1. /\ \A f \in ClientFlags \ {"opened", "closed"} : new[f] = client[f]
          /\ new.opened = ((client.opened \/ caller[c].op = "open") /\ caller[c].op # "close")
      BY <1>3, CommitClient
    <3> HIDE DEF new
    <3>2. new.poisoned = client.poisoned /\ new.closing = client.closing
      BY <3>1 DEF ClientFlags
    <3>3. client' = new
      BY <1>8 DEF new
    <3> QED
      BY <3>1, <3>2, <3>3, SMTT(30)
  <2> QED
    BY <1>6, <1>8, <2>1, SMTT(30)
<1>9. CASE GiveUp(c)
  BY <1>5, <1>9, Zenon DEF GiveUp
<1>10. CASE Receive(c)
  <2>1. \/ Fail(c)
        \/ ~client.poisoned /\ caller[c].op = "read" /\ UNCHANGED client
        \/ ~client.poisoned /\ client' = Commit(caller[c].op, pending.response)
    BY <1>10, Zenon DEF Receive
  <2> QED
    BY <1>5, <1>7, <1>8, <2>1, Zenon
<1> QED
  BY <1>9, <1>10, ZenonT(30)

(* The client starts as a backend does, waiting for the greeting.           *)
LEMMA InitRefines == Init => Backend!Init
<1> SUFFICES ASSUME Init PROVE Mapped = Backend!Started
  BY DEF Backend!Init
<1>1. /\ BackendShape(Backend!Started)
      /\ Backend!Started.alive = TRUE /\ Backend!Started.poisoned = FALSE
      /\ Backend!Started.done = FALSE /\ Backend!Started.opened = FALSE
      /\ Backend!Started.closing = FALSE /\ Backend!Started.pending = "ready"
  BY SMTT(30) DEF Backend!Started, BackendShape, BackendFields
<1>2. /\ process.at = "boot" /\ ~Done /\ Outstanding = "ready"
      /\ client.poisoned = FALSE /\ client.opened = FALSE /\ client.closing = FALSE
  BY DEF Init, HelperInit, Done, Outstanding
<1>3. Mapped.alive = TRUE /\ Mapped.done = FALSE
  BY <1>2, MappedFields, Zenon DEF Done
<1> QED
  BY <1>1, <1>2, <1>3, MappedFields, SameBackend, Zenon

LEMMA NextRefines == BridgeInv /\ [Next]_vars => [Backend!Next]_Mapped
<1> SUFFICES ASSUME BridgeInv, [Next]_vars PROVE [Backend!Next]_Mapped
  OBVIOUS
<1>1. CASE (Buffer \/ HelperStep) /\ UNCHANGED clientVars
  BY <1>1, HelperRefines
<1>2. CASE StartStep
  BY <1>2, StartRefines
<1>3. ASSUME NEW c \in Callers, CallStep(c) \/ \E op \in Ops : BeginCall(c, op)
      PROVE  [Backend!Next]_Mapped
  BY <1>3, WaitingCallRefines, AdmitRefines, ReceiveRefines DEF CallStep
<1>4. CASE Abort \/ Write \/ WriteFails \/ ReadFrame \/ ReadEnds \/ Kill \/ Crash
  BY <1>4, GoroutinesRefine
<1>5. CASE ProcessEnded \/ (\E released \in BOOLEAN : ReleaseJob(released)) \/ CleanUp
  BY <1>5, WaiterRefines
<1>6. CASE UNCHANGED vars
  BY <1>6, Zenon DEF vars, helperVars, clientVars, Mapped, Outstanding, Done
<1> QED
  BY <1>1, <1>2, <1>3, <1>4, <1>5, <1>6 DEF Next

(* Client and helper together take only the steps that tracecontrol expects *)
(* of a backend: one request at a time, none once poisoned, and Done only   *)
(* after the exit of a process that was aborted or closed.                  *)
THEOREM ClientIsBackend == Spec => Backend!Init /\ [][Backend!Next]_Mapped
<1>1. BridgeInv /\ [Next]_vars => [Backend!Next]_Mapped
  BY NextRefines
<1> QED
  BY <1>1, InitRefines, BridgeInvariant, PTL DEF Spec
=============================================================================
