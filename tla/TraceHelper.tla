----------------------------- MODULE TraceHelper ----------------------------
(***************************************************************************)
(* The helper process of a capture: the serve loop and HelperSession of      *)
(* bridge/timemachine_helper.py over NativeTimeMachine of                    *)
(* bridge/timemachine_native.py, and the packet buffer it reads.             *)
(*                                                                          *)
(* The buffer belongs to the vendor's library.  It grows, is replaced when   *)
(* a trace starts or is cleared, and gets another decoder while the helper   *)
(* is between any two of its native calls; the library tells by callbacks    *)
(* that arrive later, at the latest when events are processed.  The helper   *)
(* numbers what it saw with a generation that clients quote when they read.  *)
(***************************************************************************)
EXTENDS Naturals, Sequences, TLC

CONSTANTS
    MaxPackets,         \* bound: packets in the buffer
    MaxEvents,          \* bound: what the buffer goes through
    NativeLimit,        \* notifications NativeTimeMachine keeps
    SessionLimit,       \* notifications HelperSession keeps
    None

VARIABLES
    collection, \* external: the buffer, its contents and decoder as numbers
    callbacks,  \* external: callbacks the library has yet to make
    native,     \* NativeTimeMachine
    session,    \* HelperSession
    task,       \* the request serve works on, and how far it has come
    process,    \* the process: where serve is, and its exit code
    toHelper,   \* the pipe of requests
    toClient,   \* the pipe of responses
    pipes,      \* the client still holds its ends of the pipes
    served,     \* history: generation, contents and decoder of each batch served
    told        \* history: the last status answered

helperVars ==
    <<collection, callbacks, native, session, task, process, toHelper, toClient,
      pipes, served, told>>

Invalidating == {"trace_start", "data_clear", "packet_count_regressed"}

(* trace_stop, select_packet and new_data_available.                         *)
Harmless == "new_data_available"

(* The refresh serve makes of its own accord is a task without a request.    *)
NoTask == [at |-> "idle", request |-> [op |-> "pump"]]

Task(at, request) ==
    [at |-> at, request |-> request, round |-> 1, info |-> None, batch |-> None,
     regressed |-> FALSE, changed |-> FALSE]

NewCollection == [contents |-> 1, decoder |-> 1, packets |-> 0, events |-> 0]

NewNative == [state |-> "new", notes |-> <<>>, invalidated |-> FALSE, lastCount |-> None]

NewSession ==
    [opened |-> FALSE, terminal |-> FALSE, faulted |-> FALSE, generation |-> 1,
     info |-> None, count |-> None, events |-> 0]

NothingTold == [generation |-> 0, count |-> 0]

HelperInit ==
    /\ collection = NewCollection
    /\ callbacks = <<>>
    /\ native = NewNative
    /\ session = NewSession
    /\ task = NoTask
    /\ process = [at |-> "boot", code |-> 0]
    /\ toHelper = <<>>
    /\ toClient = <<>>
    /\ pipes = TRUE
    /\ served = {}
    /\ told = NothingTold

-----------------------------------------------------------------------------
(* The buffer and its callbacks.                                             *)

CollectionOnly ==
    UNCHANGED <<native, session, task, process, toHelper, toClient, pipes, served, told>>

(* Before the connection any buffer is as good as the first.                 *)
Happens ==
    /\ collection.events < MaxEvents
    /\ process.at = "serve" /\ native.state = "connected"

Announce(name) == callbacks' = Append(callbacks, name)

BufferGrows ==
    /\ Happens /\ collection.packets < MaxPackets
    /\ collection' = [collection EXCEPT !.packets = @ + 1, !.events = @ + 1]
    /\ \E announced \in BOOLEAN :
          IF announced THEN Announce(Harmless) ELSE UNCHANGED callbacks
    /\ CollectionOnly

BufferReplaced(name) ==
    /\ Happens
    /\ collection' =
          [collection EXCEPT !.contents = @ + 1, !.packets = 0, !.events = @ + 1]
    /\ Announce(name)
    /\ CollectionOnly

DecoderReplaced ==
    /\ Happens
    /\ collection' = [collection EXCEPT !.decoder = @ + 1, !.events = @ + 1]
    /\ UNCHANGED callbacks
    /\ CollectionOnly

(* _enqueue_locked.                                                          *)
Enqueue(n, name) ==
    [n EXCEPT !.invalidated = @ \/ name \in Invalidating \/ Len(n.notes) = NativeLimit,
              !.notes = IF Len(@) = NativeLimit THEN @ ELSE Append(@, name)]

(* _callback: for a connection that is gone it only counts, or fails.        *)
Received(n, name) ==
    IF n.state # "connected"
    THEN [n EXCEPT !.invalidated = TRUE]
    ELSE Enqueue([n EXCEPT !.lastCount =
                     IF name \in {"trace_start", "data_clear"} THEN None ELSE @], name)

Callback ==
    /\ callbacks # <<>> /\ process.at # "exited"
    /\ \/ native' = Received(native, Head(callbacks))
       \/ native' = [native EXCEPT !.invalidated = TRUE]
    /\ callbacks' = Tail(callbacks)
    /\ UNCHANGED <<collection, session, task, process, toHelper, toClient, pipes, served, told>>

-----------------------------------------------------------------------------
(* serve and HelperSession                                                   *)

Library == UNCHANGED <<collection, callbacks>>

Working(at) == process.at = "serve" /\ task.at = at

Respond(response) ==
    /\ toClient' = Append(toClient, response @@ [event |-> "none", seq |-> task.request.seq])
    /\ task' = NoTask

Refused(code) == [ok |-> FALSE, code |-> code]

Boot(bits) ==
    /\ process.at = "boot"
    /\ process' = [process EXCEPT !.at = "serve"]
    /\ toClient' = Append(toClient, [event |-> "ready", bits |-> bits])
    /\ Library
    /\ UNCHANGED <<native, session, task, toHelper, pipes, served, told>>

(* The checks of dispatch that come before any native call.                  *)
Refusal(op) ==
    CASE op = "open" /\ session.opened -> "already_open"
      [] op # "open" /\ ~session.opened -> "not_open"
      [] OTHER -> "none"

FirstStep(op) ==
    CASE op \in {"open", "close"} -> op
      [] OTHER -> "poll"

TakeRequest ==
    /\ Working("idle") /\ toHelper # <<>>
    /\ toHelper' = Tail(toHelper)
    /\ LET request == Head(toHelper) IN
       IF Refusal(request.op) = "none"
       THEN /\ task' = Task(FirstStep(request.op), request)
            /\ UNCHANGED toClient
       ELSE /\ toClient' =
                  Append(toClient, Refused(Refusal(request.op)) @@
                                   [event |-> "none", seq |-> request.seq])
            /\ UNCHANGED task
    /\ Library
    /\ UNCHANGED <<native, session, process, pipes, served, told>>

Pump ==
    /\ Working("idle") /\ session.opened
    /\ task' = Task("poll", NoTask.request)
    /\ Library
    /\ UNCHANGED <<native, session, process, toHelper, toClient, pipes, served, told>>

(* initialize and connect.                                                   *)
OpenSession ==
    /\ Working("open")
    /\ native' = [native EXCEPT !.state = "connected"]
    /\ session' = [session EXCEPT !.opened = TRUE]
    /\ task' = [task EXCEPT !.at = "poll"]
    /\ Library
    /\ UNCHANGED <<process, toHelper, toClient, pipes, served, told>>

(* poll_events returns when the callbacks it found have been made; get_info. *)
PollEvents ==
    /\ Working("poll") /\ callbacks = <<>>
    /\ task' = [task EXCEPT !.at = "count", !.info = collection.decoder]
    /\ Library
    /\ UNCHANGED <<native, session, process, toHelper, toClient, pipes, served, told>>

Below(count, last) == last # None /\ count < last

PacketCount ==
    /\ Working("count")
    /\ LET count == collection.packets IN
       /\ native' =
             [(IF Below(count, native.lastCount)
               THEN Enqueue(native, "packet_count_regressed") ELSE native)
              EXCEPT !.lastCount = count]
       /\ session' = [session EXCEPT !.count = count, !.info = task.info]
       /\ task' = [task EXCEPT !.at = "drain",
                               !.regressed = Below(count, session.count),
                               !.changed = session.info \notin {None, task.info}]
    /\ Library
    /\ UNCHANGED <<process, toHelper, toClient, pipes, served, told>>

(* What drain_notifications returns, with what refresh noticed itself.       *)
Drained ==
    native.notes
      \o (IF task.regressed /\ \A i \in DOMAIN native.notes : native.notes[i] # "packet_count_regressed"
          THEN <<"packet_count_regressed">> ELSE <<>>)
      \o (IF task.changed THEN <<"decoder_replacement">> ELSE <<>>)

Overflows == session.events + Len(Drained) > SessionLimit

(* _collect: the session after the notifications, which start a generation   *)
(* when they are more than harmless, or more than can be kept.               *)
Collected ==
    [session EXCEPT
        !.generation =
            IF native.invalidated \/ task.regressed \/ task.changed \/ Overflows
            THEN @ + 1 ELSE @,
        !.events = IF Overflows THEN SessionLimit ELSE @ + Len(Drained)]

Status(s) == [ok |-> TRUE, generation |-> s.generation, count |-> s.count, info |-> s.info]

AnswerStatusMutant(s) ==
    /\ Respond(Status([s EXCEPT !.generation = session.generation]))
    /\ session' = [s EXCEPT !.events = 0]
    /\ told' = [generation |-> session.generation, count |-> s.count]
    /\ UNCHANGED served

(* What dispatch does once refresh has returned with the session s.          *)
AnswerStatus(s) ==
    /\ Respond(Status(s))
    /\ session' = [s EXCEPT !.events = 0]
    /\ told' = [generation |-> s.generation, count |-> s.count]
    /\ UNCHANGED served

StaleMutant(s) == task.round = 1 /\ task.request.generation # s.generation

(* The generation is compared before the packets are read and after.         *)
Stale(s) == task.request.generation # s.generation

Outside(s) == task.round = 1 /\ task.request.count > s.count

AnswerRead(s) ==
    /\ session' = s
    /\ \/ /\ Stale(s)
          /\ Respond(Refused("stale_generation"))
          /\ UNCHANGED served
       \/ /\ ~Stale(s) /\ Outside(s)
          /\ Respond(Refused("invalid_range"))
          /\ UNCHANGED served
       \/ /\ ~Stale(s) /\ ~Outside(s) /\ task.round = 1
          /\ task' = [task EXCEPT !.at = "get"]
          /\ UNCHANGED <<toClient, served>>
       \/ /\ ~Stale(s) /\ task.round = 2
          /\ Respond([ok |-> TRUE, generation |-> s.generation])
          /\ served' = served \union {<<s.generation, task.batch>>}
    /\ UNCHANGED told

AnswerControl(s) ==
    /\ session' = s
    /\ \/ task.round = 1 /\ task' = [task EXCEPT !.at = "control"] /\ UNCHANGED toClient
       \/ task.round = 2 /\ Respond([ok |-> TRUE, generation |-> s.generation])
    /\ UNCHANGED <<served, told>>

(* drain_notifications and the rest of refresh, up to the next native call.  *)
Refreshed ==
    /\ Working("drain")
    /\ native' = [native EXCEPT !.notes = <<>>, !.invalidated = FALSE]
    /\ \/ /\ task.request.op = "pump"
          /\ session' = Collected /\ task' = NoTask
          /\ UNCHANGED <<toClient, served, told>>
       \/ task.request.op \in {"open", "status"} /\ AnswerStatus(Collected)
       \/ task.request.op = "read" /\ AnswerRead(Collected)
       \/ task.request.op \in {"start", "stop"} /\ AnswerControl(Collected)
    /\ Library
    /\ UNCHANGED <<process, toHelper, pipes>>

(* get_packets, start_trace and stop_trace are followed by another refresh.  *)
GetPackets ==
    /\ Working("get")
    /\ task' = [task EXCEPT !.at = "poll", !.round = 2,
                            !.batch = <<collection.contents, collection.decoder>>]
    /\ Library
    /\ UNCHANGED <<native, session, process, toHelper, toClient, pipes, served, told>>

ControlTrace ==
    /\ Working("control")
    /\ task' = [task EXCEPT !.at = "poll", !.round = 2]
    /\ Library
    /\ UNCHANGED <<native, session, process, toHelper, toClient, pipes, served, told>>

(* close disconnects; serve leaves its loop.                                 *)
CloseSession ==
    /\ Working("close")
    /\ native' = [native EXCEPT !.state = "closed"]
    /\ session' = [session EXCEPT !.opened = FALSE, !.terminal = TRUE]
    /\ Respond([ok |-> TRUE])
    /\ process' = [process EXCEPT !.at = "drain"]
    /\ Library
    /\ UNCHANGED <<toHelper, pipes, served, told>>

(* Any native call may fail, or be interrupted: the session is faulted and   *)
(* serve ends.  Nothing is called after a failure, not even a disconnect.    *)
NativeFails ==
    /\ process.at = "serve" /\ task.at \notin {"idle", "drain"}
    /\ native' = [native EXCEPT !.state = IF task.at = "close" THEN "close_failed" ELSE "poisoned"]
    /\ session' = [session EXCEPT !.faulted = TRUE]
    /\ \/ task.request.op # "pump" /\ Respond(Refused("native_failure"))
       \/ /\ task.request.op = "pump"
          /\ toClient' = Append(toClient, [event |-> "fatal"])
          /\ task' = NoTask
    /\ process' = [at |-> "drain", code |-> 1]
    /\ Library
    /\ UNCHANGED <<toHelper, pipes, served, told>>

(* The end of the input ends serve; so does a pipe nobody reads.             *)
InputEnds ==
    /\ Working("idle") /\ ~pipes
    /\ \E code \in {0, 1} : process' = [at |-> "drain", code |-> code]
    /\ Library
    /\ UNCHANGED <<native, session, task, toHelper, toClient, pipes, served, told>>

(* The end of the process takes all with it but what is in the pipe.  How it *)
(* left the native connection remains.                                       *)
Exits(code) ==
    /\ process' = [at |-> "exited", code |-> code]
    /\ native' = [NewNative EXCEPT !.state = native.state]
    /\ session' = NewSession
    /\ task' = NoTask
    /\ collection' = NewCollection
    /\ callbacks' = <<>>
    /\ toHelper' = <<>>
    /\ served' = {}
    /\ told' = NothingTold

(* serve waits for its writer, but not for long: the last response may be    *)
(* lost, and then the exit code says so.                                     *)
HelperExits(late) ==
    /\ process.at = "drain"
    /\ late => toClient # <<>>
    /\ toClient' = IF late THEN SubSeq(toClient, 1, Len(toClient) - 1) ELSE toClient
    /\ Exits(IF late THEN 1 ELSE process.code)
    /\ UNCHANGED pipes

(* The process is killed, by the client or by someone else.                  *)
Killed == Exits(1) /\ UNCHANGED toClient

Buffer ==
    \/ BufferGrows
    \/ \E name \in {"trace_start", "data_clear"} : BufferReplaced(name)
    \/ DecoderReplaced

HelperStep ==
    \/ \E bits \in BOOLEAN : Boot(bits)
    \/ Callback \/ TakeRequest \/ Pump \/ OpenSession
    \/ PollEvents \/ PacketCount \/ Refreshed
    \/ GetPackets \/ ControlTrace \/ CloseSession
    \/ NativeFails \/ InputEnds
    \/ \E late \in BOOLEAN : HelperExits(late)

-----------------------------------------------------------------------------

(* Two batches that quote one generation were read from the same contents    *)
(* and are decoded the same way, however the buffer was replaced around the  *)
(* native calls of the reads (dispatch compares the generation before and    *)
(* after get_packets; refresh, _collect and _callback).                      *)
OneBufferPerGeneration ==
    \A a, b \in served : a[1] = b[1] => a[2] = b[2]

(* The statuses a client sees never go back: the generation does not         *)
(* decrease, and within one the packet count does not, so observe rejects no *)
(* status of a helper (_advance and the two checks for a smaller count).     *)
StatusesAdvance ==
    [][process'.at # "exited" =>
          \/ told'.generation > told.generation
          \/ told'.generation = told.generation /\ told'.count >= told.count]_told

(* What the controller reads is never out of range: the packets of a status  *)
(* are there as long as its generation lasts, so a read is answered or       *)
(* stale and does not cost the session (dispatch, invalid_range).            *)
ReadsInRange ==
    \A i \in DOMAIN toClient :
        toClient[i].event = "none" /\ ~toClient[i].ok => toClient[i].code # "invalid_range"

(* A status can be relied on: none takes back what an earlier one said, and  *)
(* the packets it announces can be read while its generation lasts.          *)
StatusesHold == []ReadsInRange /\ StatusesAdvance

=============================================================================
