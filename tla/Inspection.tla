------------------------------ MODULE Inspection ------------------------------
(***************************************************************************)
(* Stop-bound references: the handle store (core/handle), the inspection   *)
(* service that mints and resolves them (core/inspection), the actor's     *)
(* inspection and memory commands (core/actor/m2_m3.go, m5.go) and the DAP *)
(* backend's handlers for stackTrace, scopes, variables, evaluate,         *)
(* readMemory and disassemble (daemon/dap_backend.go, dap_backend_m5.go).  *)
(*                                                                         *)
(* A frame, a scope and an expandable value reach the client as a number.  *)
(* The client may send that number back at any later moment: in the same   *)
(* stop, after the target ran, in a later stop, on another connection.     *)
(* Four actors interleave: the handler of the one open DAP request, the    *)
(* actor loop, the executor's worker, which allocates the handles one by   *)
(* one, and the target, whose moves the loop sees as samples.              *)
(*                                                                         *)
(* What a sample may show is taken from SessionCore: a later stop has a    *)
(* larger epoch.  A reference records what it stands for: the core, the    *)
(* stop and the path of the object (a frame's index, the accesses that     *)
(* lead to a value).                                                       *)
(***************************************************************************)
EXTENDS Integers, Sequences, FiniteSets

CONSTANTS
    Cores,          \* the configured cores, one DAP thread each
    FirstCore,      \* the core of frontend.orderedThreads[0]
    DefaultCores,   \* inspection.default_core, when configured: at most one core
    MaxID,          \* maxID of the handle store (2^31 - 1 in the code)
    MaxInt,         \* math.MaxInt
    Word,           \* the size of the address space (2^64 in the code)
    PageArguments,  \* the start and count a client may ask for
    Filters,        \* the variables filters a client may name
    Offsets,        \* the address offsets a client may name
    FrameCounts,    \* how many frames a stack may have (external)
    Snapshots,      \* what one level of variables may hold (external)
    Indexed,        \* the labels reached by index; the others are named
    Addresses,      \* the addresses a program counter may have (external)
    MaxEpoch,       \* bound: the largest stop epoch
    MaxQueue,       \* bound: requests waiting in the actor's queue
    Operations,     \* bound: the operations clients ask for
    Threads,        \* bound: the cores whose threads clients ask stacks of
    Abandoned,      \* bound: the operations whose caller may leave before the reply
    OtherDuring     \* bound: what may be in flight when other work arrives

ASSUME CoresAssumption == Cores \subseteq Nat /\ FirstCore \in Cores /\ DefaultCores \subseteq Cores /\ Threads \subseteq Cores
ASSUME BoundsAssumption == MaxID \in Nat \ {0} /\ MaxInt \in Nat /\ Word \in Nat \ {0} /\ MaxEpoch \in Nat /\ MaxQueue \in Nat
ASSUME InputsAssumption ==
    /\ PageArguments \subseteq [start : Nat, count : Nat]
    /\ Filters \subseteq {"", "named", "indexed"}
    /\ Offsets \subseteq (-Word)..(Word - 1) /\ \A o \in Offsets : -Word <= 2 * o /\ 2 * o < Word
    /\ FrameCounts \subseteq Nat \ {0}
    /\ Snapshots \subseteq Seq([label : Nat, expandable : BOOLEAN])
    /\ Addresses \subseteq 0..(Word - 1)

VARIABLES
    mode,       \* "open", "faulted" (failClosed) or "closed" (closeCommand)
    snap,       \* reducer.Snapshot(): the session's state and stop epoch
    next,       \* Store.next: the next id, 0 once the ids are exhausted
    live,       \* Store.m: the handles
    queue,      \* runtime.pending
    work,       \* runtime.inflight, and what the worker has done of it
    call,       \* the handler of the open DAP request
    given,      \* every reference an answer has carried, with what it stood for
    pointers,   \* every instruction pointer reference an answer has carried
    answer      \* the target data answered by the latest step

actorVars == <<mode, snap, next, live, queue, work>>
clientVars == <<call, given, pointers>>
vars == <<actorVars, clientVars, answer>>

-----------------------------------------------------------------------------
(* The handle store.                                                        *)

(* The kinds of handles, and none for a request without one.                *)
Kinds == {"frame", "scope", "variable", "none"}

Ref(id, kind, core, epoch, path) ==
    [id |-> id, kind |-> kind, core |-> core, epoch |-> epoch, path |-> path]

Reference == [id : Nat, kind : Kinds, core : Nat, epoch : Nat, path : Seq(Nat)]

NoRef == Ref(0, "none", 0, 0, <<>>)

NextID(id) == IF id = MaxID THEN 0 ELSE id + 1

(* Resolve: an id names a live handle of the given stop, or nothing.        *)
Resolve(id, epoch, stopped) == {h \in live : h.id = id /\ stopped /\ h.epoch = epoch}

-----------------------------------------------------------------------------
(* Requests, as the DAP backend passes them to the actor.                   *)

NoPage == [start |-> 0, count |-> 0]

(* dapPage: a count of 0 asks for everything from start on.                 *)
DapPage(arguments) ==
    [arguments EXCEPT !.count = IF arguments.count = 0 THEN MaxInt - arguments.start ELSE @]

DapPageOK(arguments) ==
    arguments.start <= MaxInt /\ arguments.count <= MaxInt - arguments.start

(* An instruction pointer reference names its core and stop; a number does  *)
(* not, and is routed to the only or the configured core.                   *)
Pointer(core, epoch, bound, address) ==
    [core |-> core, epoch |-> epoch, bound |-> bound, address |-> address]

Pointers == [core : Nat, epoch : Nat, bound : BOOLEAN, address : 0..(Word - 1)]

NoPointer == Pointer(0, 0, FALSE, 0)

(* numericInspectionCore: no core, hence a refusal, when it is ambiguous.   *)
NumericCores ==
    IF DefaultCores # {} THEN DefaultCores
    ELSE {c \in Cores : Cores = {c}}

(* checkedAddressOffset in Word-sized unsigned arithmetic; -1 is a refusal. *)
CheckedAddressOffset(address, offset) ==
    IF offset >= 0
    THEN IF offset > Word - 1 - address THEN -1 ELSE address + offset
    ELSE LET magnitude == (-(offset + 1) + 1) % Word
         IN  IF magnitude > address THEN -1 ELSE address - magnitude

Request(op, core, ref, page, filter, pointer, offset) ==
    [op |-> op, core |-> core, ref |-> ref, page |-> page, filter |-> filter,
     pointer |-> pointer, offset |-> offset]

Ops == {"none", "stack", "scopes", "variables", "evaluate", "evaluateTop", "memory"}

Requests ==
    [op : Ops, core : Nat, ref : Reference, page : [start : Nat, count : Nat],
     filter : {"", "named", "indexed"}, pointer : Pointers, offset : Int]

NoRequest == Request("none", 0, NoRef, NoPage, "", NoPointer, 0)

(* The pages a client can ask for.                                          *)
AskedPages == {DapPage(p) : p \in {q \in PageArguments : DapPageOK(q)}}

(* stackTrace of a thread.                                                  *)
StackRequests ==
    [op : {"stack"}, core : Threads, ref : {NoRef}, page : AskedPages, filter : {""},
     pointer : {NoPointer}, offset : {0}]

(* evaluate without a frame asks for the first thread's top frame first.    *)
TopFrameRequest ==
    Request("evaluateTop", FirstCore, NoRef, [start |-> 0, count |-> 1], "", NoPointer, 0)

-----------------------------------------------------------------------------
(* Work in the actor's queue.  epoch and stopped are the stop context the   *)
(* command captured; wanted: the caller still waits for the reply.          *)

Steps == {"idle", "sample", "other", "run", "mint", "failed"}

Work ==
    [step : Steps, req : Requests, epoch : Nat, stopped : BOOLEAN, wanted : BOOLEAN,
     base : Reference, todo : Seq([label : Nat, expandable : BOOLEAN]),
     result : Seq([label : Nat, id : Nat]), pc : 0..(Word - 1), selected : Nat]

Idle ==
    [step |-> "idle", req |-> NoRequest, epoch |-> 0, stopped |-> FALSE, wanted |-> FALSE,
     base |-> NoRef, todo |-> <<>>, result |-> <<>>, pc |-> 0, selected |-> 0]

Sample == [Idle EXCEPT !.step = "sample"]

(* Console, execution or breakpoint work: it mints nothing.                 *)
Other == [Idle EXCEPT !.step = "other"]

WorkOf(req) ==
    [Idle EXCEPT !.step = "run", !.req = req, !.epoch = snap.epoch,
                 !.stopped = (snap.state = "stopped"), !.wanted = TRUE]

IsInspection(w) == w.step \in {"run", "mint", "failed"}

SameStoppedEpoch(epoch) == snap.state = "stopped" /\ snap.epoch = epoch

(* stoppedEpochGuard.                                                       *)
CanStart(w) == IsInspection(w) => SameStoppedEpoch(w.epoch)

(* Mutant: a failed inspection also drops the handles of its own stop.      *)
LiveAfterMutant(w) == IF w.step = "failed" THEN {} ELSE live

(* A completion of an earlier stop drops the handles; a memory read minted  *)
(* none and leaves them.                                                    *)
LiveAfter(w) == IF SameStoppedEpoch(w.epoch) \/ w.req.op = "memory" THEN live ELSE {}

(* Whether the loop has nothing to start: it calls startNext before it      *)
(* receives the next command, completion or tick.                           *)
LoopReady == mode # "open" \/ work # Idle \/ queue = <<>>

-----------------------------------------------------------------------------
(* The handler of a DAP request, and the answer it reads.                   *)

NoCall == [at |-> "none", req |-> NoRequest]

Waiting(req) == [at |-> "waiting", req |-> req]

NoAnswer ==
    [req |-> NoRequest, core |-> 0, epoch |-> 0, session |-> [state |-> "running", epoch |-> 0],
     address |-> 0]

(* A step that answers nothing.                                             *)
Quiet == answer' = NoAnswer

(* filteredVariables and variablePage: the entries of a result that the     *)
(* answer shows.                                                            *)
Matches(label, filter) == filter = "" \/ (filter = "indexed" <=> label \in Indexed)

Shown(req, result) ==
    {i \in DOMAIN result :
        /\ Matches(result[i].label, req.filter)
        /\ req.filter # "" =>
              LET position == Cardinality({j \in 1..(i - 1) : Matches(result[j].label, req.filter)})
              IN  req.page.start <= position /\ position < req.page.start + req.page.count}

LocalsLabel == 0

ExpressionLabel == 0

(* locatorFor: the locals of the top frame are roots, the members of a      *)
(* value extend the access path that leads to it.                           *)
ChildPath(base, label) == IF base.kind = "scope" THEN <<label>> ELSE Append(base.path, label)

(* What the i-th entry of the answer to req stands for, to whoever sent     *)
(* req: a frame by its position on the page it asked for, a scope or value  *)
(* by its name below the reference it sent.                                 *)
Meaning(req, i, entry) ==
    CASE req.op \in {"stack", "evaluateTop"} ->
            Ref(entry.id, "frame", req.core, snap.epoch, <<req.page.start + i - 1>>)
      [] req.op = "scopes" -> Ref(entry.id, "scope", req.ref.core, req.ref.epoch, <<entry.label>>)
      [] req.op = "evaluate" -> Ref(entry.id, "variable", req.ref.core, req.ref.epoch, <<entry.label>>)
      [] OTHER -> Ref(entry.id, "variable", req.ref.core, req.ref.epoch,
                      ChildPath(req.ref, entry.label))

References(req, result) ==
    {Meaning(req, i, result[i]) : i \in {j \in Shown(req, result) : result[j].id # 0}}

(* dapFrames: only the frame MULTI marks as selected carries its address.   *)
FramePointers(w) ==
    {Pointer(w.req.core, w.epoch, TRUE, w.pc) :
        i \in {j \in DOMAIN w.result : w.req.op = "stack" /\ w.result[j].label = w.selected}}

-----------------------------------------------------------------------------
Init ==
    /\ mode = "open"
    /\ snap \in [state : {"stopped", "running"}, epoch : {0}]
    /\ next = 1
    /\ live = {}
    /\ queue = <<>>
    /\ work = Idle
    /\ call = NoCall
    /\ given = {}
    /\ pointers = {}
    /\ answer = NoAnswer

(* Mutant: an instruction pointer reference is good in every stop.          *)
AcceptsMutant(req) ==
    /\ mode = "open"
    /\ req.op = "memory" => snap.state = "stopped" /\ req.pointer.core \in Cores

(* inspectionStop and m5Request: a memory request needs a stopped target,   *)
(* and the very stop its reference names.                                   *)
Accepts(req) ==
    /\ mode = "open"
    /\ req.op = "memory" =>
          /\ snap.state = "stopped"
          /\ req.pointer.bound => req.pointer.epoch = snap.epoch
          /\ req.pointer.core \in Cores

(* A DAP request reaches its command.  A refused one changes nothing.       *)
Ask(req) ==
    /\ call = NoCall
    /\ LoopReady
    /\ req.op \in Operations /\ Accepts(req)
    /\ Cardinality({i \in DOMAIN queue : IsInspection(queue[i])}) < MaxQueue
    /\ queue' = Append(queue, WorkOf(req))
    /\ call' = Waiting(req)
    /\ Quiet
    /\ UNCHANGED <<mode, snap, next, live, work, given, pointers>>

(* The handlers of the DAP backend.  A client names references and          *)
(* instruction pointers it was given, on this connection or an earlier one. *)
AskStack == \E req \in StackRequests : Ask(req)

AskInFrame ==
    \E op \in {"scopes", "evaluate"}, ref \in given :
        Ask(Request(op, 0, ref, NoPage, "", NoPointer, 0))

AskVariables ==
    \E ref \in given, page \in AskedPages, filter \in Filters :
        Ask(Request("variables", 0, ref, page, filter, NoPointer, 0))

AskMemory(pointer) ==
    \E offset \in Offsets :
        /\ CheckedAddressOffset(pointer.address, offset) # -1
        /\ Ask(Request("memory", 0, NoRef, NoPage, "", pointer, offset))

(* A client may also name a number.                                         *)
NumericPointers ==
    [core : NumericCores, epoch : {0}, bound : {FALSE}, address : Addresses]

(* evaluate, after defaultEvaluationFrame.                                  *)
Resume ==
    /\ call.at = "resume"
    /\ LoopReady
    /\ IF Accepts(call.req)
       THEN queue' = Append(queue, WorkOf(call.req)) /\ call' = Waiting(call.req)
       ELSE call' = NoCall /\ UNCHANGED queue
    /\ Quiet
    /\ UNCHANGED <<mode, snap, next, live, work, given, pointers>>

(* await returns with the caller's context: the client is gone.  The work   *)
(* stays in the queue and its reply is never read.                          *)
GiveUp ==
    /\ call # NoCall /\ call.req.op \in Abandoned
    /\ call' = NoCall
    /\ queue' = [i \in DOMAIN queue |-> [queue[i] EXCEPT !.wanted = FALSE]]
    /\ work' = [work EXCEPT !.wanted = FALSE]
    /\ Quiet
    /\ UNCHANGED <<mode, snap, next, live, given, pointers>>

-----------------------------------------------------------------------------
(* Replies.                                                                 *)

ReplyError(w) ==
    /\ call' = IF w.wanted THEN NoCall ELSE call
    /\ Quiet
    /\ UNCHANGED <<given, pointers>>

(* The frame that defaultEvaluationFrame hands on to evaluate.              *)
TopFrame(w) == Meaning(w.req, 1, w.result[1])

(* evaluate goes on with the frame; the other handlers answer the client.   *)
ReplyResult(w) ==
    \/ /\ ~w.wanted
       /\ Quiet
       /\ UNCHANGED clientVars
    \/ /\ w.wanted /\ w.req.op = "evaluateTop" /\ w.result # <<>>
       /\ call' = [at |-> "resume",
                   req |-> Request("evaluate", 0, TopFrame(w), NoPage, "", NoPointer, 0)]
       /\ given' = given \union {TopFrame(w)}
       /\ Quiet
       /\ UNCHANGED pointers
    \/ /\ w.wanted /\ w.req.op # "evaluateTop"
       /\ call' = NoCall
       /\ given' = given \union References(w.req, w.result)
       /\ pointers' = pointers \union FramePointers(w)
       /\ answer' = [req |-> w.req, core |-> w.base.core, epoch |-> w.epoch, session |-> snap,
                     address |-> IF w.req.op = "memory"
                                 THEN CheckedAddressOffset(w.req.pointer.address, w.req.offset)
                                 ELSE 0]

-----------------------------------------------------------------------------
(* The actor loop.                                                          *)

(* Mutant: a work whose stop has passed is dropped without a reply.         *)
StartNextMutant ==
    /\ mode = "open" /\ work = Idle /\ queue # <<>>
    /\ queue' = Tail(queue)
    /\ \/ CanStart(Head(queue)) /\ work' = Head(queue) /\ UNCHANGED live
       \/ ~CanStart(Head(queue)) /\ live' = LiveAfter(Head(queue)) /\ UNCHANGED work
    /\ Quiet
    /\ UNCHANGED <<mode, snap, next, clientVars>>

StartNext ==
    /\ mode = "open" /\ work = Idle /\ queue # <<>>
    /\ queue' = Tail(queue)
    /\ \/ /\ CanStart(Head(queue))
          /\ work' = Head(queue)
          /\ Quiet
          /\ UNCHANGED <<live, clientVars>>
       \/ /\ ~CanStart(Head(queue))
          /\ live' = LiveAfter(Head(queue))
          /\ ReplyError(Head(queue))
          /\ UNCHANGED work
    /\ UNCHANGED <<mode, snap, next>>

Has(w) == work = w \/ \E i \in DOMAIN queue : queue[i] = w

(* The tickers: a sample, or other work, unless one is there already.       *)
Tick(w) ==
    /\ mode = "open" /\ LoopReady /\ ~Has(w)
    /\ w = Other => work.step \in OtherDuring
    /\ queue' = Append(queue, w)
    /\ Quiet
    /\ UNCHANGED <<mode, snap, next, live, work, clientVars>>

(* What the next accepted sample may show: nothing new, execution, or a     *)
(* later stop, in between or not.                                           *)
Observations ==
    {snap, [snap EXCEPT !.state = "running"]}
        \union [state : {"stopped"}, epoch : (snap.epoch + 1)..MaxEpoch]

(* A sample that ends the stop drops every handle.                          *)
Observe ==
    /\ mode = "open" /\ work.step = "sample"
    /\ snap' \in Observations
    /\ live' = IF snap' = snap THEN live ELSE {}
    /\ work' = Idle
    /\ Quiet
    /\ UNCHANGED <<mode, next, queue, clientVars>>

CompleteOther ==
    /\ mode = "open" /\ work.step = "other"
    /\ work' = Idle
    /\ Quiet
    /\ UNCHANGED <<mode, snap, next, live, queue, clientVars>>

(* completeWork for an inspection.  The reply of a work that has failed, or *)
(* whose stop has passed, is an error.  A handler may also be unable to     *)
(* present the result: an unmappable source, a short read.                  *)
Complete ==
    /\ mode = "open"
    /\ work.step = "failed" \/ (work.step = "mint" /\ work.todo = <<>>)
    /\ work' = Idle
    /\ live' = LiveAfter(work)
    /\ \/ ReplyError(work)
       \/ /\ work.step = "mint" /\ SameStoppedEpoch(work.epoch)
          /\ ReplyResult(work)
    /\ UNCHANGED <<mode, snap, next, queue>>

ReleaseCaller == call' = IF call.at = "waiting" THEN NoCall ELSE call

(* failClosed: a sample the reductions reject, a missed deadline, a         *)
(* poisoned bridge.  Every queued caller gets an error.  The worker may     *)
(* still be at it.                                                          *)
FailClosed ==
    /\ mode = "open" /\ work # Idle
    /\ mode' = "faulted"
    /\ live' = {}
    /\ queue' = <<>>
    /\ ReleaseCaller
    /\ Quiet
    /\ UNCHANGED <<snap, next, work, given, pointers>>

(* closeCommand: the loop ends, which releases every caller and leaves the  *)
(* queue to nobody.  The session's references end with it.                  *)
Close ==
    /\ mode # "closed" /\ LoopReady
    /\ mode' = "closed"
    /\ live' = {}
    /\ ReleaseCaller
    /\ queue' = <<>>
    /\ given' = {} /\ pointers' = {}
    /\ Quiet
    /\ UNCHANGED <<snap, next, work>>

-----------------------------------------------------------------------------
(* The executor's worker: the inspection service and the runners.           *)

Fails ==
    /\ work' = [work EXCEPT !.step = "failed"]
    /\ Quiet
    /\ UNCHANGED <<mode, snap, next, live, queue, clientVars>>

Mints(base, values, selected, pc) ==
    /\ work' = [work EXCEPT !.step = "mint", !.base = base, !.todo = values,
                            !.selected = selected, !.pc = pc]
    /\ Quiet
    /\ UNCHANGED <<mode, snap, next, live, queue, clientVars>>

(* pageBounds.                                                              *)
PageOf(values, page) ==
    IF page.start >= Len(values) THEN <<>>
    ELSE SubSeq(values, page.start + 1,
                IF page.start + page.count > Len(values) THEN Len(values)
                ELSE page.start + page.count)

FrameList(n) == [i \in 1..n |-> [label |-> i - 1, expandable |-> TRUE]]

(* Service.Stack over InspectionRunner.Stack: frames and, for the selected  *)
(* one, the program counter.                                                *)
RunStack ==
    /\ work.req.op \in {"stack", "evaluateTop"}
    /\ \E n \in FrameCounts, pc \in Addresses :
          \E selected \in 0..(n - 1) :
             Mints(Ref(0, "none", work.req.core, work.epoch, <<>>),
                   PageOf(FrameList(n), work.req.page), selected, pc)

TheHandle == Resolve(work.req.ref.id, work.epoch, work.stopped)

(* Service.Scopes: the runner exposes the locals of the top frame only.     *)
RunScopes ==
    /\ work.req.op = "scopes"
    /\ \E h \in TheHandle :
          /\ h.kind = "frame" /\ h.path = <<0>>
          /\ Mints(h, <<[label |-> LocalsLabel, expandable |-> TRUE]>>, 0, 0)

(* Service.Variables.  A filter asks for the whole level, and is applied by *)
(* the backend's handler; an empty page does not ask the runner at all.     *)
RunVariables ==
    /\ work.req.op = "variables"
    /\ \E h \in TheHandle :
          /\ h.kind \in {"scope", "variable"}
          /\ \E values \in Snapshots :
                Mints(h, IF work.req.filter # "" THEN values ELSE PageOf(values, work.req.page), 0, 0)

(* Service.Evaluate: a scalar has no reference.                             *)
RunEvaluate ==
    /\ work.req.op = "evaluate"
    /\ \E h \in TheHandle :
          /\ h.kind = "frame" /\ h.path = <<0>>
          /\ \E expandable \in BOOLEAN :
                Mints(h, <<[label |-> ExpressionLabel, expandable |-> expandable]>>, 0, 0)

(* M5Runner: the read is routed to the core the work names.                 *)
RunMemory ==
    /\ work.req.op = "memory"
    /\ Mints(Ref(0, "none", work.req.pointer.core, work.epoch, <<>>), <<>>, 0, 0)

(* A stale or unfit reference, an unsupported request, a refusal of MULTI,  *)
(* a malformed text: nothing has been allocated.                            *)
RunRefused == Fails

Run ==
    /\ work.step = "run"
    /\ RunStack \/ RunScopes \/ RunVariables \/ RunEvaluate \/ RunMemory \/ RunRefused

MintedKind(req) ==
    CASE req.op \in {"stack", "evaluateTop"} -> "frame"
      [] req.op = "scopes" -> "scope"
      [] OTHER -> "variable"

(* Mutant: a member of a value is minted as if it were a root.              *)
MintedPathMutant(w, label) == <<label>>

MintedPath(w, label) ==
    IF w.req.op = "variables" THEN ChildPath(w.base, label) ELSE <<label>>

(* makeFrame, makeVariable and the scope loop: one entry of the result, and *)
(* Alloc for one that needs a handle.                                       *)
Mint ==
    LET entry == Head(work.todo)
        id == IF entry.expandable THEN next ELSE 0
    IN  /\ work.step = "mint" /\ work.todo # <<>>
        /\ entry.expandable => next # 0
        /\ next' = IF entry.expandable THEN NextID(next) ELSE next
        /\ live' = IF entry.expandable
                   THEN live \union {Ref(id, MintedKind(work.req), work.base.core, work.epoch,
                                         MintedPath(work, entry.label))}
                   ELSE live
        /\ work' = [work EXCEPT !.todo = Tail(@),
                                !.result = Append(@, [label |-> entry.label, id |-> id])]
        /\ Quiet
        /\ UNCHANGED <<mode, snap, queue, clientVars>>

(* The ids are exhausted, or the source path of a frame cannot be mapped:   *)
(* the entries already minted stay in the store.                            *)
MintFails ==
    /\ work.step = "mint" /\ work.todo # <<>>
    /\ next = 0 \/ work.req.op \in {"stack", "evaluateTop"}
    /\ Fails

-----------------------------------------------------------------------------
Worker == Run \/ Mint \/ MintFails

Loop == StartNext \/ Observe \/ CompleteOther \/ Complete

Next ==
    \/ AskStack \/ AskInFrame \/ AskVariables \/ Ask(TopFrameRequest)
    \/ \E pointer \in pointers \union NumericPointers : AskMemory(pointer)
    \/ Resume \/ GiveUp
    \/ Tick(Sample) \/ Tick(Other)
    \/ Loop \/ Worker
    \/ FailClosed \/ Close

Spec == Init /\ [][Next]_vars

(* The loop and the executor's worker keep taking the steps that stay       *)
(* possible.  The loop's select picks among ready channels at random, so a  *)
(* handler's command is received however busy the tickers are.              *)
FairSpec ==
    /\ Spec
    /\ WF_vars(Loop) /\ WF_vars(Worker) /\ SF_vars(Resume)

-----------------------------------------------------------------------------
(* Properties.                                                              *)

TypeOK ==
    /\ mode \in {"open", "faulted", "closed"}
    /\ snap \in [state : {"stopped", "running"}, epoch : Nat]
    /\ next \in 0..MaxID
    /\ live \subseteq Reference
    /\ queue \in Seq(Work)
    /\ work \in Work
    /\ call \in [at : {"none", "waiting", "resume"}, req : Requests]
    /\ given \subseteq Reference
    /\ pointers \subseteq Pointers
    /\ answer \in [req : Requests, core : Nat, epoch : Nat,
                   session : [state : {"stopped", "running"}, epoch : Nat], address : Int]

(* core/handle/handle.go: a stale reference must never "resolve to a        *)
(* different, live object at the next stop and return plausible-looking     *)
(* wrong data".  A reference that was ever given out names, if it names     *)
(* anything, exactly the object it was given out for.                       *)
ReferencesKeepMeaning == \A g \in given, h \in live : g.id = h.id => g = h

(* A reference lasts exactly as long as its stop: while the session is open *)
(* it resolves if and only if the session still is in the stop it was given *)
(* out in.  No late completion of an earlier stop takes it away.            *)
ReferencesLastTheirStop ==
    mode = "open" =>
        \A g \in given : SameStoppedEpoch(g.epoch) <=> Resolve(g.id, snap.epoch, snap.state = "stopped") # {}

(* What the answer is about, according to the request.                      *)
AskedCore(req) ==
    CASE req.op \in {"stack", "evaluateTop"} -> req.core
      [] req.op = "memory" -> req.pointer.core
      [] OTHER -> req.ref.core

AskedEpochs(req) ==
    CASE req.op = "stack" -> Nat
      [] req.op = "memory" -> IF req.pointer.bound THEN {req.pointer.epoch} ELSE Nat
      [] OTHER -> {req.ref.epoch}

(* Cores do not share an address space and stops do not share objects: data *)
(* answered to a request was read from the core and in the stop that the    *)
(* reference in the request was given out for, and the session was still in *)
(* that stop when the answer was sent.                                      *)
AnswersFitRequests ==
    answer # NoAnswer =>
        /\ answer.core = AskedCore(answer.req)
        /\ answer.epoch \in AskedEpochs(answer.req)
        /\ answer.session = [state |-> "stopped", epoch |-> answer.epoch]
        /\ answer.req.op = "memory" => answer.address = answer.req.pointer.address + answer.req.offset

(* What makes these inductive.  Ids are handed out once: every reference    *)
(* known to anybody lies below the next id.                                 *)
IdsGrow ==
    /\ \A h \in live \union given : h.id # 0 /\ (next # 0 => h.id < next)
    /\ \A g, h \in live : g.id = h.id => g = h

(* No reference is ahead of the session, and a reference of the current     *)
(* stop is in the store.                                                    *)
StopsBound ==
    /\ \A g \in given : g.epoch <= snap.epoch
    /\ mode = "open" => /\ \A h \in live : SameStoppedEpoch(h.epoch)
                        /\ \A g \in given : SameStoppedEpoch(g.epoch) => g \in live

(* A request still means what it meant when it was asked.                   *)
RequestFits(w) ==
    /\ w.req.op # "none" /\ w.epoch <= snap.epoch
    /\ w.req.op \in {"scopes", "variables", "evaluate"} => w.req.ref \in given
    /\ w.req.op = "memory" =>
          /\ w.req.pointer.bound => w.req.pointer.epoch = w.epoch
          /\ w.req.offset \in Offsets
          /\ CheckedAddressOffset(w.req.pointer.address, w.req.offset) # -1

Current(w) == IsInspection(w) /\ SameStoppedEpoch(w.epoch)

Stale(w) == IsInspection(w) /\ ~SameStoppedEpoch(w.epoch)

(* A queued inspection has not begun, its caller waits for it alone, and    *)
(* once its stop has passed no handle is left for its completion to drop.   *)
Queued(w) ==
    /\ w.step \in {"run", "sample", "other"}
    /\ w.step = "run" => w.result = <<>> /\ RequestFits(w)
    /\ w.wanted => call = Waiting(w.req) /\ ~work.wanted
    /\ Stale(w) => live = {} /\ ~IsInspection(work)

(* The queue is first in, first out: no inspection of the current stop is   *)
(* ahead of one of an earlier stop, so the handles of the current stop are  *)
(* minted only after the last of those has gone.                            *)
QueueInOrder ==
    mode = "open" =>
        /\ \A i \in DOMAIN queue : Queued(queue[i])
        /\ \A i, j \in DOMAIN queue :
              /\ i < j /\ Current(queue[i]) => ~Stale(queue[j])
              /\ i # j => ~(queue[i].wanted /\ queue[j].wanted)

(* The handle the worker minted for the i-th entry of its result.           *)
MintedRef(w, i) ==
    Ref(w.result[i].id, MintedKind(w.req), w.base.core, w.epoch, MintedPath(w, w.result[i].label))

(* A stack's frames are numbered on from the first the page asks for.       *)
FramesInOrder(w) ==
    /\ \A i \in DOMAIN w.result :
          w.result[i].label = w.req.page.start + i - 1 /\ w.result[i].id # 0
    /\ \A i \in DOMAIN w.todo :
          w.todo[i].label = w.req.page.start + Len(w.result) + i - 1 /\ w.todo[i].expandable

(* What is being read is the object the request names, and every handle     *)
(* minted so far is in the store.                                           *)
MintFits(w) ==
    /\ w.base.core = AskedCore(w.req)
    /\ w.req.op \in {"scopes", "variables", "evaluate"} =>
          w.base = w.req.ref /\ w.base.epoch = w.epoch
    /\ w.req.op = "memory" => w.todo = <<>> /\ w.result = <<>>
    /\ w.req.op \in {"stack", "evaluateTop"} => FramesInOrder(w)
    /\ \A i \in DOMAIN w.result : w.result[i].id # 0 => MintedRef(w, i) \in live

(* The work in flight belongs to the current stop and to its caller.        *)
WorkFits ==
    mode = "open" =>
        /\ work.step = "idle" => work = Idle
        /\ work.wanted => call = Waiting(work.req)
        /\ IsInspection(work) => SameStoppedEpoch(work.epoch) /\ RequestFits(work)
        /\ work.step = "run" => work.result = <<>>
        /\ work.step = "mint" => MintFits(work)

(* The handler between the two calls of an evaluate without a frame.        *)
CallFits ==
    /\ call.at = "none" => call = NoCall
    /\ call.at = "resume" /\ mode = "open" =>
          call.req.op = "evaluate" /\ call.req.ref \in given

(* The inductive invariant of stop-bound references.                        *)
InspectionInv ==
    /\ TypeOK /\ IdsGrow /\ ReferencesKeepMeaning /\ StopsBound
    /\ QueueInOrder /\ WorkFits /\ CallFits /\ AnswersFitRequests

(* Every DAP inspection request is answered, whatever the target does.      *)
RequestsAnswered == call # NoCall ~> call = NoCall
===============================================================================
