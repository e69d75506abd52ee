--------------------------- MODULE BreakpointStore ---------------------------
(***************************************************************************)
(* breakpoint.Store with the work that drives it.                          *)
(*                                                                         *)
(* A frontend replaces the breakpoints of a source file.  The transaction   *)
(* runs on the executor's worker: it plans under the store's lock, then     *)
(* sets every new line on every core, clears the old lines, and commits     *)
(* under the lock again.  Meanwhile the actor goroutine may detach the      *)
(* frontend, or give up on the transaction at its deadline.  What a         *)
(* detached frontend leaves on the target is pending; what a failed clear   *)
(* leaves is orphaned; both are cleared at a stop.                          *)
(*                                                                         *)
(* One source file.  A physical breakpoint is known by its hint token.      *)
(***************************************************************************)
EXTENDS Integers, Sequences, FiniteSetsExt

CONSTANTS
    Lines,          \* source lines a client may ask for
    Instances,      \* what a behaviour is about, see IsInstance
    MaxRequests,    \* bound: setBreakpoints requests
    MaxQueue,       \* bound: client commands wait only in a queue shorter than this
    ClearFailures   \* how Clear may fail: a subset of ClearFailureNames

(* "moved": the core resolves the line to another one; "refused": MULTI did *)
(* not accept b; "uncertain": it did, but the listing that should show it   *)
(* failed; "lost": it did, but the answer to b itself was an error.         *)
SetFailureNames == {"moved", "refused", "uncertain", "lost"}

(* "kept": nothing was deleted; "unconfirmed": it was deleted, but the      *)
(* listing that should show it failed.                                      *)
ClearFailureNames == {"kept", "unconfirmed"}

(* Fixed for a behaviour: the sets of lines a request may name, the cores   *)
(* that contain the source, the frontend generations (each attached at most *)
(* once), the last stamp of the target, and how Set may fail.               *)
IsInstance(i) ==
    /\ DOMAIN i = {"requested", "cores", "owners", "maxStamp", "setFailures"}
    /\ i.requested \subseteq SUBSET Lines
    /\ i.cores \subseteq Nat /\ IsFiniteSet(i.cores) /\ i.cores # {}
    /\ "" \notin i.owners
    /\ i.maxStamp \in Nat
    /\ i.setFailures \subseteq SetFailureNames

ASSUME LinesAssumption == Lines \subseteq Nat \ {0} /\ IsFiniteSet(Lines)
ASSUME InstancesAssumption == \A i \in Instances : IsInstance(i)
ASSUME BreakpointBounds == MaxRequests \in Nat /\ MaxQueue \in Nat
ASSUME FailureAssumption == ClearFailures \subseteq ClearFailureNames

VARIABLES
    instance,       \* one of Instances
    target,         \* the real target: [running, stamp]
    table,          \* tokens of the breakpoints that stand on the target
    view,           \* the reducer's snapshot: [stopped, epoch]
    lease,          \* the reducer's lease owner
    faulted,        \* runtime.faulted
    queue,          \* runtime.pending: work waiting, in order
    inflight,       \* runtime.inflight: the work in progress
    natural,        \* runtime.cleanupNaturalEpoch
    immediate,      \* runtime.cleanupImmediateEpoch
    bySource,       \* Store.bySource of the file: the live logical breakpoint of a line
    pending,        \* Store.pending
    orphaned,       \* Store.orphaned
    fenced,         \* Store.cleanupOwners
    hints,          \* Store.liveHints: token to DAP id, 0 for a mere wake-up
    lastID,         \* Store.nextDAPID
    tokens,         \* Store.hintTokens: how many were issued
    txn,            \* the transaction on the worker
    requests,       \* setBreakpoints requests so far
    resumed         \* history: the daemon resumed the target after its latest sample

targetVars == <<target, table>>
actorVars == <<view, lease, faulted, queue, inflight, natural, immediate, requests, resumed>>
storeVars == <<bySource, pending, orphaned, fenced, hints, lastID>>
vars == <<instance, targetVars, actorVars, storeVars, tokens, txn>>

NoOwner == ""

Cores == instance.cores
Owners == instance.owners
SetFailures == instance.setFailures

-----------------------------------------------------------------------------
(* Data.                                                                    *)

(* breakpoint.Physical; the actual line tells whether the cores agree.      *)
Physical == [token : Nat, owner : Owners, core : Cores, line : Lines, actual : Nat]

(* A line without a live logical breakpoint has owner NoOwner.              *)
Logical == [owner : Owners \union {NoOwner}, id : Nat, physical : SUBSET Physical]

NoLogical == [owner |-> NoOwner, id |-> 0, physical |-> {}]

Tokens(physicals) == {p.token : p \in physicals}

Live == UNION {bySource[l].physical : l \in Lines}

SetWork(owner, lines) == [kind |-> "set", owner |-> owner, lines |-> lines]
CleanupWork == [kind |-> "cleanup", owner |-> NoOwner, lines |-> {}]
StateWork == [kind |-> "state", owner |-> NoOwner, lines |-> {}]
ResumeWork == [kind |-> "resume", owner |-> NoOwner, lines |-> {}]
Idle == [kind |-> "idle", owner |-> NoOwner, lines |-> {}]

Work ==
    [kind : {"idle", "set", "cleanup", "state", "resume"}, owner : Owners \union {NoOwner},
     lines : SUBSET Lines]

(* A transaction: the lines and cores still to place, what was created for  *)
(* the current line, the outcomes so far, and what is still to clear.       *)
Transactions ==
    [phase : {"none", "place", "rollback", "check", "clear", "cleanup"},
     owner : Owners \union {NoOwner}, expired : BOOLEAN,
     add : SUBSET Lines, cores : SUBSET Cores, created : SUBSET Physical,
     good : SUBSET Physical, failed : SUBSET Physical, placed : SUBSET Lines,
     dropped : SUBSET Lines, todo : SUBSET Physical,
     cleared : SUBSET Physical, stuck : SUBSET Physical]

NoTxn ==
    [phase |-> "none", owner |-> NoOwner, expired |-> FALSE, add |-> {}, cores |-> Cores,
     created |-> {}, good |-> {}, failed |-> {}, placed |-> {}, dropped |-> {}, todo |-> {},
     cleared |-> {}, stuck |-> {}]

-----------------------------------------------------------------------------
(* The target, external.                                                    *)

TargetRuns ==
    /\ ~target.running
    /\ target' = [target EXCEPT !.running = TRUE]
    /\ UNCHANGED <<table, actorVars, storeVars, tokens, txn>>

TargetStops ==
    /\ target.running
    /\ target.stamp < instance.maxStamp
    /\ target' = [running |-> FALSE, stamp |-> target.stamp + 1]
    /\ UNCHANGED <<table, actorVars, storeVars, tokens, txn>>

-----------------------------------------------------------------------------
(* The actor's queue.  startNext runs after every command and completion.   *)

Start(q, free, dead) ==
    IF free /\ ~dead /\ q # <<>>
    THEN inflight' = Head(q) /\ queue' = Tail(q)
    ELSE inflight' = (IF free THEN Idle ELSE inflight) /\ queue' = q

Free == inflight = Idle

(* A command adds work and leaves the rest of the actor alone.              *)
Enqueue(work) == Start(Append(queue, work), Free, faulted)

(* The work in flight is done.                                              *)
Complete == Start(queue, TRUE, faulted)

HasStateWork ==
    inflight.kind = "state" \/ \E i \in DOMAIN queue : queue[i].kind = "state"

(* failClosed: the waiting work is answered with an error and dropped.      *)
FailClosed ==
    /\ faulted' = TRUE
    /\ queue' = <<>>
    /\ inflight' = Idle

AcquireControl(owner) ==
    /\ ~faulted
    /\ lease = NoOwner
    /\ owner \notin fenced
    /\ lease' = owner
    /\ UNCHANGED <<targetVars, view, faulted, queue, inflight, natural, immediate, requests,
                   resumed, storeVars, tokens, txn>>

(* Exported by the actor; the daemon's frontends only ever detach.          *)
ReleaseControl ==
    /\ lease # NoOwner
    /\ lease' = NoOwner
    /\ UNCHANGED <<targetVars, view, faulted, queue, inflight, natural, immediate, requests,
                   resumed, storeVars, tokens, txn>>

SetBreakpoints(owner, lines) ==
    /\ ~faulted
    /\ lease = owner
    /\ requests < MaxRequests
    /\ Len(queue) < MaxQueue
    /\ requests' = requests + 1
    /\ Enqueue(SetWork(owner, lines))
    /\ UNCHANGED <<targetVars, view, lease, faulted, natural, immediate, resumed, storeVars,
                   tokens, txn>>

(* RequireResume asks for the lease only: whether the target is stopped is  *)
(* for MULTI to say.                                                        *)
Resume ==
    /\ ~faulted
    /\ lease # NoOwner
    /\ Len(queue) < MaxQueue
    /\ Enqueue(ResumeWork)
    /\ UNCHANGED <<targetVars, view, lease, faulted, natural, immediate, requests, resumed,
                   storeVars, tokens, txn>>

(* MULTI refuses to resume a target that runs.                              *)
RunResume ==
    /\ inflight.kind = "resume"
    /\ target' = [target EXCEPT !.running = TRUE]
    /\ resumed' = (resumed \/ ~target.running)
    /\ Complete
    /\ UNCHANGED <<table, view, lease, faulted, natural, immediate, requests, storeVars, tokens,
                   txn>>

PollTick ==
    /\ ~faulted
    /\ ~HasStateWork
    /\ Enqueue(StateWork)
    /\ UNCHANGED <<targetVars, view, lease, faulted, natural, immediate, requests, resumed,
                   storeVars, tokens, txn>>

NaturalCleanupForOrphans(v) == v.stopped /\ natural # v.epoch /\ orphaned # {}

(* maybeScheduleBreakpointCleanup after a sample: once per stop epoch.      *)
NaturalCleanupDue(v) ==
    v.stopped /\ natural # v.epoch /\ pending \union orphaned # {}

(* A sample, read and observed in one step: what may happen in between, and *)
(* which samples are accepted, is the subject of SessionCore.               *)
Observe ==
    /\ inflight.kind = "state"
    /\ LET v == [stopped |-> ~target.running, epoch |-> target.stamp]
           due == NaturalCleanupDue(v)
       IN  /\ view' = v
           /\ resumed' = FALSE
           /\ natural' = IF due THEN v.epoch ELSE natural
           /\ Start(IF due THEN Append(queue, CleanupWork) ELSE queue, TRUE, faulted)
    /\ UNCHANGED <<targetVars, lease, faulted, immediate, requests, storeVars, tokens, txn>>

(* A command fails in a way that is terminal, or its deadline passes.       *)
WorkFails ==
    /\ inflight.kind \in {"state", "resume", "set"}
    /\ txn.phase = "none"
    /\ FailClosed
    /\ UNCHANGED <<targetVars, view, lease, natural, immediate, requests, resumed, storeVars,
                   tokens, txn>>

-----------------------------------------------------------------------------
(* The store's bookkeeping.  Each operator is applied under the store lock. *)

(* Tokens that become, or stay, wake-up hints without a breakpoint id.      *)
WakeUps(h, physicals) ==
    [t \in DOMAIN h \union Tokens(physicals) |-> IF t \in Tokens(physicals) THEN 0 ELSE h[t]]

Retire(h, physicals) == [t \in DOMAIN h \ Tokens(physicals) |-> h[t]]

(* appendPendingLocked: samePhysical compares tokens.                       *)
NewlyPending(physicals) ==
    {p \in physicals : p.token \notin Tokens(pending \union orphaned)}

(* detachOwner: RequestCleanupSignal, then the lease, then one immediate    *)
(* cleanup if the session is at a stop that has not had one.                *)
Detach(owner) ==
    /\ owner \notin fenced
    /\ LET lines == {l \in Lines : bySource[l].owner = owner}
           moved == UNION {bySource[l].physical : l \in lines}
           now == view.stopped /\ immediate # view.epoch
       IN  /\ fenced' = fenced \union {owner}
           /\ bySource' = [l \in Lines |-> IF l \in lines THEN NoLogical ELSE bySource[l]]
           /\ pending' = pending \union NewlyPending(moved)
           /\ hints' = WakeUps(hints, moved)
           /\ immediate' = IF now THEN view.epoch ELSE immediate
           /\ Start(IF now THEN Append(queue, CleanupWork) ELSE queue, Free, faulted)
    /\ lease' = IF lease = owner THEN NoOwner ELSE lease
    /\ UNCHANGED <<targetVars, view, faulted, natural, requests, resumed, orphaned, lastID, tokens,
                   txn>>

-----------------------------------------------------------------------------
(* The transaction.                                                         *)

(* What Clear may do to the target, and whether it reports success.  Once   *)
(* the deadline has passed no command succeeds, but the one it interrupted  *)
(* may have reached MULTI.                                                  *)
Clears(p, ok) ==
    \/ ok /\ ~txn.expired /\ table' = table \ {p.token}
    \/ ~ok /\ (txn.expired \/ "kept" \in ClearFailures) /\ UNCHANGED table
    \/ ~ok /\ "unconfirmed" \in ClearFailures /\ table' = table \ {p.token}

PhaseAfter(add) == IF add = {} THEN "check" ELSE "place"

(* The first lock of ReplaceForOwner: refuse, or plan.                      *)
BeginReplace ==
    LET owner == inflight.owner
        wanted == inflight.lines
        add == {l \in wanted : bySource[l].owner = NoOwner}
        dropped == {l \in Lines \ wanted : bySource[l].owner = owner}
    IN  /\ inflight.kind = "set"
        /\ txn.phase = "none"
        /\ owner \notin fenced
        /\ \A l \in wanted : bySource[l].owner \in {owner, NoOwner}
        /\ txn' = [NoTxn EXCEPT !.phase = PhaseAfter(add), !.owner = owner, !.add = add,
                      !.placed = add, !.dropped = dropped,
                      !.todo = UNION {bySource[l].physical : l \in dropped}]
        /\ UNCHANGED <<targetVars, actorVars, storeVars, tokens>>

(* Refused: the frontend has detached, a line belongs to another one, or    *)
(* the resolver cannot tell which cores have the source, which an empty     *)
(* request does not ask.                                                    *)
RefuseReplace ==
    /\ inflight.kind = "set"
    /\ txn.phase = "none"
    /\ \/ inflight.owner \in fenced
       \/ inflight.lines # {}
    /\ Complete
    /\ UNCHANGED <<targetVars, view, lease, faulted, natural, immediate, requests, resumed,
                   storeVars, tokens, txn>>

(* placeLogical: Set on the next core of the smallest line still to add.    *)
Line == Min(txn.add)
Core == Min(txn.cores)

Fresh(outcome) ==
    [token |-> tokens + 1, owner |-> txn.owner, core |-> Core, line |-> Line,
     actual |-> IF outcome = "moved" THEN Line + 1 ELSE Line]

Sets(outcome) ==
    /\ txn.phase = "place"
    /\ IF txn.expired THEN outcome \in (SetFailures \ {"moved"}) \union {"refused"}
       ELSE outcome \in SetFailures \union {"ok"}
    /\ tokens' = tokens + 1
    /\ \/ outcome # "refused" /\ table' = table \union {tokens + 1}
       \/ outcome \in {"refused", "uncertain"} /\ UNCHANGED table
    /\ UNCHANGED <<target, actorVars, storeVars>>

Agree(physicals) == \A p, q \in physicals : p.actual = q.actual

(* The current line is settled; go on with the next one.                    *)
NextLine(t) ==
    [t EXCEPT !.add = t.add \ {Line}, !.cores = Cores, !.created = {},
              !.phase = PhaseAfter(t.add \ {Line})]

PlaceCoreUnchecked(outcome) ==
    LET created == txn.created \union {Fresh(outcome)}
        rest == txn.cores \ {Core}
    IN  /\ Sets(outcome)
        /\ outcome \in {"ok", "moved"}
        /\ txn' = IF rest # {} THEN [txn EXCEPT !.cores = rest, !.created = created]
                  ELSE NextLine([txn EXCEPT !.good = txn.good \union created])

PlaceCore(outcome) ==
    LET created == txn.created \union {Fresh(outcome)}
        rest == txn.cores \ {Core}
    IN  /\ Sets(outcome)
        /\ outcome \in {"ok", "moved"}
        /\ txn' = IF rest # {}
                  THEN [txn EXCEPT !.cores = rest, !.created = created]
                  ELSE IF Agree(created)
                       THEN NextLine([txn EXCEPT !.good = txn.good \union created])
                       ELSE [txn EXCEPT !.phase = "rollback", !.created = created]

(* Only an uncertain failure leaves a record to roll back.                  *)
PlaceFails(outcome) ==
    LET created == IF outcome = "uncertain" THEN txn.created \union {Fresh(outcome)} ELSE txn.created
    IN  /\ Sets(outcome)
        /\ outcome \in {"refused", "uncertain", "lost"}
        /\ txn' = IF created = {} THEN NextLine(txn)
                  ELSE [txn EXCEPT !.phase = "rollback", !.created = created]

RollbackForgets(p, ok) ==
    LET rest == txn.created \ {p}
    IN  /\ txn.phase = "rollback"
        /\ \A q \in txn.created : p.token <= q.token
        /\ Clears(p, ok)
        /\ txn' = IF rest = {} THEN NextLine(txn) ELSE [txn EXCEPT !.created = rest]
        /\ UNCHANGED <<target, actorVars, storeVars, tokens>>

(* rollbackPlacement: every record is cleared, whatever happened to the     *)
(* others.                                                                  *)
RollbackNext(p, ok) ==
    LET rest == txn.created \ {p}
        failed == IF ok THEN txn.failed ELSE txn.failed \union {p}
    IN  /\ txn.phase = "rollback"
        /\ \A q \in txn.created : p.token <= q.token
        /\ Clears(p, ok)
        /\ txn' = IF rest = {} THEN NextLine([txn EXCEPT !.failed = failed])
                  ELSE [txn EXCEPT !.created = rest, !.failed = failed]
        /\ UNCHANGED <<target, actorVars, storeVars, tokens>>

(* Clearing the old lines: the fence is read before each Clear, and the     *)
(* frontend may detach between the two.                                     *)
CheckFence(p) ==
    /\ txn.phase = "check"
    /\ \A q \in txn.todo : p.token <= q.token
    /\ txn' = IF txn.owner \in fenced THEN [txn EXCEPT !.todo = txn.todo \ {p}]
              ELSE [txn EXCEPT !.phase = "clear"]
    /\ UNCHANGED <<targetVars, actorVars, storeVars, tokens>>

Cleared(p, ok, phase) ==
    /\ \A q \in txn.todo : p.token <= q.token
    /\ Clears(p, ok)
    /\ txn' = [txn EXCEPT !.phase = phase, !.todo = txn.todo \ {p},
                  !.cleared = IF ok THEN txn.cleared \union {p} ELSE txn.cleared,
                  !.stuck = IF ok THEN txn.stuck ELSE txn.stuck \union {p}]
    /\ UNCHANGED <<target, actorVars, storeVars, tokens>>

ClearOld(p, ok) == txn.phase = "clear" /\ Cleared(p, ok, "check")

(* The actor learns of the end of a transaction unless it gave up on it.    *)
Finish ==
    IF txn.expired THEN UNCHANGED <<queue, inflight>> ELSE Complete

Without(physicals, cleared) == {p \in physicals : p.token \notin Tokens(cleared)}

NewID(line) == lastID + Cardinality({l \in txn.placed : l <= line})

(* What was placed becomes live, what could not be cleared is orphaned.     *)
Settle ==
    LET good(l) == {p \in txn.good : p.line = l}
        unclear == txn.failed \union txn.stuck
        kept == Retire(hints, txn.cleared)
    IN  /\ bySource' = [l \in Lines |->
               IF good(l) # {} THEN [owner |-> txn.owner, id |-> NewID(l), physical |-> good(l)]
               ELSE IF l \in txn.dropped THEN NoLogical ELSE bySource[l]]
        /\ orphaned' = Without(orphaned, txn.cleared) \union unclear
        /\ pending' = Without(pending, txn.cleared \union unclear)
        /\ hints' = [t \in DOMAIN kept \union Tokens(txn.good \union unclear) |->
               IF t \in Tokens(unclear) THEN 0
               ELSE IF t \in Tokens(txn.good)
                    THEN NewID((CHOOSE p \in txn.good : p.token = t).line)
                    ELSE kept[t]]

CommitUnfenced == Settle

(* The second lock of ReplaceForOwner, for a frontend still attached.       *)
CommitLive == txn.owner \notin fenced /\ Settle

(* The same for a frontend that detached meanwhile: nothing becomes live.   *)
CommitFenced ==
    LET left == NewlyPending(txn.good \union txn.failed)
    IN  /\ txn.owner \in fenced
        /\ pending' = Without(pending, txn.cleared) \union left
        /\ orphaned' = Without(orphaned, txn.cleared)
        /\ hints' = WakeUps(Retire(hints, txn.cleared), left)
        /\ UNCHANGED bySource

CommitReplace ==
    /\ txn.phase = "check"
    /\ txn.todo = {}
    /\ CommitLive \/ CommitFenced
    /\ lastID' = lastID + Cardinality(txn.placed)
    /\ txn' = NoTxn
    /\ Finish
    /\ UNCHANGED <<targetVars, view, lease, faulted, natural, immediate, requests, resumed, fenced,
                   tokens>>

-----------------------------------------------------------------------------
(* CleanupPending.                                                          *)

BeginCleanup ==
    /\ inflight.kind = "cleanup"
    /\ txn.phase = "none"
    /\ txn' = [NoTxn EXCEPT !.phase = "cleanup", !.todo = pending \union orphaned]
    /\ UNCHANGED <<targetVars, actorVars, storeVars, tokens>>

CleanupNext(p, ok) == txn.phase = "cleanup" /\ Cleared(p, ok, "cleanup")

CommitCleanup ==
    LET moved == {p \in txn.stuck : p.token \in Tokens(pending) /\ p.token \notin Tokens(orphaned)}
    IN  /\ txn.phase = "cleanup"
        /\ txn.todo = {}
        /\ pending' = Without(pending, txn.cleared \union moved)
        /\ orphaned' = Without(orphaned, txn.cleared) \union moved
        /\ hints' = WakeUps(Retire(hints, txn.cleared), moved)
        /\ txn' = NoTxn
        /\ Finish
        /\ UNCHANGED <<targetVars, view, lease, faulted, natural, immediate, requests, resumed,
                       bySource, fenced, lastID, tokens>>

(* RPCDeadline passes: the actor fails closed and no longer listens, the    *)
(* worker goes on with a context whose commands all fail.                   *)
Deadline ==
    /\ txn.phase # "none"
    /\ ~txn.expired
    /\ FailClosed
    /\ txn' = [txn EXCEPT !.expired = TRUE]
    /\ UNCHANGED <<targetVars, view, lease, natural, immediate, requests, resumed, storeVars,
                   tokens>>

-----------------------------------------------------------------------------
Init ==
    /\ instance \in Instances
    /\ target \in {[running |-> TRUE, stamp |-> 0], [running |-> FALSE, stamp |-> 1]}
    /\ view = [stopped |-> ~target.running, epoch |-> target.stamp]
    /\ table = {}
    /\ lease = NoOwner
    /\ faulted = FALSE
    /\ queue = <<>>
    /\ inflight = Idle
    /\ natural = 0 /\ immediate = 0
    /\ bySource = [l \in Lines |-> NoLogical]
    /\ pending = {} /\ orphaned = {} /\ fenced = {}
    /\ hints = [t \in {} |-> 0]
    /\ lastID = 0 /\ tokens = 0
    /\ txn = NoTxn
    /\ requests = 0
    /\ resumed = FALSE

SetOutcomes == SetFailureNames \union {"ok"}

Placing == \E outcome \in SetOutcomes : PlaceCore(outcome) \/ PlaceFails(outcome)
RollingBack == \E p \in txn.created, ok \in BOOLEAN : RollbackNext(p, ok)
Clearing ==
    \E p \in txn.todo :
        \/ CheckFence(p)
        \/ \E ok \in BOOLEAN : ClearOld(p, ok) \/ CleanupNext(p, ok)

Worker ==
    \/ BeginReplace \/ RefuseReplace \/ BeginCleanup
    \/ Placing \/ RollingBack \/ Clearing
    \/ CommitReplace \/ CommitCleanup

Sampling == PollTick \/ Observe

Commands ==
    \/ \E owner \in Owners : AcquireControl(owner) \/ Detach(owner)
    \/ \E owner \in Owners, lines \in instance.requested : SetBreakpoints(owner, lines)
    \/ ReleaseControl
    \/ Resume

Next ==
    /\ \/ TargetRuns \/ TargetStops
       \/ Commands
       \/ Sampling \/ RunResume \/ WorkFails \/ Deadline
       \/ Worker
    /\ UNCHANGED instance

Spec == Init /\ [][Next]_vars

(* The worker and the ticker run, and whatever is in flight goes on; every  *)
(* RPC ends.  Clients owe nothing.                                          *)
FairSpec ==
    /\ Spec
    /\ WF_vars((Worker \/ Observe \/ RunResume) /\ UNCHANGED instance)
    /\ WF_vars(PollTick /\ UNCHANGED instance)

-----------------------------------------------------------------------------
(* Properties.                                                              *)

TypeOK ==
    /\ instance \in Instances
    /\ target \in [running : BOOLEAN, stamp : Nat]
    /\ view \in [stopped : BOOLEAN, epoch : Nat]
    /\ table \subseteq Nat
    /\ lease \in Owners \union {NoOwner}
    /\ faulted \in BOOLEAN
    /\ queue \in Seq(Work)
    /\ inflight \in Work
    /\ natural \in Nat /\ immediate \in Nat
    /\ bySource \in [Lines -> Logical]
    /\ pending \subseteq Physical /\ orphaned \subseteq Physical
    /\ fenced \subseteq Owners
    /\ DOMAIN hints \subseteq Nat /\ \A t \in DOMAIN hints : hints[t] \in Nat
    /\ lastID \in Nat /\ tokens \in Nat /\ requests \in Nat
    /\ txn \in Transactions
    /\ resumed \in BOOLEAN

(* What the store, or the transaction in progress, knows to be its own.     *)
Tracked ==
    Live \union pending \union orphaned \union txn.created \union txn.good \union txn.failed

(* Breakpoints of ours on the target that nobody will ever clear.           *)
Forgotten == table \ Tokens(Tracked)

(* Ownership is never forgotten: a breakpoint that stands on the target is  *)
(* in the store's books or in the hands of the transaction, whichever step  *)
(* fails and whenever the frontend detaches or the deadline passes.  The    *)
(* one step that loses sight of a breakpoint is a b that MULTI carried out  *)
(* and whose answer was an error, for which Set returns no record           *)
(* (breakpoint_placer.go Set), and it loses that one only.                  *)
PlacedIsTracked ==
    [][Forgotten' \subseteq Forgotten \union {t \in {tokens'} : PlaceFails("lost")}]_vars

(* architecture.md:567: "verified = false must never make multi-dap forget  *)
(* a breakpoint that it created."  The failure "lost" refutes it.           *)
NothingForgotten == Forgotten = {}

(* A logical breakpoint is atomic: a line the store holds as live stands on *)
(* every core, at one actual line, save what the running transaction is     *)
(* taking away.                                                             *)
LiveIsWhole ==
    \A l \in Lines : bySource[l].owner # NoOwner =>
        /\ {p.core : p \in bySource[l].physical} = Cores
        /\ Agree(bySource[l].physical)
        /\ Tokens(bySource[l].physical) \subseteq table \union Tokens(txn.cleared \union txn.stuck)

(* A detached frontend owns nothing live, even if its transaction commits   *)
(* after the fence went up, and no other frontend's books change hands.     *)
DetachedOwnsNothing ==
    \A l \in Lines : bySource[l].owner \notin fenced

(* A hit is attributed to a breakpoint only while that breakpoint is live   *)
(* and is the one the token was issued for; every other token that still    *)
(* resolves belongs to a leftover and is a mere wake-up.                    *)
HitsAreAttributed ==
    /\ \A l \in Lines : \A p \in bySource[l].physical :
           p.token \in DOMAIN hints /\ hints[p.token] = bySource[l].id
    /\ \A t \in DOMAIN hints \ Tokens(Live) :
           hints[t] = 0 /\ t \in Tokens(pending \union orphaned)

(* The store's books are in order: breakpoints and their hits belong to a   *)
(* frontend that is still attached, and everything else is a leftover.      *)
StoreInv == TypeOK /\ DetachedOwnsNothing /\ HitsAreAttributed

(* Cleanup waits for a stop: it never clears on a target that the daemon    *)
(* itself resumed since it last saw it stopped.                             *)
CleanupNotAfterResume == txn.phase = "cleanup" /\ txn.todo # {} => ~resumed

(* A stop that finds leftovers is used: each is cleared or known to resist, *)
(* unless the actor faults or sees the target run first.  Stated for the    *)
(* first tokens issued: the code does not tell tokens apart.                *)
LeftoversAreTried ==
    \A t \in 1..MaxRequests :
        (t \in Tokens(pending) /\ view.stopped /\ natural # view.epoch)
            ~> (t \notin Tokens(pending) \/ faulted \/ ~view.stopped)

(* Repeated samples of one stop do not clear a stubborn breakpoint for      *)
(* ever: cleanup comes to rest.                                             *)
CleanupRests == <>[](inflight.kind # "cleanup")

(* Each stop is used for cleaning up, and no stop is used for ever.         *)
CleanupWorks == LeftoversAreTried /\ CleanupRests
=============================================================================
