-------------------------- MODULE DaemonRendezvous --------------------------
(***************************************************************************)
(* How the processes of one probe find each other: the record file of       *)
(* control.Store, the daemons started by serve, and the ensure commands     *)
(* that start one or find the one that is there.                            *)
(*                                                                          *)
(* The file is the only thing they share.  A daemon creates it, writes a    *)
(* starting marker into it, replaces the marker by its record once MULTI is *)
(* open, and removes the record when it stops.  Whoever finds a dead        *)
(* daemon's marker or record removes it.  Checking the file and removing or *)
(* replacing it are separate operations.  The probe lock of the daemon      *)
(* runtime is an object of the operating system and vanishes with its       *)
(* owner's process.                                                         *)
(***************************************************************************)
EXTENDS Integers, FiniteSets

CONSTANTS
    Daemons,    \* serve processes, each of which runs once
    Ensurers,   \* ensure commands
    Child,      \* the serve process each ensure command starts
    Digests,    \* configurations, as their binding digests
    Projects,   \* the ways the daemons may be configured
    NoOne       \* no daemon

ASSUME ChildAssumption ==
    /\ Child \in [Ensurers -> Daemons]
    /\ \A e, f \in Ensurers : Child[e] = Child[f] => e = f
ASSUME NoOneAssumption == NoOne \notin Daemons
ASSUME ProcessesAssumption == Daemons \intersect Ensurers = {}
ASSUME ProjectsAssumption == Projects \subseteq [Daemons -> Digests]

VARIABLES
    file,       \* the record file of the probe
    probe,      \* the daemon that holds the probe lock
    driving,    \* the daemons whose runtime works on MULTI
    config,     \* the configuration of each daemon
    pc,         \* where each daemon is in runServe
    judged,     \* per process: the contents of the file it last acted upon
    ensure,     \* each ensure command
    disturbed   \* history: a file was removed that was not the one judged, or
                \* judged by a call that gave up on a daemon that serves

vars == <<file, probe, driving, config, pc, judged, ensure, disturbed>>

Processes == Daemons \union Ensurers

(* A file just created is empty until the marker is written.                *)
NoFile == [kind |-> "none", owner |-> NoOne]
Empty(d) == [kind |-> "empty", owner |-> d]
Marker(d) == [kind |-> "marker", owner |-> d]
Record(d) == [kind |-> "record", owner |-> d]

Files == {NoFile} \union [kind : {"empty", "marker", "record"}, owner : Daemons]

Ended == {"exited", "killed"}

ServeSteps ==
    {"off", "reserve", "write", "load", "recover", "call", "remove", "reserved",
     "starting", "commit", "replace", "serving", "withdraw", "withdrawing",
     "close", "cancel", "cancelling"} \union Ended

(* probing and waiting are the two calls of waitForLiveDaemon, before and   *)
(* after the launch; the next three are steps inside of it.  back is the    *)
(* one they return to.                                                      *)
EnsureSteps ==
    {"idle", "probing", "waiting", "recover", "call", "reclaim", "remove", "launch", "done"}

Outcomes == {"none", "ready", "mismatch", "failed"}

Ensure ==
    [step : EnsureSteps, launched : BOOLEAN, childExit : BOOLEAN, other : BOOLEAN,
     outcome : Outcomes]

Alive(d) == pc[d] \notin Ended \union {"off"}

(* The configuration an ensure command was given, and passes on.            *)
Wanted(e) == config[Child[e]]

(* On Windows a file that its creator still holds open for writing can be   *)
(* neither removed nor replaced by others.                                  *)
Held == file.kind = "empty" /\ Alive(file.owner)

(* While ReplaceFileW works on a marker, readers may be turned away.        *)
Replacing == file.kind = "marker" /\ pc[file.owner] = "replace"

-----------------------------------------------------------------------------
(* serve                                                                    *)

Goto(d, step) == pc' = [pc EXCEPT ![d] = step]

Exit(d) == Goto(d, "exited")

ServeOnly == UNCHANGED <<config, ensure>>

Judge(p) == judged' = [judged EXCEPT ![p] = file]
Forget(p) == judged' = [judged EXCEPT ![p] = NoFile]

Quietly == UNCHANGED disturbed

StartServe(d) ==
    /\ pc[d] = "off"
    /\ \A e \in Ensurers : Child[e] # d
    /\ Goto(d, "reserve")
    /\ UNCHANGED <<file, probe, driving, judged>> /\ ServeOnly /\ Quietly

(* Store.Reserve creates the file exclusively.  If it is there already, a   *)
(* readable digest that differs ends serve here; otherwise it is looked at. *)
Reserve(d) ==
    /\ pc[d] = "reserve"
    /\ \/ file = NoFile /\ file' = Empty(d) /\ Goto(d, "write")
       \/ /\ file # NoFile
          /\ IF file.kind # "empty" /\ config[file.owner] # config[d]
             THEN Exit(d) ELSE Goto(d, "load")
          /\ UNCHANGED file
    /\ UNCHANGED <<probe, driving, judged>> /\ ServeOnly /\ Quietly

(* Writing the marker, or failing to and removing the file.                 *)
WriteMarker(d, written) ==
    /\ pc[d] = "write"
    /\ file' = IF written THEN Marker(d) ELSE NoFile
    /\ IF written THEN Goto(d, "reserved") ELSE Exit(d)
    /\ UNCHANGED <<probe, driving, judged>> /\ ServeOnly /\ Quietly

(* reserveRecord after ErrRecordActive: LoadForConfig.                      *)
ServeLoads(d) ==
    /\ pc[d] = "load"
    /\ \/ file.kind = "marker" /\ Goto(d, "recover") /\ UNCHANGED judged
       \/ /\ file.kind = "record" /\ config[file.owner] = config[d]
          /\ Goto(d, "call")
          /\ Judge(d)
       \/ Exit(d) /\ UNCHANGED judged
    /\ UNCHANGED <<file, probe, driving>> /\ ServeOnly /\ Quietly

RecoverableMutant(c) ==
    /\ file.kind = "marker"
    /\ config[file.owner] = c

(* RecoverStarting up to its second look at the file: the marker of a       *)
(* process that is no more, and of the caller's configuration.              *)
Recoverable(c) ==
    /\ file.kind = "marker"
    /\ config[file.owner] = c
    /\ ~Alive(file.owner)

ServeRecovers(d) ==
    /\ pc[d] = "recover"
    /\ IF Recoverable(config[d])
       THEN Goto(d, "remove") /\ Judge(d)
       ELSE Exit(d) /\ UNCHANGED judged
    /\ UNCHANGED <<file, probe, driving>> /\ ServeOnly /\ Quietly

(* The outcome of control.Call: a daemon that serves answers, if only that  *)
(* its runtime has ended; a process that is gone cannot.  A deadline that   *)
(* passes first is taken for staleness whatever the daemon does.            *)
Answers(d) == pc[d] = "serving"

(* control.Call found the record in hand stale, and RemoveIfEqual finds it  *)
(* still there.                                                             *)
GivesUp(p) ==
    disturbed' = (disturbed \/ (file = judged[p] /\ Answers(judged[p].owner)))

ServeCalls(d, stale) ==
    /\ pc[d] = "call"
    /\ \/ ~stale /\ Alive(judged[d].owner) /\ Exit(d) /\ Forget(d) /\ Quietly
       \/ /\ stale /\ GivesUp(d)
          /\ IF file = judged[d] THEN Goto(d, "remove") /\ UNCHANGED judged
             ELSE Goto(d, "reserve") /\ Forget(d)
    /\ UNCHANGED <<file, probe, driving>> /\ ServeOnly

(* os.Remove takes away whatever the file is now, meant to be f.            *)
Unlink(f) ==
    /\ ~Held
    /\ file' = NoFile
    /\ disturbed' = (disturbed \/ file \notin {f, NoFile})

RemoveFails == Held /\ UNCHANGED <<file, disturbed>>

ServeRemoves(d) ==
    /\ pc[d] = "remove"
    /\ \/ Unlink(judged[d]) /\ Goto(d, "reserve")
       \/ RemoveFails /\ Exit(d)
    /\ Forget(d)
    /\ UNCHANGED <<probe, driving>> /\ ServeOnly

(* startRuntime, up to acquireProbeLock.                                    *)
AcquireProbe(d) ==
    /\ pc[d] = "reserved"
    /\ \/ /\ probe = NoOne /\ probe' = d
          /\ driving' = driving \union {d}
          /\ Goto(d, "starting")
       \/ Goto(d, "cancel") /\ UNCHANGED <<probe, driving>>
    /\ UNCHANGED <<file, judged>> /\ ServeOnly /\ Quietly

(* The lock of d is closed, or ends with its process.                       *)
Released(d) == probe' = IF probe = d THEN NoOne ELSE probe

(* The rest of startRuntime opens MULTI; on failure it releases the lock.   *)
OpenSession(d, opened) ==
    /\ pc[d] = "starting"
    /\ IF opened THEN Goto(d, "commit") /\ UNCHANGED <<probe, driving>>
       ELSE Goto(d, "cancel") /\ Released(d) /\ driving' = driving \ {d}
    /\ UNCHANGED <<file, judged>> /\ ServeOnly /\ Quietly

(* A failure of Reservation.Commit closes the runtime.                      *)
CommitFails(d) ==
    /\ Goto(d, "close")
    /\ UNCHANGED file

(* Commit up to its second look at its marker.                              *)
CheckCommit(d) ==
    /\ pc[d] = "commit"
    /\ \/ file = Marker(d) /\ Goto(d, "replace") /\ UNCHANGED file
       \/ CommitFails(d)
    /\ UNCHANGED <<probe, driving, judged>> /\ ServeOnly /\ Quietly

(* ReplaceFileW replaces an existing file, whatever it is now.              *)
Replace(d) ==
    /\ pc[d] = "replace"
    /\ \/ /\ file # NoFile /\ ~Held
          /\ file' = Record(d) /\ Goto(d, "serving")
       \/ CommitFails(d)
    /\ UNCHANGED <<probe, driving, judged>> /\ ServeOnly /\ Quietly

(* A shutdown request, the end of the runtime, or the loss of the control   *)
(* listener.                                                                *)
StopServing(d) ==
    /\ pc[d] = "serving"
    /\ Goto(d, "withdraw")
    /\ UNCHANGED <<file, probe, driving, judged>> /\ ServeOnly /\ Quietly

(* RemoveIfInstance.                                                        *)
CheckWithdraw(d) ==
    /\ pc[d] = "withdraw"
    /\ Goto(d, IF file = Record(d) THEN "withdrawing" ELSE "close")
    /\ UNCHANGED <<file, probe, driving, judged>> /\ ServeOnly /\ Quietly

Withdraw(d) ==
    /\ pc[d] = "withdrawing"
    /\ Goto(d, "close")
    /\ Unlink(Record(d)) \/ RemoveFails
    /\ UNCHANGED <<probe, driving, judged>> /\ ServeOnly

(* The runtime ends by itself, with its bridge or its actor, or is closed   *)
(* by the handler of a shutdown request, beside the main goroutine.         *)
RuntimeEnds(d) ==
    /\ pc[d] \in {"commit", "replace", "serving", "withdraw", "withdrawing"}
    /\ d \in driving
    /\ driving' = driving \ {d}
    /\ UNCHANGED <<file, probe, pc, judged>> /\ ServeOnly /\ Quietly

(* The deferred Close, which does nothing if the runtime has ended.         *)
CloseRuntime(d) ==
    /\ pc[d] = "close"
    /\ driving' = driving \ {d}
    /\ Goto(d, "cancel")
    /\ UNCHANGED <<file, probe, judged>> /\ ServeOnly /\ Quietly

ReleaseProbeMutant(d) ==
    /\ probe = d
    /\ pc[d] # "starting"
    /\ probe' = NoOne
    /\ UNCHANGED <<file, driving, pc, judged>> /\ ServeOnly /\ Quietly

(* releaseProbeAfterNative: once the native helper has ended, in time or in *)
(* a goroutine of its own.                                                  *)
ReleaseProbe(d) ==
    /\ probe = d
    /\ d \notin driving
    /\ probe' = NoOne
    /\ UNCHANGED <<file, driving, pc, judged>> /\ ServeOnly /\ Quietly

(* Reservation.Cancel, which does nothing after a Commit.                   *)
CheckCancel(d) ==
    /\ pc[d] = "cancel"
    /\ IF file = Marker(d) THEN Goto(d, "cancelling") /\ UNCHANGED probe
       ELSE Exit(d) /\ Released(d)
    /\ UNCHANGED <<file, driving, judged>> /\ ServeOnly /\ Quietly

Cancel(d) ==
    /\ pc[d] = "cancelling"
    /\ Exit(d) /\ Released(d)
    /\ Unlink(Marker(d)) \/ RemoveFails
    /\ UNCHANGED <<driving, judged>> /\ ServeOnly

(* The process ends where it is.                                            *)
Kill(d) ==
    /\ pc' = [pc EXCEPT ![d] = IF Alive(d) THEN "killed" ELSE @]
    /\ driving' = driving \ {d}
    /\ Released(d)

Crash(d) ==
    /\ Alive(d)
    /\ Kill(d)
    /\ UNCHANGED <<file, judged>> /\ ServeOnly /\ Quietly

-----------------------------------------------------------------------------
(* ensure                                                                   *)

EnsureOnly == UNCHANGED <<probe, driving, config, pc>>

Set(e, state) == ensure' = [ensure EXCEPT ![e] = state]

Back(e) == IF ensure[e].launched THEN "waiting" ELSE "probing"

(* A command that does not end in readiness kills the child it started.     *)
Fail(e, why) ==
    /\ Set(e, [ensure[e] EXCEPT !.step = "done", !.outcome = why])
    /\ IF ensure[e].launched THEN Kill(Child[e]) ELSE UNCHANGED <<pc, probe, driving>>
    /\ UNCHANGED config

(* The end of a turn of waitForLiveDaemon, which looks for the end of the   *)
(* child and may see it turns later.  other is waitingForOtherStarter.      *)
NextTurn(e, other) ==
    /\ \E seen \in BOOLEAN :
           Set(e, [ensure[e] EXCEPT
                     !.step = Back(e), !.other = other,
                     !.childExit = @ \/ (seen /\ ensure[e].launched /\ pc[Child[e]] \in Ended)])
    /\ EnsureOnly

StartEnsure(e) ==
    /\ ensure[e].step = "idle"
    /\ Set(e, [ensure[e] EXCEPT !.step = "probing"])
    /\ UNCHANGED <<file, judged>> /\ EnsureOnly /\ Quietly

(* LoadForConfig and what follows from it.  An empty file has no readable   *)
(* digest and is reported as a mismatch.                                    *)
Poll(e) ==
    LET self == ensure[e]
    IN  /\ self.step \in {"probing", "waiting"}
        /\ \/ /\ file.kind = "none"
              /\ \/ self.childExit /\ ~self.other /\ Fail(e, "failed")
                 \/ ~self.launched /\ Set(e, [self EXCEPT !.step = "launch"]) /\ EnsureOnly
                 \/ self.launched /\ (self.childExit => self.other) /\ NextTurn(e, self.other)
              /\ UNCHANGED judged
           \/ /\ file.kind = "empty"
              /\ Fail(e, "mismatch") /\ UNCHANGED judged
           \/ /\ file.kind = "marker"
              /\ Set(e, [self EXCEPT !.step = "recover"]) /\ EnsureOnly /\ UNCHANGED judged
           \/ Replacing /\ NextTurn(e, self.other) /\ UNCHANGED judged
           \/ /\ file.kind = "record" /\ config[file.owner] # Wanted(e)
              /\ Fail(e, "mismatch") /\ UNCHANGED judged
           \/ /\ file.kind = "record" /\ config[file.owner] = Wanted(e)
              /\ Set(e, [self EXCEPT !.step = "call"]) /\ EnsureOnly
              /\ Judge(e)
        /\ UNCHANGED file /\ Quietly

(* RecoverStarting after ErrRecordActive.  A file that is gone or complete  *)
(* by now counts as another starter at work.  A reader turned away here, as *)
(* opposed to one in LoadForConfig, fails.                                  *)
EnsureRecovers(e) ==
    /\ ensure[e].step = "recover"
    /\ \/ /\ Recoverable(Wanted(e))
          /\ Set(e, [ensure[e] EXCEPT !.step = "reclaim"]) /\ EnsureOnly
          /\ Judge(e)
       \/ /\ ~Recoverable(Wanted(e))
          /\ IF \/ file.kind = "empty"
                \/ file.kind \in {"marker", "record"} /\ config[file.owner] # Wanted(e)
             THEN Fail(e, "mismatch") ELSE NextTurn(e, TRUE)
          /\ UNCHANGED judged
       \/ Replacing /\ Fail(e, "failed") /\ UNCHANGED judged
    /\ UNCHANGED file /\ Quietly

Reclaim(e) ==
    /\ ensure[e].step = "reclaim"
    /\ \/ /\ Unlink(judged[e])
          /\ Set(e, [ensure[e] EXCEPT !.step = Back(e), !.other = FALSE]) /\ EnsureOnly
       \/ RemoveFails /\ Fail(e, "failed")
    /\ Forget(e)

EnsureCallsMutant(e, answer) ==
    LET d == judged[e].owner
    IN  /\ ensure[e].step = "call"
        /\ \/ /\ answer = "status" /\ Answers(d) /\ d \in driving
              /\ Set(e, [ensure[e] EXCEPT !.step = "done", !.outcome = "ready"])
              /\ EnsureOnly
           \/ answer = "stale" /\ NextTurn(e, ensure[e].other)
        /\ Forget(e) /\ Quietly
        /\ UNCHANGED file

(* control.Call: readiness, a refusal, or a stale record.                   *)
EnsureCalls(e, answer) ==
    LET d == judged[e].owner
    IN  /\ ensure[e].step = "call"
        /\ \/ /\ answer = "status" /\ Answers(d) /\ d \in driving
              /\ Set(e, [ensure[e] EXCEPT !.step = "done", !.outcome = "ready"])
              /\ EnsureOnly /\ Forget(e) /\ Quietly
           \/ answer = "refusal" /\ Alive(d) /\ Fail(e, "failed") /\ Forget(e) /\ Quietly
           \/ /\ answer = "stale" /\ GivesUp(e)
              /\ IF file = judged[e]
                 THEN Set(e, [ensure[e] EXCEPT !.step = "remove"]) /\ EnsureOnly /\ UNCHANGED judged
                 ELSE NextTurn(e, ensure[e].other) /\ Forget(e)
        /\ UNCHANGED file

RemoveStale(e) ==
    /\ ensure[e].step = "remove"
    /\ \/ Unlink(judged[e]) /\ NextTurn(e, ensure[e].other)
       \/ RemoveFails /\ Fail(e, "failed")
    /\ Forget(e)

(* Discovery of a warm session may fail; otherwise serve is started.        *)
Launch(e, discovered) ==
    /\ ensure[e].step = "launch"
    /\ IF discovered
       THEN /\ Set(e, [ensure[e] EXCEPT !.step = "waiting", !.launched = TRUE])
            /\ Goto(Child[e], "reserve")
            /\ UNCHANGED <<probe, driving, config>>
       ELSE Fail(e, "failed")
    /\ UNCHANGED <<file, judged>> /\ Quietly

(* The startup deadline.                                                    *)
Expire(e) ==
    /\ ensure[e].step \in {"probing", "waiting"}
    /\ Fail(e, "failed")
    /\ UNCHANGED <<file, judged>> /\ Quietly

-----------------------------------------------------------------------------
NewEnsure ==
    [step |-> "idle", launched |-> FALSE, childExit |-> FALSE, other |-> FALSE,
     outcome |-> "none"]

Init ==
    /\ file = NoFile
    /\ probe = NoOne
    /\ driving = {}
    /\ config \in Projects
    /\ pc = [d \in Daemons |-> "off"]
    /\ judged = [p \in Processes |-> NoFile]
    /\ ensure = [e \in Ensurers |-> NewEnsure]
    /\ disturbed = FALSE

ServeStep(d) ==
    \/ Reserve(d)
    \/ \E written \in BOOLEAN : WriteMarker(d, written)
    \/ ServeLoads(d)
    \/ ServeRecovers(d)
    \/ \E stale \in BOOLEAN : ServeCalls(d, stale)
    \/ ServeRemoves(d)
    \/ AcquireProbe(d)
    \/ \E opened \in BOOLEAN : OpenSession(d, opened)
    \/ CheckCommit(d)
    \/ Replace(d)
    \/ CheckWithdraw(d)
    \/ Withdraw(d)
    \/ CloseRuntime(d)
    \/ CheckCancel(d)
    \/ Cancel(d)

EnsureStep(e) ==
    \/ Poll(e)
    \/ EnsureRecovers(e)
    \/ Reclaim(e)
    \/ \E answer \in {"status", "refusal", "stale"} : EnsureCalls(e, answer)
    \/ RemoveStale(e)
    \/ \E discovered \in BOOLEAN : Launch(e, discovered)

Next ==
    \/ \E d \in Daemons :
           \/ StartServe(d) \/ ServeStep(d) \/ StopServing(d) \/ RuntimeEnds(d)
           \/ ReleaseProbe(d) \/ Crash(d)
    \/ \E e \in Ensurers :
           \/ StartEnsure(e) \/ EnsureStep(e) \/ Expire(e)

Spec == Init /\ [][Next]_vars

(* The loop of an ensure command goes on, turn after turn.  Nothing is      *)
(* assumed of the user, the daemons, crashes and deadlines.                 *)
FairSpec == Spec /\ \A e \in Ensurers : WF_vars(EnsureStep(e))

-----------------------------------------------------------------------------
(* Properties.                                                              *)

TypeOK ==
    /\ file \in Files
    /\ probe \in Daemons \union {NoOne}
    /\ driving \subseteq Daemons
    /\ config \in [Daemons -> Digests]
    /\ pc \in [Daemons -> ServeSteps]
    /\ judged \in [Processes -> Files]
    /\ ensure \in [Ensurers -> Ensure]
    /\ disturbed \in BOOLEAN

(* Steps of serve at which its runtime may be open.                         *)
Working == {"starting", "commit", "replace", "serving", "withdraw", "withdrawing", "close"}

(* However markers and records are lost, taken over or overwritten, and     *)
(* wherever a runtime ends, at most one daemon at a time works on MULTI, a  *)
(* live one that holds the probe.                                           *)
OneRuntime == \A d \in driving : probe = d /\ pc[d] \in Working

(* From its marker to the end of its service a daemon can be found: the     *)
(* file is its own.  Two things excuse the contrary.  One is a removal that *)
(* took away a file other than the one it had checked, the other a call     *)
(* whose deadline passed on a daemon that serves.                           *)
Published ==
    ~disturbed => \A d \in Daemons :
        /\ pc[d] \in {"reserved", "starting", "commit", "replace"} => file = Marker(d)
        /\ pc[d] = "serving" => file = Record(d)

(* Steps of serve after its service or its attempt at it.                   *)
Past(d) ==
    pc[d] \in {"withdraw", "withdrawing", "close", "cancel", "cancelling"} \union Ended

(* The owner of the file is at a step at which it knows of it, or was       *)
(* killed there.                                                            *)
OwnerKnows ==
    /\ file.kind = "empty" => pc[file.owner] \in {"write", "killed"}
    /\ file.kind = "marker" =>
           pc[file.owner] \in {"reserved", "starting", "commit", "replace", "close",
                               "cancel", "cancelling", "killed"}
    /\ file.kind = "record" =>
           pc[file.owner] \in {"serving", "withdraw", "withdrawing", "killed"}
    /\ \A d \in Daemons : pc[d] = "write" => file = Empty(d)

(* What a process relies on between judging a file and removing it.         *)
Called(f) == f.kind = "record" /\ (Answers(f.owner) \/ Past(f.owner))
Condemned(f) == f # NoFile /\ (disturbed \/ Past(f.owner))

JudgementsHold ==
    /\ \A d \in Daemons :
           /\ pc[d] = "call" => Called(judged[d])
           /\ pc[d] = "remove" => Condemned(judged[d])
    /\ \A e \in Ensurers :
           /\ ensure[e].step = "call" => Called(judged[e])
           /\ ensure[e].step \in {"reclaim", "remove"} => Condemned(judged[e])

LaunchedOnce ==
    \A e \in Ensurers :
        /\ ~ensure[e].launched => pc[Child[e]] = "off"
        /\ ensure[e].step = "launch" => ~ensure[e].launched

(* The inductive invariant behind OneRuntime, Published and                 *)
(* NothingLeftBehind: who may own the file at which step, and what a        *)
(* process that is about to remove a file knows of the one it judged.       *)
RendezvousInv ==
    TypeOK /\ OneRuntime /\ Published /\ OwnerKnows /\ JudgementsHold /\ LaunchedOnce

(* A daemon that was not killed leaves neither marker nor record behind, at *)
(* whichever step it gave up and whoever else worked on the file.           *)
NothingLeftBehind == \A d \in Daemons : pc[d] = "exited" => file.owner # d

(* The marker or record of a dead process of the same configuration.        *)
Abandoned(e) ==
    /\ file.kind \in {"marker", "record"}
    /\ pc[file.owner] = "killed"
    /\ config[file.owner] = Wanted(e)

(* Nobody waits behind a dead process: an ensure command that meets an      *)
(* abandoned file sees it go, or ends.                                      *)
DeadFileGoes ==
    \A e \in Ensurers :
        (ensure[e].step \in {"probing", "waiting"} /\ Abandoned(e))
        ~> (~Abandoned(e) \/ ensure[e].step = "done")

(* Concurrent ensure calls converge on one daemon: none is told of a        *)
(* mismatch where there is one configuration only.                          *)
EnsuresConverge ==
    \A e \in Ensurers :
        ensure[e].outcome = "mismatch" =>
            \E d \in Daemons : config[d] # Wanted(e)
=============================================================================
