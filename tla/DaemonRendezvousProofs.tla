----------------------- MODULE DaemonRendezvousProofs -----------------------
(***************************************************************************)
(* Proofs about DaemonRendezvous, for any number of daemons and ensure      *)
(* commands: RendezvousInv is inductive, and OneRuntime, Published and      *)
(* NothingLeftBehind follow from it.                                        *)
(***************************************************************************)
EXTENDS DaemonRendezvous, TLAPS

(* The part of the invariant that speaks of daemons and the file only.      *)
ServeInv ==
    /\ file \in Files
    /\ probe \in Daemons \union {NoOne}
    /\ driving \subseteq Daemons
    /\ pc \in [Daemons -> ServeSteps]
    /\ disturbed \in BOOLEAN
    /\ OneRuntime /\ Published /\ OwnerKnows

(* A daemon that is past its service stays so, and one that answers goes on *)
(* answering until then.                                                    *)
Progress ==
    \A d \in Daemons :
        /\ Past(d) => Past(d)'
        /\ Answers(d) => Answers(d)' \/ Past(d)'

-----------------------------------------------------------------------------
(* Killing a daemon, by a crash or by the ensure command that started it.   *)
LEMMA KillKeeps ==
    ASSUME ServeInv, NEW d \in Daemons, Kill(d), UNCHANGED <<file, disturbed>>
    PROVE  ServeInv' /\ Progress
<1> USE DEF ServeInv, Kill, Released, Alive, Ended, ServeSteps
<1>1. /\ probe' \in Daemons \union {NoOne}
      /\ driving' \subseteq Daemons
      /\ pc' \in [Daemons -> ServeSteps]
  OBVIOUS
<1>2. OneRuntime'
  BY NoOneAssumption DEF OneRuntime, Working
<1>3. Published'
  BY DEF Published, Marker, Record
<1>4. OwnerKnows'
  BY DEF OwnerKnows, Files, NoFile, Empty
<1>5. Progress
  BY DEF Progress, Past, Answers
<1> QED
  BY <1>1, <1>2, <1>3, <1>4, <1>5

(* A judgement survives any step that leaves the judged file alone.         *)
LEMMA JudgementsKept ==
    ASSUME TypeOK, Progress, disturbed => disturbed',
           NEW p \in Processes, judged'[p] = judged[p]
    PROVE  /\ Called(judged[p]) => Called(judged[p])'
           /\ Condemned(judged[p]) => Condemned(judged[p])'
BY DEF TypeOK, Progress, Called, Condemned, Files, NoFile

(* Steps of an ensure command that touch no daemon.                         *)
LEMMA EnsureTurn ==
    ASSUME RendezvousInv, NEW e \in Ensurers,
           file' = file \/ file' = NoFile,
           ServeInv', Progress, disturbed => disturbed',
           UNCHANGED config,
           judged' \in [Processes -> Files],
           \A p \in Processes \ {e} : judged'[p] = judged[p],
           ensure' \in [Ensurers -> Ensure],
           \A f \in Ensurers \ {e} : ensure'[f] = ensure[f],
           \A d \in Daemons : pc'[d] \in {pc[d], "killed"},
           \A f \in Ensurers : pc[Child[f]] = "off" => pc'[Child[f]] = "off",
           ~ensure'[e].launched => ~ensure[e].launched,
           ensure'[e].step = "launch" => ~ensure'[e].launched,
           ensure'[e].step = "call" => Called(judged[e])',
           ensure'[e].step \in {"reclaim", "remove"} => Condemned(judged[e])'
    PROVE  RendezvousInv'
<1>1. TypeOK'
  BY DEF RendezvousInv, TypeOK, ServeInv
<1>2. JudgementsHold'
  <2>1. ASSUME NEW d \in Daemons
        PROVE  /\ pc'[d] = "call" => Called(judged[d])'
               /\ pc'[d] = "remove" => Condemned(judged[d])'
    <3>1. d \in Processes \ {e}
      BY ProcessesAssumption DEF Processes
    <3> QED
      BY <3>1, JudgementsKept DEF RendezvousInv, JudgementsHold
  <2>2. ASSUME NEW f \in Ensurers
        PROVE  /\ ensure'[f].step = "call" => Called(judged[f])'
               /\ ensure'[f].step \in {"reclaim", "remove"} => Condemned(judged[f])'
    <3>1. CASE f = e
      BY <3>1
    <3>2. CASE f # e
      BY <3>2, JudgementsKept DEF RendezvousInv, JudgementsHold, Processes
    <3> QED
      BY <3>1, <3>2
  <2> QED
    BY <2>1, <2>2 DEF JudgementsHold
<1>3. LaunchedOnce'
  BY DEF RendezvousInv, LaunchedOnce
<1> QED
  BY <1>1, <1>2, <1>3 DEF RendezvousInv, ServeInv

(* Steps of a daemon.                                                       *)
LEMMA ServeTurn ==
    ASSUME RendezvousInv, NEW d \in Daemons, ServeOnly,
           ServeInv', Progress, disturbed => disturbed',
           judged' \in [Processes -> Files],
           \A p \in Processes \ {d} : judged'[p] = judged[p],
           \A x \in Daemons \ {d} : pc'[x] = pc[x],
           pc[d] = "off" => pc'[d] = "off" \/ \A e \in Ensurers : Child[e] # d,
           pc'[d] = "call" => Called(judged[d])',
           pc'[d] = "remove" => Condemned(judged[d])'
    PROVE  RendezvousInv'
<1> USE DEF ServeOnly
<1>1. TypeOK'
  BY DEF RendezvousInv, TypeOK, ServeInv
<1>2. JudgementsHold'
  <2>1. ASSUME NEW x \in Daemons
        PROVE  /\ pc'[x] = "call" => Called(judged[x])'
               /\ pc'[x] = "remove" => Condemned(judged[x])'
    <3>1. CASE x = d
      BY <3>1
    <3>2. CASE x # d
      BY <3>2, JudgementsKept DEF RendezvousInv, JudgementsHold, Processes
    <3> QED
      BY <3>1, <3>2
  <2>2. ASSUME NEW e \in Ensurers
        PROVE  /\ ensure'[e].step = "call" => Called(judged[e])'
               /\ ensure'[e].step \in {"reclaim", "remove"} => Condemned(judged[e])'
    <3>1. e \in Processes \ {d}
      BY ProcessesAssumption DEF Processes
    <3> QED
      BY <3>1, JudgementsKept DEF RendezvousInv, JudgementsHold
  <2> QED
    BY <2>1, <2>2 DEF JudgementsHold
<1>3. LaunchedOnce'
  BY ChildAssumption DEF RendezvousInv, LaunchedOnce
<1> QED
  BY <1>1, <1>2, <1>3 DEF RendezvousInv, ServeInv

(* Removing a file whose owner is past its service, if nothing disturbs.    *)
LEMMA UnlinkKeepsPublished ==
    ASSUME RendezvousInv, NEW f \in Files, Unlink(f), Condemned(f),
           \A x \in Daemons : ~Past(x)' => pc'[x] = pc[x] \/ pc'[x] = "reserve"
    PROVE  Published'
<1> SUFFICES ASSUME ~disturbed', NEW x \in Daemons,
                    pc'[x] \in {"reserved", "starting", "commit", "replace", "serving"}
             PROVE  FALSE
  BY DEF Published
<1>1. ~disturbed /\ file \in {f, NoFile}
  BY Zenon DEF Unlink, RendezvousInv, TypeOK
<1>2. pc[x] = pc'[x]
  BY DEF Past, Ended
<1>3. file.owner = x /\ file # NoFile
  BY <1>1, <1>2, NoOneAssumption DEF RendezvousInv, Published, Marker, Record, NoFile
<1>4. Past(x)
  BY <1>1, <1>3 DEF Condemned
<1> QED
  BY <1>2, <1>4 DEF Past, Ended

LEMMA StartServeKeeps ==
    ASSUME RendezvousInv, NEW d \in Daemons, StartServe(d)
    PROVE  RendezvousInv'
<1> USE DEF StartServe, Goto, Exit, ServeOnly, Quietly
<1>1. Progress
  BY DEF Progress, Past, Answers, Ended, RendezvousInv, TypeOK, ServeSteps
<1>2. OneRuntime'
  BY NoOneAssumption DEF OneRuntime, RendezvousInv, TypeOK, Working
<1>3. Published'
  BY DEF Published, Marker, Record, Empty, NoFile, RendezvousInv, TypeOK
<1>4. OwnerKnows'
  BY NoOneAssumption DEF OwnerKnows, RendezvousInv, TypeOK, Files, Marker, Record, Empty, NoFile
<1>5. ServeInv'
  BY <1>2, <1>3, <1>4 DEF ServeInv, RendezvousInv, TypeOK, ServeSteps, Ended, Files, NoFile, Marker, Record, Empty
<1>6. judged' \in [Processes -> Files] /\ \A p \in Processes \ {d} : judged'[p] = judged[p]
  BY DEF RendezvousInv, TypeOK, Files, NoFile
<1>7. pc'[d] = "call" => Called(judged[d])'
  BY DEF RendezvousInv, TypeOK, JudgementsHold, OwnerKnows, Called, Past, Answers, Ended, Processes, Files
<1>8. pc'[d] = "remove" => Condemned(judged[d])'
  BY DEF RendezvousInv, TypeOK, JudgementsHold, OwnerKnows, Condemned, Called, Past, Answers, Ended, Processes, Files, NoFile
<1> QED
  BY <1>1, <1>5, <1>6, <1>7, <1>8, ServeTurn DEF RendezvousInv, TypeOK

LEMMA ReserveKeeps ==
    ASSUME RendezvousInv, NEW d \in Daemons, Reserve(d)
    PROVE  RendezvousInv'
<1> USE DEF Reserve, Goto, Exit, ServeOnly, Quietly
<1>1. Progress
  BY DEF Progress, Past, Answers, Ended, RendezvousInv, TypeOK, ServeSteps
<1>2. OneRuntime'
  BY NoOneAssumption DEF OneRuntime, RendezvousInv, TypeOK, Working
<1>3. Published'
  BY DEF Published, Marker, Record, Empty, NoFile, RendezvousInv, TypeOK
<1>4. OwnerKnows'
  BY NoOneAssumption DEF OwnerKnows, RendezvousInv, TypeOK, Files, Marker, Record, Empty, NoFile
<1>5. ServeInv'
  BY <1>2, <1>3, <1>4 DEF ServeInv, RendezvousInv, TypeOK, ServeSteps, Ended, Files, NoFile, Marker, Record, Empty
<1>6. judged' \in [Processes -> Files] /\ \A p \in Processes \ {d} : judged'[p] = judged[p]
  BY DEF RendezvousInv, TypeOK, Files, NoFile
<1>7. pc'[d] = "call" => Called(judged[d])'
  BY DEF RendezvousInv, TypeOK, JudgementsHold, OwnerKnows, Called, Past, Answers, Ended, Processes, Files
<1>8. pc'[d] = "remove" => Condemned(judged[d])'
  BY DEF RendezvousInv, TypeOK, JudgementsHold, OwnerKnows, Condemned, Called, Past, Answers, Ended, Processes, Files, NoFile
<1> QED
  BY <1>1, <1>5, <1>6, <1>7, <1>8, ServeTurn DEF RendezvousInv, TypeOK

LEMMA WriteMarkerKeeps ==
    ASSUME RendezvousInv, NEW d \in Daemons, NEW written \in BOOLEAN, WriteMarker(d, written)
    PROVE  RendezvousInv'
<1> USE DEF WriteMarker, Goto, Exit, ServeOnly, Quietly
<1>1. Progress
  BY DEF Progress, Past, Answers, Ended, RendezvousInv, TypeOK, ServeSteps
<1>2. OneRuntime'
  BY NoOneAssumption DEF OneRuntime, RendezvousInv, TypeOK, Working
<1>3. Published'
  BY DEF Published, Marker, Record, Empty, NoFile, RendezvousInv, TypeOK, OwnerKnows
<1>4. OwnerKnows'
  BY NoOneAssumption DEF OwnerKnows, RendezvousInv, TypeOK, Files, Marker, Record, Empty, NoFile
<1>5. ServeInv'
  BY <1>2, <1>3, <1>4 DEF ServeInv, RendezvousInv, TypeOK, ServeSteps, Ended, Files, NoFile, Marker, Record, Empty
<1>6. judged' \in [Processes -> Files] /\ \A p \in Processes \ {d} : judged'[p] = judged[p]
  BY DEF RendezvousInv, TypeOK, Files, NoFile
<1>7. pc'[d] = "call" => Called(judged[d])'
  BY DEF RendezvousInv, TypeOK, JudgementsHold, OwnerKnows, Called, Past, Answers, Ended, Processes, Files
<1>8. pc'[d] = "remove" => Condemned(judged[d])'
  BY DEF RendezvousInv, TypeOK, JudgementsHold, OwnerKnows, Condemned, Called, Past, Answers, Ended, Processes, Files, NoFile
<1> QED
  BY <1>1, <1>5, <1>6, <1>7, <1>8, ServeTurn DEF RendezvousInv, TypeOK

LEMMA ServeLoadsKeeps ==
    ASSUME RendezvousInv, NEW d \in Daemons, ServeLoads(d)
    PROVE  RendezvousInv'
<1> USE DEF ServeLoads, Goto, Exit, ServeOnly, Quietly, Judge
<1>1. Progress
  BY DEF Progress, Past, Answers, Ended, RendezvousInv, TypeOK, ServeSteps
<1>2. OneRuntime'
  BY NoOneAssumption DEF OneRuntime, RendezvousInv, TypeOK, Working
<1>3. Published'
  BY DEF Published, Marker, Record, Empty, NoFile, RendezvousInv, TypeOK
<1>4. OwnerKnows'
  BY NoOneAssumption DEF OwnerKnows, RendezvousInv, TypeOK, Files, Marker, Record, Empty, NoFile
<1>5. ServeInv'
  BY <1>2, <1>3, <1>4 DEF ServeInv, RendezvousInv, TypeOK, ServeSteps, Ended, Files, NoFile, Marker, Record, Empty
<1>6. judged' \in [Processes -> Files] /\ \A p \in Processes \ {d} : judged'[p] = judged[p]
  BY DEF RendezvousInv, TypeOK, Files, NoFile
<1>7. pc'[d] = "call" => Called(judged[d])'
  <2> SUFFICES ASSUME pc'[d] = "call" PROVE Called(judged[d])'
    OBVIOUS
  <2>1. judged'[d] = file /\ file.kind = "record" /\ file.owner \in Daemons
    BY DEF RendezvousInv, TypeOK, Processes, Files, NoFile
  <2>2. pc[file.owner] \in {"serving", "withdraw", "withdrawing", "killed"}
    BY <2>1 DEF RendezvousInv, OwnerKnows
  <2>3. pc'[file.owner] = pc[file.owner]
    BY <2>1, <2>2 DEF RendezvousInv, TypeOK
  <2> QED
    BY <2>1, <2>2, <2>3 DEF Called, Past, Answers, Ended
<1>8. pc'[d] = "remove" => Condemned(judged[d])'
  BY DEF RendezvousInv, TypeOK, JudgementsHold, OwnerKnows, Condemned, Called, Past, Answers, Ended, Processes, Files, NoFile
<1> QED
  BY <1>1, <1>5, <1>6, <1>7, <1>8, ServeTurn DEF RendezvousInv, TypeOK

LEMMA ServeRecoversKeeps ==
    ASSUME RendezvousInv, NEW d \in Daemons, ServeRecovers(d)
    PROVE  RendezvousInv'
<1> USE DEF ServeRecovers, Goto, Exit, ServeOnly, Quietly, Judge, Recoverable, Alive
<1>1. Progress
  BY DEF Progress, Past, Answers, Ended, RendezvousInv, TypeOK, ServeSteps
<1>2. OneRuntime'
  BY NoOneAssumption DEF OneRuntime, RendezvousInv, TypeOK, Working
<1>3. Published'
  BY DEF Published, Marker, Record, Empty, NoFile, RendezvousInv, TypeOK
<1>4. OwnerKnows'
  BY NoOneAssumption DEF OwnerKnows, RendezvousInv, TypeOK, Files, Marker, Record, Empty, NoFile
<1>5. ServeInv'
  BY <1>2, <1>3, <1>4 DEF ServeInv, RendezvousInv, TypeOK, ServeSteps, Ended, Files, NoFile, Marker, Record, Empty
<1>6. judged' \in [Processes -> Files] /\ \A p \in Processes \ {d} : judged'[p] = judged[p]
  BY DEF RendezvousInv, TypeOK, Files, NoFile
<1>7. pc'[d] = "call" => Called(judged[d])'
  BY DEF RendezvousInv, TypeOK, JudgementsHold, OwnerKnows, Called, Past, Answers, Ended, Processes, Files
<1>8. pc'[d] = "remove" => Condemned(judged[d])'
  BY DEF RendezvousInv, TypeOK, JudgementsHold, OwnerKnows, Condemned, Called, Past, Answers, Ended, Processes, Files, NoFile
<1> QED
  BY <1>1, <1>5, <1>6, <1>7, <1>8, ServeTurn DEF RendezvousInv, TypeOK

LEMMA ServeCallsKeeps ==
    ASSUME RendezvousInv, NEW d \in Daemons, NEW stale \in BOOLEAN, ServeCalls(d, stale)
    PROVE  RendezvousInv'
<1> USE DEF ServeCalls, Goto, Exit, ServeOnly, Quietly, Forget, GivesUp
<1>1. Progress
  BY DEF Progress, Past, Answers, Ended, RendezvousInv, TypeOK, ServeSteps
<1>2. OneRuntime'
  BY NoOneAssumption DEF OneRuntime, RendezvousInv, TypeOK, Working
<1>3. Published'
  BY DEF Published, Marker, Record, Empty, NoFile, RendezvousInv, TypeOK
<1>4. OwnerKnows'
  BY NoOneAssumption DEF OwnerKnows, RendezvousInv, TypeOK, Files, Marker, Record, Empty, NoFile
<1>5. ServeInv'
  BY <1>2, <1>3, <1>4 DEF ServeInv, RendezvousInv, TypeOK, ServeSteps, Ended, Files, NoFile, Marker, Record, Empty
<1>6. judged' \in [Processes -> Files] /\ \A p \in Processes \ {d} : judged'[p] = judged[p]
  BY DEF RendezvousInv, TypeOK, Files, NoFile
<1>7. pc'[d] = "call" => Called(judged[d])'
  BY DEF RendezvousInv, TypeOK, JudgementsHold, OwnerKnows, Called, Past, Answers, Ended, Processes, Files
<1>8. pc'[d] = "remove" => Condemned(judged[d])'
  BY DEF RendezvousInv, TypeOK, JudgementsHold, OwnerKnows, Condemned, Called, Past, Answers, Ended, Processes, Files, NoFile
<1> QED
  BY <1>1, <1>5, <1>6, <1>7, <1>8, ServeTurn DEF RendezvousInv, TypeOK

LEMMA ServeRemovesKeeps ==
    ASSUME RendezvousInv, NEW d \in Daemons, ServeRemoves(d)
    PROVE  RendezvousInv'
<1> USE DEF ServeRemoves, Goto, Exit, ServeOnly, Unlink, RemoveFails, Forget
<1>1. Progress
  BY DEF Progress, Past, Answers, Ended, RendezvousInv, TypeOK, ServeSteps
<1>2. OneRuntime'
  BY NoOneAssumption DEF OneRuntime, RendezvousInv, TypeOK, Working
<1>3. Published'
  <2> PICK f \in Files : f = judged[d]
    BY DEF RendezvousInv, TypeOK, Processes
  <2>1. Condemned(f)
    BY DEF RendezvousInv, JudgementsHold
  <2>2. CASE Unlink(f)
    BY <2>1, <2>2, UnlinkKeepsPublished DEF RendezvousInv, TypeOK
  <2>3. CASE RemoveFails
    BY <2>3 DEF RendezvousInv, TypeOK, Published
  <2> QED
    BY <2>2, <2>3
<1>4. OwnerKnows'
  BY NoOneAssumption DEF OwnerKnows, RendezvousInv, TypeOK, Files, Marker, Record, Empty, NoFile, Held, Alive, Ended
<1>5. ServeInv'
  BY <1>2, <1>3, <1>4, Zenon DEF ServeInv, RendezvousInv, TypeOK, ServeSteps, Ended, Files, NoFile, Marker, Record, Empty
<1>6. judged' \in [Processes -> Files] /\ \A p \in Processes \ {d} : judged'[p] = judged[p]
  BY Zenon DEF RendezvousInv, TypeOK, Files, NoFile
<1>7. pc'[d] = "call" => Called(judged[d])'
  BY DEF RendezvousInv, TypeOK, JudgementsHold, OwnerKnows, Called, Past, Answers, Ended, Processes, Files
<1>8. pc'[d] = "remove" => Condemned(judged[d])'
  BY DEF RendezvousInv, TypeOK, JudgementsHold, OwnerKnows, Condemned, Called, Past, Answers, Ended, Processes, Files, NoFile
<1> QED
  BY <1>1, <1>5, <1>6, <1>7, <1>8, ServeTurn DEF RendezvousInv, TypeOK

LEMMA AcquireProbeKeeps ==
    ASSUME RendezvousInv, NEW d \in Daemons, AcquireProbe(d)
    PROVE  RendezvousInv'
<1> USE DEF AcquireProbe, Goto, Exit, ServeOnly, Quietly
<1>1. Progress
  BY DEF Progress, Past, Answers, Ended, RendezvousInv, TypeOK, ServeSteps
<1>2. OneRuntime'
  BY NoOneAssumption DEF OneRuntime, RendezvousInv, TypeOK, Working
<1>3. Published'
  BY DEF Published, Marker, Record, Empty, NoFile, RendezvousInv, TypeOK
<1>4. OwnerKnows'
  BY NoOneAssumption DEF OwnerKnows, RendezvousInv, TypeOK, Files, Marker, Record, Empty, NoFile
<1>5. ServeInv'
  BY <1>2, <1>3, <1>4 DEF ServeInv, RendezvousInv, TypeOK, ServeSteps, Ended, Files, NoFile, Marker, Record, Empty
<1>6. judged' \in [Processes -> Files] /\ \A p \in Processes \ {d} : judged'[p] = judged[p]
  BY DEF RendezvousInv, TypeOK, Files, NoFile
<1>7. pc'[d] = "call" => Called(judged[d])'
  BY DEF RendezvousInv, TypeOK, JudgementsHold, OwnerKnows, Called, Past, Answers, Ended, Processes, Files
<1>8. pc'[d] = "remove" => Condemned(judged[d])'
  BY SMTT(30) DEF RendezvousInv, TypeOK, JudgementsHold, OwnerKnows, Condemned, Called, Past, Answers, Ended, Processes, Files, NoFile
<1> QED
  BY <1>1, <1>5, <1>6, <1>7, <1>8, ServeTurn DEF RendezvousInv, TypeOK

LEMMA OpenSessionKeeps ==
    ASSUME RendezvousInv, NEW d \in Daemons, NEW opened \in BOOLEAN, OpenSession(d, opened)
    PROVE  RendezvousInv'
<1> USE DEF OpenSession, Released, Goto, Exit, ServeOnly, Quietly
<1>1. Progress
  BY DEF Progress, Past, Answers, Ended, RendezvousInv, TypeOK, ServeSteps
<1>2. OneRuntime'
  BY NoOneAssumption DEF OneRuntime, RendezvousInv, TypeOK, Working
<1>3. Published'
  BY DEF Published, Marker, Record, Empty, NoFile, RendezvousInv, TypeOK
<1>4. OwnerKnows'
  BY NoOneAssumption DEF OwnerKnows, RendezvousInv, TypeOK, Files, Marker, Record, Empty, NoFile
<1>5. ServeInv'
  BY <1>2, <1>3, <1>4 DEF ServeInv, RendezvousInv, TypeOK, ServeSteps, Ended, Files, NoFile, Marker, Record, Empty
<1>6. judged' \in [Processes -> Files] /\ \A p \in Processes \ {d} : judged'[p] = judged[p]
  BY DEF RendezvousInv, TypeOK, Files, NoFile
<1>7. pc'[d] = "call" => Called(judged[d])'
  BY DEF RendezvousInv, TypeOK, JudgementsHold, OwnerKnows, Called, Past, Answers, Ended, Processes, Files
<1>8. pc'[d] = "remove" => Condemned(judged[d])'
  BY DEF RendezvousInv, TypeOK, JudgementsHold, OwnerKnows, Condemned, Called, Past, Answers, Ended, Processes, Files, NoFile
<1> QED
  BY <1>1, <1>5, <1>6, <1>7, <1>8, ServeTurn DEF RendezvousInv, TypeOK

LEMMA CheckCommitKeeps ==
    ASSUME RendezvousInv, NEW d \in Daemons, CheckCommit(d)
    PROVE  RendezvousInv'
<1> USE DEF CheckCommit, Goto, Exit, ServeOnly, Quietly, CommitFails
<1>1. Progress
  BY DEF Progress, Past, Answers, Ended, RendezvousInv, TypeOK, ServeSteps
<1>2. OneRuntime'
  BY NoOneAssumption DEF OneRuntime, RendezvousInv, TypeOK, Working
<1>3. Published'
  BY DEF Published, Marker, Record, Empty, NoFile, RendezvousInv, TypeOK
<1>4. OwnerKnows'
  BY NoOneAssumption DEF OwnerKnows, RendezvousInv, TypeOK, Files, Marker, Record, Empty, NoFile
<1>5. ServeInv'
  BY <1>2, <1>3, <1>4 DEF ServeInv, RendezvousInv, TypeOK, ServeSteps, Ended, Files, NoFile, Marker, Record, Empty
<1>6. judged' \in [Processes -> Files] /\ \A p \in Processes \ {d} : judged'[p] = judged[p]
  BY DEF RendezvousInv, TypeOK, Files, NoFile
<1>7. pc'[d] = "call" => Called(judged[d])'
  BY DEF RendezvousInv, TypeOK, JudgementsHold, OwnerKnows, Called, Past, Answers, Ended, Processes, Files
<1>8. pc'[d] = "remove" => Condemned(judged[d])'
  BY DEF RendezvousInv, TypeOK, JudgementsHold, OwnerKnows, Condemned, Called, Past, Answers, Ended, Processes, Files, NoFile
<1> QED
  BY <1>1, <1>5, <1>6, <1>7, <1>8, ServeTurn DEF RendezvousInv, TypeOK

LEMMA ReplaceKeeps ==
    ASSUME RendezvousInv, NEW d \in Daemons, Replace(d)
    PROVE  RendezvousInv'
<1> USE DEF Replace, Goto, Exit, ServeOnly, Quietly, CommitFails
<1>1. Progress
  BY DEF Progress, Past, Answers, Ended, RendezvousInv, TypeOK, ServeSteps
<1>2. OneRuntime'
  BY NoOneAssumption DEF OneRuntime, RendezvousInv, TypeOK, Working
<1>3. Published'
  BY DEF Published, Marker, Record, Empty, NoFile, RendezvousInv, TypeOK
<1>4. OwnerKnows'
  BY NoOneAssumption DEF OwnerKnows, RendezvousInv, TypeOK, Files, Marker, Record, Empty, NoFile, Published, Held, Alive, Ended
<1>5. ServeInv'
  BY <1>2, <1>3, <1>4 DEF ServeInv, RendezvousInv, TypeOK, ServeSteps, Ended, Files, NoFile, Marker, Record, Empty
<1>6. judged' \in [Processes -> Files] /\ \A p \in Processes \ {d} : judged'[p] = judged[p]
  BY DEF RendezvousInv, TypeOK, Files, NoFile
<1>7. pc'[d] = "call" => Called(judged[d])'
  BY DEF RendezvousInv, TypeOK, JudgementsHold, OwnerKnows, Called, Past, Answers, Ended, Processes, Files
<1>8. pc'[d] = "remove" => Condemned(judged[d])'
  BY DEF RendezvousInv, TypeOK, JudgementsHold, OwnerKnows, Condemned, Called, Past, Answers, Ended, Processes, Files, NoFile
<1> QED
  BY <1>1, <1>5, <1>6, <1>7, <1>8, ServeTurn DEF RendezvousInv, TypeOK

LEMMA StopServingKeeps ==
    ASSUME RendezvousInv, NEW d \in Daemons, StopServing(d)
    PROVE  RendezvousInv'
<1> USE DEF StopServing, Goto, Exit, ServeOnly, Quietly
<1>1. Progress
  BY DEF Progress, Past, Answers, Ended, RendezvousInv, TypeOK, ServeSteps
<1>2. OneRuntime'
  BY NoOneAssumption DEF OneRuntime, RendezvousInv, TypeOK, Working
<1>3. Published'
  BY DEF Published, Marker, Record, Empty, NoFile, RendezvousInv, TypeOK
<1>4. OwnerKnows'
  BY NoOneAssumption DEF OwnerKnows, RendezvousInv, TypeOK, Files, Marker, Record, Empty, NoFile
<1>5. ServeInv'
  BY <1>2, <1>3, <1>4 DEF ServeInv, RendezvousInv, TypeOK, ServeSteps, Ended, Files, NoFile, Marker, Record, Empty
<1>6. judged' \in [Processes -> Files] /\ \A p \in Processes \ {d} : judged'[p] = judged[p]
  BY DEF RendezvousInv, TypeOK, Files, NoFile
<1>7. pc'[d] = "call" => Called(judged[d])'
  BY DEF RendezvousInv, TypeOK, JudgementsHold, OwnerKnows, Called, Past, Answers, Ended, Processes, Files
<1>8. pc'[d] = "remove" => Condemned(judged[d])'
  BY DEF RendezvousInv, TypeOK, JudgementsHold, OwnerKnows, Condemned, Called, Past, Answers, Ended, Processes, Files, NoFile
<1> QED
  BY <1>1, <1>5, <1>6, <1>7, <1>8, ServeTurn DEF RendezvousInv, TypeOK

LEMMA CheckWithdrawKeeps ==
    ASSUME RendezvousInv, NEW d \in Daemons, CheckWithdraw(d)
    PROVE  RendezvousInv'
<1> USE DEF CheckWithdraw, Goto, Exit, ServeOnly, Quietly
<1>1. Progress
  BY DEF Progress, Past, Answers, Ended, RendezvousInv, TypeOK, ServeSteps
<1>2. OneRuntime'
  BY NoOneAssumption DEF OneRuntime, RendezvousInv, TypeOK, Working
<1>3. Published'
  BY DEF Published, Marker, Record, Empty, NoFile, RendezvousInv, TypeOK
<1>4. OwnerKnows'
  BY NoOneAssumption DEF OwnerKnows, RendezvousInv, TypeOK, Files, Marker, Record, Empty, NoFile
<1>5. ServeInv'
  BY <1>2, <1>3, <1>4 DEF ServeInv, RendezvousInv, TypeOK, ServeSteps, Ended, Files, NoFile, Marker, Record, Empty
<1>6. judged' \in [Processes -> Files] /\ \A p \in Processes \ {d} : judged'[p] = judged[p]
  BY DEF RendezvousInv, TypeOK, Files, NoFile
<1>7. pc'[d] = "call" => Called(judged[d])'
  BY DEF RendezvousInv, TypeOK, JudgementsHold, OwnerKnows, Called, Past, Answers, Ended, Processes, Files
<1>8. pc'[d] = "remove" => Condemned(judged[d])'
  BY DEF RendezvousInv, TypeOK, JudgementsHold, OwnerKnows, Condemned, Called, Past, Answers, Ended, Processes, Files, NoFile
<1> QED
  BY <1>1, <1>5, <1>6, <1>7, <1>8, ServeTurn DEF RendezvousInv, TypeOK

LEMMA WithdrawKeeps ==
    ASSUME RendezvousInv, NEW d \in Daemons, Withdraw(d)
    PROVE  RendezvousInv'
<1> USE DEF Withdraw, Goto, Exit, ServeOnly, Unlink, RemoveFails
<1>1. Progress
  BY DEF Progress, Past, Answers, Ended, RendezvousInv, TypeOK, ServeSteps
<1>2. OneRuntime'
  BY NoOneAssumption DEF OneRuntime, RendezvousInv, TypeOK, Working
<1>3. Published'
  <2>1. Record(d) \in Files /\ Condemned(Record(d))
    BY NoOneAssumption DEF Record, Files, Condemned, NoFile, Past
  <2>2. CASE Unlink(Record(d))
    BY <2>1, <2>2, UnlinkKeepsPublished DEF RendezvousInv, TypeOK, Past
  <2>3. CASE RemoveFails
    BY <2>3 DEF RendezvousInv, TypeOK, Published
  <2> QED
    BY <2>2, <2>3
<1>4. OwnerKnows'
  BY NoOneAssumption DEF OwnerKnows, RendezvousInv, TypeOK, Files, Marker, Record, Empty, NoFile, Held, Alive, Ended
<1>5. ServeInv'
  BY <1>2, <1>3, <1>4, Zenon DEF ServeInv, RendezvousInv, TypeOK, ServeSteps, Ended, Files, NoFile, Marker, Record, Empty
<1>6. judged' \in [Processes -> Files] /\ \A p \in Processes \ {d} : judged'[p] = judged[p]
  BY DEF RendezvousInv, TypeOK, Files, NoFile
<1>7. pc'[d] = "call" => Called(judged[d])'
  BY DEF RendezvousInv, TypeOK, JudgementsHold, OwnerKnows, Called, Past, Answers, Ended, Processes, Files
<1>8. pc'[d] = "remove" => Condemned(judged[d])'
  BY DEF RendezvousInv, TypeOK, JudgementsHold, OwnerKnows, Condemned, Called, Past, Answers, Ended, Processes, Files, NoFile
<1> QED
  BY <1>1, <1>5, <1>6, <1>7, <1>8, ServeTurn DEF RendezvousInv, TypeOK

LEMMA RuntimeEndsKeeps ==
    ASSUME RendezvousInv, NEW d \in Daemons, RuntimeEnds(d)
    PROVE  RendezvousInv'
<1> USE DEF RuntimeEnds, Goto, Exit, ServeOnly, Quietly
<1>1. Progress
  BY DEF Progress, Past, Answers, Ended, RendezvousInv, TypeOK, ServeSteps
<1>2. OneRuntime'
  BY NoOneAssumption DEF OneRuntime, RendezvousInv, TypeOK, Working
<1>3. Published'
  BY DEF Published, Marker, Record, Empty, NoFile, RendezvousInv, TypeOK
<1>4. OwnerKnows'
  BY NoOneAssumption DEF OwnerKnows, RendezvousInv, TypeOK, Files, Marker, Record, Empty, NoFile
<1>5. ServeInv'
  BY <1>2, <1>3, <1>4 DEF ServeInv, RendezvousInv, TypeOK, ServeSteps, Ended, Files, NoFile, Marker, Record, Empty
<1>6. judged' \in [Processes -> Files] /\ \A p \in Processes \ {d} : judged'[p] = judged[p]
  BY DEF RendezvousInv, TypeOK, Files, NoFile
<1>7. pc'[d] = "call" => Called(judged[d])'
  BY DEF RendezvousInv, TypeOK, JudgementsHold, OwnerKnows, Called, Past, Answers, Ended, Processes, Files
<1>8. pc'[d] = "remove" => Condemned(judged[d])'
  BY SMTT(30) DEF RendezvousInv, TypeOK, JudgementsHold, OwnerKnows, Condemned, Called, Past, Answers, Ended, Processes, Files, NoFile
<1> QED
  BY <1>1, <1>5, <1>6, <1>7, <1>8, ServeTurn DEF RendezvousInv, TypeOK

LEMMA ReleaseProbeKeeps ==
    ASSUME RendezvousInv, NEW d \in Daemons, ReleaseProbe(d)
    PROVE  RendezvousInv'
<1> USE DEF ReleaseProbe, Goto, Exit, ServeOnly, Quietly
<1>1. Progress
  BY DEF Progress, Past, Answers, Ended, RendezvousInv, TypeOK, ServeSteps
<1>2. OneRuntime'
  BY NoOneAssumption DEF OneRuntime, RendezvousInv, TypeOK, Working
<1>3. Published'
  BY DEF Published, Marker, Record, Empty, NoFile, RendezvousInv, TypeOK
<1>4. OwnerKnows'
  BY NoOneAssumption DEF OwnerKnows, RendezvousInv, TypeOK, Files, Marker, Record, Empty, NoFile
<1>5. ServeInv'
  BY <1>2, <1>3, <1>4 DEF ServeInv, RendezvousInv, TypeOK, ServeSteps, Ended, Files, NoFile, Marker, Record, Empty
<1>6. judged' \in [Processes -> Files] /\ \A p \in Processes \ {d} : judged'[p] = judged[p]
  BY DEF RendezvousInv, TypeOK, Files, NoFile
<1>7. pc'[d] = "call" => Called(judged[d])'
  BY SMTT(30) DEF RendezvousInv, TypeOK, JudgementsHold, OwnerKnows, Called, Past, Answers, Ended, Processes, Files
<1>8. pc'[d] = "remove" => Condemned(judged[d])'
  BY DEF RendezvousInv, TypeOK, JudgementsHold, OwnerKnows, Condemned, Called, Past, Answers, Ended, Processes, Files, NoFile
<1> QED
  BY <1>1, <1>5, <1>6, <1>7, <1>8, ServeTurn DEF RendezvousInv, TypeOK

LEMMA CloseRuntimeKeeps ==
    ASSUME RendezvousInv, NEW d \in Daemons, CloseRuntime(d)
    PROVE  RendezvousInv'
<1> USE DEF CloseRuntime, Goto, Exit, ServeOnly, Quietly
<1>1. Progress
  BY DEF Progress, Past, Answers, Ended, RendezvousInv, TypeOK, ServeSteps
<1>2. OneRuntime'
  BY NoOneAssumption DEF OneRuntime, RendezvousInv, TypeOK, Working
<1>3. Published'
  BY DEF Published, Marker, Record, Empty, NoFile, RendezvousInv, TypeOK
<1>4. OwnerKnows'
  BY NoOneAssumption, SMTT(60) DEF OwnerKnows, RendezvousInv, TypeOK, Files, Marker, Record, Empty, NoFile
<1>5. ServeInv'
  BY <1>2, <1>3, <1>4 DEF ServeInv, RendezvousInv, TypeOK, ServeSteps, Ended, Files, NoFile, Marker, Record, Empty
<1>6. judged' \in [Processes -> Files] /\ \A p \in Processes \ {d} : judged'[p] = judged[p]
  BY DEF RendezvousInv, TypeOK, Files, NoFile
<1>7. pc'[d] = "call" => Called(judged[d])'
  BY DEF RendezvousInv, TypeOK, JudgementsHold, OwnerKnows, Called, Past, Answers, Ended, Processes, Files
<1>8. pc'[d] = "remove" => Condemned(judged[d])'
  BY SMTT(30) DEF RendezvousInv, TypeOK, JudgementsHold, OwnerKnows, Condemned, Called, Past, Answers, Ended, Processes, Files, NoFile
<1> QED
  BY <1>1, <1>5, <1>6, <1>7, <1>8, ServeTurn DEF RendezvousInv, TypeOK

LEMMA CheckCancelKeeps ==
    ASSUME RendezvousInv, NEW d \in Daemons, CheckCancel(d)
    PROVE  RendezvousInv'
<1> USE DEF CheckCancel, Released, Goto, Exit, ServeOnly, Quietly
<1>1. Progress
  BY DEF Progress, Past, Answers, Ended, RendezvousInv, TypeOK, ServeSteps
<1>2. OneRuntime'
  BY NoOneAssumption DEF OneRuntime, RendezvousInv, TypeOK, Working
<1>3. Published'
  BY DEF Published, Marker, Record, Empty, NoFile, RendezvousInv, TypeOK
<1>4. OwnerKnows'
  BY NoOneAssumption, SMTT(60) DEF OwnerKnows, RendezvousInv, TypeOK, Files, Marker, Record, Empty, NoFile
<1>5. ServeInv'
  BY <1>2, <1>3, <1>4 DEF ServeInv, RendezvousInv, TypeOK, ServeSteps, Ended, Files, NoFile, Marker, Record, Empty
<1>6. judged' \in [Processes -> Files] /\ \A p \in Processes \ {d} : judged'[p] = judged[p]
  BY DEF RendezvousInv, TypeOK, Files, NoFile
<1>7. pc'[d] = "call" => Called(judged[d])'
  BY SMTT(30) DEF RendezvousInv, TypeOK, JudgementsHold, OwnerKnows, Called, Past, Answers, Ended, Processes, Files
<1>8. pc'[d] = "remove" => Condemned(judged[d])'
  BY SMTT(30) DEF RendezvousInv, TypeOK, JudgementsHold, OwnerKnows, Condemned, Called, Past, Answers, Ended, Processes, Files, NoFile
<1> QED
  BY <1>1, <1>5, <1>6, <1>7, <1>8, ServeTurn DEF RendezvousInv, TypeOK

LEMMA CancelKeeps ==
    ASSUME RendezvousInv, NEW d \in Daemons, Cancel(d)
    PROVE  RendezvousInv'
<1> USE DEF Cancel, Released, Goto, Exit, ServeOnly, Unlink, RemoveFails
<1>1. Progress
  BY DEF Progress, Past, Answers, Ended, RendezvousInv, TypeOK, ServeSteps
<1>2. OneRuntime'
  BY NoOneAssumption DEF OneRuntime, RendezvousInv, TypeOK, Working
<1>3. Published'
  <2>1. Marker(d) \in Files /\ Condemned(Marker(d))
    BY NoOneAssumption DEF Marker, Files, Condemned, NoFile, Past
  <2>2. CASE Unlink(Marker(d))
    BY <2>1, <2>2, UnlinkKeepsPublished DEF RendezvousInv, TypeOK, Past, Ended
  <2>3. CASE RemoveFails
    BY <2>3 DEF RendezvousInv, TypeOK, Published
  <2> QED
    BY <2>2, <2>3
<1>4. OwnerKnows'
  BY NoOneAssumption, SMTT(60) DEF OwnerKnows, RendezvousInv, TypeOK, Files, Marker, Record, Empty, NoFile, Held, Alive, Ended
<1>5. ServeInv'
  BY <1>2, <1>3, <1>4, Zenon DEF ServeInv, RendezvousInv, TypeOK, ServeSteps, Ended, Files, NoFile, Marker, Record, Empty
<1>6. judged' \in [Processes -> Files] /\ \A p \in Processes \ {d} : judged'[p] = judged[p]
  BY DEF RendezvousInv, TypeOK, Files, NoFile
<1>7. pc'[d] = "call" => Called(judged[d])'
  BY SMTT(30) DEF RendezvousInv, TypeOK, JudgementsHold, OwnerKnows, Called, Past, Answers, Ended, Processes, Files
<1>8. pc'[d] = "remove" => Condemned(judged[d])'
  BY DEF RendezvousInv, TypeOK, JudgementsHold, OwnerKnows, Condemned, Called, Past, Answers, Ended, Processes, Files, NoFile
<1> QED
  BY <1>1, <1>5, <1>6, <1>7, <1>8, ServeTurn DEF RendezvousInv, TypeOK

LEMMA CrashKeeps ==
    ASSUME RendezvousInv, NEW d \in Daemons, Crash(d)
    PROVE  RendezvousInv'
<1>1. ServeInv' /\ Progress
  BY KillKeeps DEF Crash, Quietly, ServeInv, RendezvousInv, TypeOK
<1> QED
  BY <1>1, ServeTurn DEF Crash, Kill, Alive, Quietly, RendezvousInv, TypeOK

-----------------------------------------------------------------------------
(* Ensure commands.                                                         *)

(* A new state for one ensure command.                                      *)
LEMMA SetTyped ==
    ASSUME TypeOK, NEW e \in Ensurers, NEW state \in Ensure, Set(e, state)
    PROVE  /\ ensure' \in [Ensurers -> Ensure]
           /\ ensure'[e] = state
           /\ \A f \in Ensurers \ {e} : ensure'[f] = ensure[f]
BY DEF TypeOK, Set

(* The states the steps of an ensure command lead to.                       *)
LEMMA NewStates ==
    ASSUME TypeOK, NEW e \in Ensurers, NEW step \in EnsureSteps, NEW why \in Outcomes,
           NEW b \in BOOLEAN, NEW c \in BOOLEAN
    PROVE  /\ [ensure[e] EXCEPT !.step = step] \in Ensure
           /\ [ensure[e] EXCEPT !.step = step, !.outcome = why] \in Ensure
           /\ [ensure[e] EXCEPT !.step = step, !.other = b] \in Ensure
           /\ [ensure[e] EXCEPT !.step = step, !.launched = b] \in Ensure
           /\ [ensure[e] EXCEPT !.step = step, !.other = b, !.childExit = c] \in Ensure
BY ZenonT(30) DEF TypeOK, Ensure

(* A failing command kills its child.                                       *)
LEMMA FailKeeps ==
    ASSUME RendezvousInv, NEW e \in Ensurers, NEW why \in Outcomes, Fail(e, why),
           UNCHANGED <<file, disturbed>>,
           judged' \in [Processes -> Files],
           \A p \in Processes \ {e} : judged'[p] = judged[p]
    PROVE  RendezvousInv'
<1>1. /\ ensure' \in [Ensurers -> Ensure]
      /\ ensure'[e] = [ensure[e] EXCEPT !.step = "done", !.outcome = why]
      /\ \A f \in Ensurers \ {e} : ensure'[f] = ensure[f]
  BY SetTyped, NewStates, ZenonT(30) DEF Fail, EnsureSteps, RendezvousInv
<1>2. ensure'[e].step = "done" /\ ensure'[e].launched = ensure[e].launched
  BY <1>1 DEF RendezvousInv, TypeOK, Ensure
<1>3. ServeInv' /\ Progress
  <2>1. CASE ensure[e].launched
    BY <2>1, KillKeeps, ChildAssumption DEF Fail, ServeInv, RendezvousInv, TypeOK
  <2>2. CASE ~ensure[e].launched
    BY <2>2 DEF Fail, ServeInv, RendezvousInv, TypeOK, Progress, OneRuntime, Published,
                OwnerKnows, Past, Answers
  <2> QED
    BY <2>1, <2>2
<1>4. /\ \A d \in Daemons : pc'[d] \in {pc[d], "killed"}
      /\ \A f \in Ensurers : pc[Child[f]] = "off" => pc'[Child[f]] = "off"
  BY ChildAssumption, SMTT(30) DEF Fail, Kill, Alive, RendezvousInv, TypeOK
<1> QED
  BY <1>1, <1>2, <1>3, <1>4, EnsureTurn, Zenon DEF Fail

(* Any other step short of a launch or a removal.                           *)
LEMMA StepKeeps ==
    ASSUME RendezvousInv, NEW e \in Ensurers, NEW state \in Ensure, Set(e, state), EnsureOnly,
           UNCHANGED file, disturbed => disturbed', disturbed' \in BOOLEAN,
           judged' \in [Processes -> Files],
           \A p \in Processes \ {e} : judged'[p] = judged[p],
           state.launched = ensure[e].launched,
           state.step = "launch" => ~state.launched,
           state.step = "call" => Called(judged[e])',
           state.step \in {"reclaim", "remove"} => Condemned(judged[e])'
    PROVE  RendezvousInv'
<1>1. /\ ensure' \in [Ensurers -> Ensure]
      /\ ensure'[e] = state
      /\ \A f \in Ensurers \ {e} : ensure'[f] = ensure[f]
  BY SetTyped DEF RendezvousInv
<1>2. ServeInv' /\ Progress
  BY SMTT(30) DEF EnsureOnly, ServeInv, RendezvousInv, TypeOK, Progress, OneRuntime, Published,
         OwnerKnows, Past, Answers
<1> QED
  BY <1>1, <1>2, EnsureTurn, SMTT(30) DEF EnsureOnly

(* A removal.                                                               *)
LEMMA RemovalKeeps ==
    ASSUME RendezvousInv, NEW e \in Ensurers, NEW state \in Ensure, Set(e, state), EnsureOnly,
           ensure[e].step \in {"reclaim", "remove"}, Unlink(judged[e]), Forget(e),
           state.launched = ensure[e].launched,
           state.step \in {"probing", "waiting"}
    PROVE  RendezvousInv'
<1>1. /\ ensure' \in [Ensurers -> Ensure]
      /\ ensure'[e] = state
      /\ \A f \in Ensurers \ {e} : ensure'[f] = ensure[f]
  BY SetTyped DEF RendezvousInv
<1>2. Published'
  <2> PICK f \in Files : f = judged[e]
    BY SMTT(30) DEF RendezvousInv, TypeOK, Processes
  <2>1. Condemned(f)
    BY SMTT(30) DEF RendezvousInv, JudgementsHold
  <2> QED
    BY <2>1, UnlinkKeepsPublished DEF EnsureOnly
<1>3. OneRuntime' /\ OwnerKnows' /\ Progress
  <2>1. OneRuntime' /\ Progress
    BY DEF EnsureOnly, RendezvousInv, OneRuntime, Progress, Past, Answers
  <2>2. OwnerKnows'
    BY NoOneAssumption DEF EnsureOnly, Unlink, Held, Alive, Ended, RendezvousInv, TypeOK, OwnerKnows,
         NoFile, Empty
  <2> QED
    BY <2>1, <2>2
<1>4. ServeInv'
  BY <1>2, <1>3 DEF ServeInv, EnsureOnly, Unlink, Files, RendezvousInv, TypeOK
<1>5. judged' \in [Processes -> Files] /\ \A p \in Processes \ {e} : judged'[p] = judged[p]
  BY Zenon DEF Forget, RendezvousInv, TypeOK, Files
<1> QED
  BY <1>1, <1>3, <1>4, <1>5, EnsureTurn, ZenonT(30) DEF EnsureOnly, Unlink

(* The state at the end of a turn of waitForLiveDaemon.                     *)
LEMMA TurnState ==
    ASSUME RendezvousInv, NEW e \in Ensurers, NEW other \in BOOLEAN, NextTurn(e, other)
    PROVE  \E state \in Ensure :
               /\ Set(e, state) /\ EnsureOnly
               /\ state.launched = ensure[e].launched
               /\ state.step \in {"probing", "waiting"}
<1>1. PICK seen \in BOOLEAN :
          Set(e, [ensure[e] EXCEPT
                    !.step = Back(e), !.other = other,
                    !.childExit = @ \/ (seen /\ ensure[e].launched /\ pc[Child[e]] \in Ended)])
  BY Zenon DEF NextTurn
<1> DEFINE exit == ensure[e].childExit \/ (seen /\ ensure[e].launched /\ pc[Child[e]] \in Ended)
           state == [ensure[e] EXCEPT !.step = Back(e), !.other = other, !.childExit = exit]
<1>2. Back(e) \in {"probing", "waiting"}
  BY DEF Back
<1>3. ensure[e] \in Ensure
  BY DEF RendezvousInv, TypeOK
<1>4. exit \in BOOLEAN
  BY <1>3 DEF Ensure
<1>5. state \in Ensure
  BY <1>2, <1>3, <1>4, ZenonT(30) DEF Ensure, EnsureSteps
<1>6. state.launched = ensure[e].launched /\ state.step = Back(e)
  BY <1>3 DEF Ensure
<1> QED
  BY <1>1, <1>2, <1>5, <1>6, ZenonT(30) DEF NextTurn

LEMMA TurnKeeps ==
    ASSUME RendezvousInv, NEW e \in Ensurers, NEW other \in BOOLEAN, NextTurn(e, other),
           UNCHANGED file, disturbed => disturbed', disturbed' \in BOOLEAN,
           judged' \in [Processes -> Files],
           \A p \in Processes \ {e} : judged'[p] = judged[p]
    PROVE  RendezvousInv'
<1> PICK state \in Ensure :
        /\ Set(e, state) /\ EnsureOnly
        /\ state.launched = ensure[e].launched
        /\ state.step \in {"probing", "waiting"}
  BY TurnState
<1> QED
  BY StepKeeps

(* A step that only moves the command on.                                   *)
LEMMA MoveKeeps ==
    ASSUME RendezvousInv, NEW e \in Ensurers, NEW step \in EnsureSteps,
           Set(e, [ensure[e] EXCEPT !.step = step]), EnsureOnly,
           UNCHANGED file, disturbed => disturbed', disturbed' \in BOOLEAN,
           judged' \in [Processes -> Files],
           \A p \in Processes \ {e} : judged'[p] = judged[p],
           step = "launch" => ~ensure[e].launched,
           step = "call" => Called(judged[e])',
           step \in {"reclaim", "remove"} => Condemned(judged[e])'
    PROVE  RendezvousInv'
<1>1. PICK state \in Ensure : state = [ensure[e] EXCEPT !.step = step]
  BY NewStates, Zenon DEF RendezvousInv, Outcomes
<1>2. state.launched = ensure[e].launched /\ state.step = step
  BY <1>1, SMTT(30) DEF RendezvousInv, TypeOK, Ensure
<1> QED
  BY <1>1, <1>2, StepKeeps, Zenon

LEMMA StartEnsureKeeps ==
    ASSUME RendezvousInv, NEW e \in Ensurers, StartEnsure(e)
    PROVE  RendezvousInv'
BY MoveKeeps, Zenon DEF StartEnsure, EnsureSteps, Quietly, RendezvousInv, TypeOK

LEMMA ExpireKeeps ==
    ASSUME RendezvousInv, NEW e \in Ensurers, Expire(e)
    PROVE  RendezvousInv'
BY FailKeeps DEF Expire, Outcomes, Quietly, RendezvousInv, TypeOK

LEMMA PollKeeps ==
    ASSUME RendezvousInv, NEW e \in Ensurers, Poll(e)
    PROVE  RendezvousInv'
<1>1. judged' \in [Processes -> Files] /\ \A p \in Processes \ {e} : judged'[p] = judged[p]
  BY DEF Poll, Judge, RendezvousInv, TypeOK
<1>2. UNCHANGED <<file, disturbed>> /\ disturbed' \in BOOLEAN
  BY DEF Poll, Quietly, RendezvousInv, TypeOK
<1>3. ASSUME NEW why \in Outcomes, Fail(e, why) PROVE RendezvousInv'
  BY <1>1, <1>2, <1>3, FailKeeps, SMTT(30)
<1>4. ASSUME NEW step \in {"launch", "recover"}, step = "launch" => ~ensure[e].launched,
             Set(e, [ensure[e] EXCEPT !.step = step]), EnsureOnly
      PROVE  RendezvousInv'
  BY <1>1, <1>2, <1>4, MoveKeeps, Zenon DEF EnsureSteps
<1>5. ASSUME NextTurn(e, ensure[e].other) PROVE RendezvousInv'
  <2>1. ensure[e].other \in BOOLEAN
    BY DEF RendezvousInv, TypeOK, Ensure
  <2> QED
    BY <1>1, <1>2, <1>5, <2>1, TurnKeeps
<1>6. ASSUME file.kind = "record", Set(e, [ensure[e] EXCEPT !.step = "call"]), EnsureOnly, Judge(e)
      PROVE  RendezvousInv'
  <2>1. judged'[e] = file
    BY <1>6 DEF Judge, RendezvousInv, TypeOK, Processes
  <2>2. Called(judged[e])'
    BY <1>6, <2>1 DEF Called, EnsureOnly, RendezvousInv, OwnerKnows, Past, Answers, Ended
  <2> QED
    BY <1>1, <1>2, <1>6, <2>2, MoveKeeps, Zenon DEF EnsureSteps
<1> QED
  BY <1>3, <1>4, <1>5, <1>6 DEF Poll, Outcomes

LEMMA EnsureRecoversKeeps ==
    ASSUME RendezvousInv, NEW e \in Ensurers, EnsureRecovers(e)
    PROVE  RendezvousInv'
<1>1. judged' \in [Processes -> Files] /\ \A p \in Processes \ {e} : judged'[p] = judged[p]
  BY Zenon DEF EnsureRecovers, Judge, RendezvousInv, TypeOK
<1>2. UNCHANGED <<file, disturbed>> /\ disturbed' \in BOOLEAN
  BY DEF EnsureRecovers, Quietly, RendezvousInv, TypeOK
<1>3. ASSUME NEW why \in Outcomes, Fail(e, why) PROVE RendezvousInv'
  BY <1>1, <1>2, <1>3, FailKeeps
<1>4. ASSUME NextTurn(e, TRUE) PROVE RendezvousInv'
  BY <1>1, <1>2, <1>4, TurnKeeps, Zenon
<1>5. ASSUME Recoverable(Wanted(e)), Set(e, [ensure[e] EXCEPT !.step = "reclaim"]), EnsureOnly,
             Judge(e)
      PROVE  RendezvousInv'
  <2>1. judged'[e] = file
    BY <1>5 DEF Judge, RendezvousInv, TypeOK, Processes
  <2>2. Condemned(judged[e])'
    BY <1>5, <2>1 DEF Condemned, Recoverable, Alive, EnsureOnly, RendezvousInv, OwnerKnows, Past,
                      Ended, NoFile
  <2> QED
    BY <1>1, <1>2, <1>5, <2>2, MoveKeeps, Zenon DEF EnsureSteps
<1> QED
  BY <1>3, <1>4, <1>5, Zenon DEF EnsureRecovers, Outcomes

LEMMA ReclaimKeeps ==
    ASSUME RendezvousInv, NEW e \in Ensurers, Reclaim(e)
    PROVE  RendezvousInv'
<1>1. CASE RemoveFails /\ Fail(e, "failed")
  BY <1>1, FailKeeps, Zenon DEF Reclaim, RemoveFails, Forget, Outcomes, RendezvousInv, TypeOK, Files
<1>2. CASE /\ Unlink(judged[e])
           /\ Set(e, [ensure[e] EXCEPT !.step = Back(e), !.other = FALSE]) /\ EnsureOnly
  <2>1. Back(e) \in {"probing", "waiting"}
    BY DEF Back
  <2>2. PICK state \in Ensure : state = [ensure[e] EXCEPT !.step = Back(e), !.other = FALSE]
    BY <2>1, NewStates, Zenon DEF RendezvousInv, EnsureSteps, Outcomes
  <2>3. state.launched = ensure[e].launched /\ state.step = Back(e)
    BY <2>2 DEF RendezvousInv, TypeOK, Ensure
  <2> QED
    BY <1>2, <2>1, <2>2, <2>3, RemovalKeeps, Zenon DEF Reclaim
<1> QED
  BY <1>1, <1>2 DEF Reclaim

LEMMA RemoveStaleKeeps ==
    ASSUME RendezvousInv, NEW e \in Ensurers, RemoveStale(e)
    PROVE  RendezvousInv'
<1>1. CASE RemoveFails /\ Fail(e, "failed")
  BY <1>1, FailKeeps, Zenon DEF RemoveStale, RemoveFails, Forget, Outcomes, RendezvousInv, TypeOK, Files
<1>2. CASE Unlink(judged[e]) /\ NextTurn(e, ensure[e].other)
  <2>1. ensure[e].other \in BOOLEAN
    BY DEF RendezvousInv, TypeOK, Ensure
  <2> PICK state \in Ensure :
          /\ Set(e, state) /\ EnsureOnly
          /\ state.launched = ensure[e].launched
          /\ state.step \in {"probing", "waiting"}
    BY <1>2, <2>1, TurnState
  <2> QED
    BY <1>2, RemovalKeeps, Zenon DEF RemoveStale
<1> QED
  BY <1>1, <1>2, SMTT(30) DEF RemoveStale

LEMMA EnsureCallsKeeps ==
    ASSUME RendezvousInv, NEW e \in Ensurers, NEW answer \in {"status", "refusal", "stale"},
           EnsureCalls(e, answer)
    PROVE  RendezvousInv'
<1> DEFINE d == judged[e].owner
<1>1. /\ judged' \in [Processes -> Files]
      /\ \A p \in Processes \ {e} : judged'[p] = judged[p]
  BY DEF EnsureCalls, Forget, RendezvousInv, TypeOK, Files
<1>2. UNCHANGED file /\ (disturbed => disturbed') /\ disturbed' \in BOOLEAN
  BY Zenon DEF EnsureCalls, GivesUp, Quietly, RendezvousInv, TypeOK
<1>3. Called(judged[e]) /\ judged[e] \in Files
  BY DEF EnsureCalls, RendezvousInv, JudgementsHold, TypeOK, Processes
<1>4. CASE /\ Set(e, [ensure[e] EXCEPT !.step = "done", !.outcome = "ready"])
           /\ EnsureOnly
  <2>1. d \in Daemons \union {NoOne}
    BY <1>3 DEF Files, NoFile
  <2>2. PICK state \in Ensure :
            state = [ensure[e] EXCEPT !.step = "done", !.outcome = "ready"]
    BY <2>1, NewStates, Zenon DEF RendezvousInv, EnsureSteps, Outcomes
  <2>3. state.launched = ensure[e].launched /\ state.step = "done"
    BY <2>2 DEF RendezvousInv, TypeOK, Ensure
  <2> QED
    BY <1>1, <1>2, <1>4, <2>2, <2>3, StepKeeps, ZenonT(30)
<1>5. CASE Fail(e, "failed") /\ Quietly
  BY <1>1, <1>2, <1>5, FailKeeps DEF Outcomes, Quietly
<1>6. CASE NextTurn(e, ensure[e].other)
  <2>1. ensure[e].other \in BOOLEAN
    BY SMTT(30) DEF RendezvousInv, TypeOK, Ensure
  <2> QED
    BY <1>1, <1>2, <1>6, <2>1, TurnKeeps
<1>7. CASE /\ GivesUp(e) /\ file = judged[e] /\ UNCHANGED judged
           /\ Set(e, [ensure[e] EXCEPT !.step = "remove"]) /\ EnsureOnly
  <2>1. Condemned(judged[e])'
    <3>1. judged'[e] = judged[e] /\ judged[e] # NoFile
      BY <1>3, <1>7 DEF Called, NoFile
    <3>2. CASE Answers(d)
      BY <1>7, <3>1, <3>2, Zenon DEF Condemned, GivesUp
    <3>3. CASE Past(d)
      BY <1>7, <3>1, <3>3 DEF Condemned, EnsureOnly, Past
    <3> QED
      BY <1>3, <3>2, <3>3 DEF Called
  <2> QED
    BY <1>1, <1>2, <1>7, <2>1, MoveKeeps, Zenon DEF EnsureSteps
<1> QED
  BY <1>4, <1>5, <1>6, <1>7 DEF EnsureCalls

LEMMA LaunchKeeps ==
    ASSUME RendezvousInv, NEW e \in Ensurers, NEW discovered \in BOOLEAN, Launch(e, discovered)
    PROVE  RendezvousInv'
<1>1. CASE ~discovered
  BY <1>1, FailKeeps DEF Launch, Quietly, Outcomes, RendezvousInv, TypeOK
<1>2. CASE discovered
  <2> DEFINE c == Child[e]
  <2>1. c \in Daemons /\ pc[c] = "off" /\ ~ensure[e].launched
    BY ChildAssumption DEF Launch, RendezvousInv, LaunchedOnce
  <2>2. /\ pc' = [pc EXCEPT ![c] = "reserve"]
        /\ UNCHANGED <<file, probe, driving, config, judged, disturbed>>
    BY <1>2 DEF Launch, Goto, Quietly
  <2>3. Progress
    BY <2>1, <2>2 DEF Progress, Past, Answers, Ended, RendezvousInv, TypeOK
  <2>4. OneRuntime' /\ Published' /\ OwnerKnows'
    <3>1. OneRuntime'
      BY <2>1, <2>2 DEF OneRuntime, Working, RendezvousInv, TypeOK
    <3>2. Published'
      BY <2>1, <2>2, SMTT(30) DEF Published, RendezvousInv, TypeOK
    <3>3. OwnerKnows'
      <4>1. pc \in [Daemons -> ServeSteps] /\ \A d \in Daemons \ {c} : pc'[d] = pc[d]
        BY <2>2, SMTT(30) DEF RendezvousInv, TypeOK
      <4>2. file.kind # "none" => file.owner # c
        BY <2>1, SMTT(30) DEF OwnerKnows, RendezvousInv, TypeOK, Files, NoFile
      <4> QED
        BY <2>1, <2>2, <4>1, <4>2, SMTT(30) DEF OwnerKnows, RendezvousInv, TypeOK, Files, NoFile
    <3> QED
      BY <3>1, <3>2, <3>3
  <2>5. PICK state \in Ensure : state = [ensure[e] EXCEPT !.step = "waiting", !.launched = TRUE]
    BY NewStates, Zenon DEF RendezvousInv, EnsureSteps, Outcomes
  <2>6. state.launched /\ state.step = "waiting"
    BY <2>5 DEF RendezvousInv, TypeOK, Ensure
  <2>7. /\ ensure' \in [Ensurers -> Ensure]
        /\ ensure'[e] = state
        /\ \A f \in Ensurers \ {e} : ensure'[f] = ensure[f]
    BY <1>2, <2>5, SetTyped DEF Launch, RendezvousInv
  <2>8. TypeOK'
    BY <2>2, <2>7, ZenonT(30) DEF RendezvousInv, TypeOK, ServeSteps
  <2>9. JudgementsHold'
    <3>1. ASSUME NEW d \in Daemons
          PROVE  /\ pc'[d] = "call" => Called(judged[d])'
                 /\ pc'[d] = "remove" => Condemned(judged[d])'
      BY <2>2, <2>3, JudgementsKept, SMTT(30) DEF RendezvousInv, TypeOK, JudgementsHold, Processes
    <3>2. ASSUME NEW f \in Ensurers
          PROVE  /\ ensure'[f].step = "call" => Called(judged[f])'
                 /\ ensure'[f].step \in {"reclaim", "remove"} => Condemned(judged[f])'
      <4>1. CASE f = e
        BY <2>6, <2>7, <4>1
      <4>2. CASE f # e
        <5>1. /\ Called(judged[f]) => Called(judged[f])'
              /\ Condemned(judged[f]) => Condemned(judged[f])'
          <6>1. f \in Processes /\ judged'[f] = judged[f] /\ (disturbed => disturbed')
            BY <2>2, SMTT(30) DEF Processes
          <6> QED
            BY <2>3, <6>1, JudgementsKept, Zenon DEF RendezvousInv
        <5>2. ensure'[f] = ensure[f]
          BY <2>7, <4>2
        <5> QED
          BY <5>1, <5>2, Zenon DEF RendezvousInv, JudgementsHold
      <4> QED
        BY <4>1, <4>2
    <3> QED
      BY <3>1, <3>2, SMTT(30) DEF JudgementsHold
  <2>10. LaunchedOnce'
    BY <2>2, <2>6, <2>7, ChildAssumption DEF RendezvousInv, TypeOK, LaunchedOnce
  <2> QED
    BY <2>4, <2>8, <2>9, <2>10 DEF RendezvousInv
<1> QED
  BY <1>1, <1>2

-----------------------------------------------------------------------------
LEMMA InitHolds == Init => RendezvousInv
<1> SUFFICES ASSUME Init PROVE RendezvousInv
  OBVIOUS
<1> USE DEF Init
<1>1. TypeOK
  <2>1. NewEnsure \in Ensure
    BY DEF NewEnsure, Ensure, EnsureSteps, Outcomes
  <2> QED
    BY <2>1, ProjectsAssumption, Zenon DEF TypeOK, Files, ServeSteps
<1>2. OneRuntime /\ Published /\ OwnerKnows
  BY DEF OneRuntime, Published, OwnerKnows, Working, NoFile
<1>3. JudgementsHold /\ LaunchedOnce
  BY ChildAssumption DEF JudgementsHold, LaunchedOnce, NewEnsure
<1> QED
  BY <1>1, <1>2, <1>3 DEF RendezvousInv

LEMMA ServeStepKeeps ==
    ASSUME RendezvousInv, NEW d \in Daemons, ServeStep(d)
    PROVE  RendezvousInv'
BY ReserveKeeps, WriteMarkerKeeps, ServeLoadsKeeps, ServeRecoversKeeps, ServeCallsKeeps,
   ServeRemovesKeeps, AcquireProbeKeeps, OpenSessionKeeps, CheckCommitKeeps, ReplaceKeeps,
   CheckWithdrawKeeps, WithdrawKeeps, CloseRuntimeKeeps, CheckCancelKeeps, CancelKeeps
   DEF ServeStep

LEMMA EnsureStepKeeps ==
    ASSUME RendezvousInv, NEW e \in Ensurers, EnsureStep(e)
    PROVE  RendezvousInv'
BY PollKeeps, EnsureRecoversKeeps, ReclaimKeeps, EnsureCallsKeeps, RemoveStaleKeeps, LaunchKeeps
   DEF EnsureStep

LEMMA NextKeeps == RendezvousInv /\ [Next]_vars => RendezvousInv'
<1> SUFFICES ASSUME RendezvousInv, [Next]_vars PROVE RendezvousInv'
  OBVIOUS
<1>1. ASSUME NEW d \in Daemons,
             StartServe(d) \/ ServeStep(d) \/ StopServing(d)
             \/ RuntimeEnds(d) \/ ReleaseProbe(d) \/ Crash(d)
      PROVE  RendezvousInv'
  BY <1>1, StartServeKeeps, ServeStepKeeps, StopServingKeeps, RuntimeEndsKeeps, ReleaseProbeKeeps,
     CrashKeeps
<1>2. ASSUME NEW e \in Ensurers, StartEnsure(e) \/ EnsureStep(e) \/ Expire(e)
      PROVE  RendezvousInv'
  BY <1>2, StartEnsureKeeps, EnsureStepKeeps, ExpireKeeps, SMTT(30)
<1>3. CASE UNCHANGED vars
  BY <1>3, ZenonT(30) DEF vars, RendezvousInv, TypeOK, OneRuntime, Published, OwnerKnows, JudgementsHold,
              LaunchedOnce, Called, Condemned, Answers, Past
<1> QED
  BY <1>1, <1>2, <1>3 DEF Next

-----------------------------------------------------------------------------
(* The invariant of the rendezvous holds for every number of daemons and    *)
(* ensure commands: the owner of the file is at a step at which it knows of *)
(* it, and who is about to remove a file has judged its owner rightly.      *)
THEOREM RendezvousInvariant == Spec => []RendezvousInv
BY InitHolds, NextKeeps, PTL DEF Spec

(* At most one daemon at a time opens and drives MULTI, whatever becomes of *)
(* markers and records.                                                     *)
THEOREM OnlyOneRuntime == Spec => []OneRuntime
<1>1. RendezvousInv => OneRuntime
  BY DEF RendezvousInv
<1> QED
  BY <1>1, RendezvousInvariant, PTL

(* Unless a removal took away another file than the one it had checked, or  *)
(* a deadline passed on a daemon that serves, a daemon that starts or       *)
(* serves is the one the file names.                                        *)
THEOREM StaysPublished == Spec => []Published
<1>1. RendezvousInv => Published
  BY DEF RendezvousInv
<1> QED
  BY <1>1, RendezvousInvariant, PTL

(* A daemon that ended by itself has left no marker and no record.          *)
THEOREM LeavesNothing == Spec => []NothingLeftBehind
<1>1. RendezvousInv => NothingLeftBehind
  <2> SUFFICES ASSUME RendezvousInv, NEW d \in Daemons, pc[d] = "exited", file.owner = d
               PROVE  FALSE
    BY DEF NothingLeftBehind
  <2>1. file.kind \in {"empty", "marker", "record"}
    BY NoOneAssumption DEF RendezvousInv, TypeOK, Files, NoFile
  <2> QED
    BY <2>1 DEF RendezvousInv, OwnerKnows
<1> QED
  BY <1>1, RendezvousInvariant, PTL
=============================================================================
