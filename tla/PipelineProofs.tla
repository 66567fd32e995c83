---------------------------- MODULE PipelineProofs ----------------------------
(***************************************************************************)
(* Theorems about Pipeline, for any number of commits and any bounds: what *)
(* the build lock promises a build, that no push is lost, that a race of   *)
(* a build and a deploy leaves a container, what codepin never promotes,   *)
(* what a stamp of the receipt says and, for builds on the box, that a     *)
(* rollback goes to another image.                                         *)
(*                                                                         *)
(* The inductive invariant has six parts, each with a lemma of its own     *)
(* that says a step keeps it: types, Where, Fixed, Looked, Replaced and    *)
(* Local. Typed is TypeOK with its sets of variables written out, a form   *)
(* the provers handle better.                                              *)
(***************************************************************************)
EXTENDS Pipeline, TLAPS

USE PipelineConstants

-----------------------------------------------------------------------------
(* The invariant.                                                            *)

\* The image of a build has its commit tag at these steps, and :latest is the
\* image it promoted at those.
Imaged == {"release", "releasing", "promote", "stop", "run", "started", "health"}
Deployed == {"stop", "run", "started", "health"}

Typed ==
    /\ head \in Commits /\ seen \in 0..MaxCommit /\ late \in SUBSET Commits
    /\ trigger \in 0..MaxCommit /\ frozenAt \in 0..MaxCommit
    /\ latest \in 0..MaxCommit /\ previous \in 0..MaxCommit /\ ctr \in 0..MaxCommit
    /\ sha \in 0..MaxCommit /\ promoted \in 0..MaxCommit
    /\ started \in 0..MaxCommit /\ kept \in 0..MaxCommit
    /\ target \in 0..MaxCommit /\ report \in 0..MaxCommit /\ receipt \in 0..MaxCommit
    /\ tag \in [Commits -> 0..MaxCommit]
    /\ rel \in {"none", "build", "pass", "buildleft", "passleft", "finished"}
    /\ failed \in SUBSET Failure /\ known \in SUBSET Failure
    /\ count \in 0..MaxFailures
    /\ lock \in {"free", "build", "pin", "other"}
    /\ bpc \in Owned \cup {"idle", "wait"}
    /\ dpc \in {"idle", "read", "plan", "lock", "replan", "pass", "release",
                "releasing", "stop", "start", "report", "write"}
    /\ held \in BOOLEAN /\ strict \in BOOLEAN
    /\ make \in {"create", "recreate"}
    /\ trouble \in 0..MaxTrouble /\ deploys \in 0..MaxDeploys

\* Who holds the build lock, which path a build takes, and what it and codepin
\* have in hand: an open breaker starts no build, a build that is about to roll
\* back has an image to come back to, and there is always a :latest.
Where ==
    /\ lock = "build" <=> bpc \in Owned
    /\ lock = "pin" <=> dpc = "replan"
    /\ IF Registry THEN bpc \notin {"build", "promote"} ELSE bpc # "pull"
    /\ bpc # "idle" => sha # None /\ count < MaxFailures
    /\ bpc \in Imaged => tag[sha] # None
    /\ bpc \in {"rerun", "rehealth"} => kept # None
    /\ dpc # "idle" => target # None
    /\ latest # None

\* The lock keeps :latest where the build put it, so that whoever starts the
\* container meanwhile starts that image.
Fixed ==
    /\ bpc \in Deployed => latest = promoted
    /\ Registry /\ bpc \in {"release", "releasing"} => latest = promoted
    /\ bpc = "started" => ctr \in {None, promoted}
    /\ bpc = "health" => ctr \in {None, promoted} /\ started \in {None, promoted}

\* A trigger is for the newest head, and without one a build looks at the head
\* or has looked at it.
Looked ==
    /\ trigger \in {None, head}
    /\ bpc \in {"wait", "pull"} /\ trigger = None => sha = head
    /\ trigger = None /\ trouble = 0 /\ count < MaxFailures
          => bpc \in {"wait", "build", "pull"} \/ seen = head

\* Who stops the container is about to start it.
Replaced ==
    trouble = 0 /\ ctr = None => bpc \in {"run", "rerun"} \/ dpc = "start"

\* Builds on the box: a commit tag names its commit, no image is newer than
\* what was built last, and :previous differs from the image under test. After
\* a rollback :previous and :latest are the same older image.
Local == ~Registry =>
    /\ \A c \in Commits : tag[c] \in {None, c} /\ tag[c] <= seen
    /\ latest <= seen /\ previous <= seen /\ ctr <= seen /\ seen <= head
    /\ bpc \in Imaged => sha = seen
    /\ bpc \in Deployed => promoted = seen /\ previous # seen
    /\ bpc \in {"rerun", "rehealth"} => kept = seen /\ previous # seen
    /\ latest # previous \/ latest < seen

-----------------------------------------------------------------------------
(* Helpers.                                                                  *)

\* Typed says what TypeOK says, of a state and of its successor.
LEMMA TypeSplit == (TypeOK <=> Typed) /\ (TypeOK' <=> Typed')
  <1>1. TypeOK => Typed
    BY DEF TypeOK, Typed
  <1>2. Typed => TypeOK
    BY DEF TypeOK, Typed
  <1>3. TypeOK' => Typed'
    BY DEF TypeOK, Typed
  <1>4. Typed' => TypeOK'
    BY DEF TypeOK, Typed
  <1> QED
    BY <1>1, <1>2, <1>3, <1>4

\* codepin names an image by its commit tag and takes no name away.
LEMMA TagFoundType ==
    ASSUME Typed, target # None, TagFound
    PROVE  /\ Source \in 0..MaxCommit
           /\ tag' \in [Commits -> 0..MaxCommit]
           /\ \A c \in Commits : tag[c] # None => tag'[c] # None
           /\ \A c \in Commits : tag'[c] \in {tag[c], Source}
  BY DEF Typed, Commits, None, TagFound, Source

\* On a box that builds, codepin finds the target itself or nothing, and it
\* was built here.
LEMMA LocalSource ==
    ASSUME Typed, Where, Local, target # None, ~Registry
    PROVE  Source \in {None, target} /\ Source <= seen
  BY DEF Typed, Where, Local, Commits, None, Source, RunsTarget, ByLabel

LEMMA LocalTags ==
    ASSUME Typed, Where, Local, target # None, ~Registry, TagFound
    PROVE  \A c \in Commits : tag'[c] \in {None, c} /\ tag'[c] <= seen
  <1>1. Source \in {None, target} /\ Source <= seen
    BY LocalSource
  <1>2. target \in Commits
    BY DEF Typed, Commits, None
  <1>3. \A c \in Commits : tag[c] \in {None, c} /\ tag[c] <= seen
    BY DEF Local
  <1> QED
    BY <1>1, <1>2, <1>3 DEF Typed, TagFound, None, Commits

\* A failed health check records a commit with its image and takes no tag but
\* that commit's.
LEMMA MarkedType ==
    ASSUME Typed, Where, bpc = "health"
    PROVE  /\ Marked \in SUBSET Failure /\ sha \in Commits
           /\ Unhealthy => /\ tag' \in [Commits -> 0..MaxCommit]
                           /\ \A c \in Commits : tag'[c] \in {tag[c], None}
  <1>1. sha \in Commits /\ tag[sha] \in Commits
    BY DEF Typed, Where, Commits, None, Imaged
  <1>2. Marked \in SUBSET Failure
    BY <1>1 DEF Marked, Failure, Image
  <1>3. ASSUME Unhealthy
        PROVE  /\ tag' \in [Commits -> 0..MaxCommit]
               /\ \A c \in Commits : tag'[c] \in {tag[c], None}
    <2>1. tag' \in {tag, [tag EXCEPT ![sha] = None]}
      BY <1>3 DEF Unhealthy
    <2> QED
      BY <1>1, <2>1 DEF Typed, None, Commits
  <1> QED
    BY <1>1, <1>2, <1>3

-----------------------------------------------------------------------------
(* Every step keeps the invariant.                                           *)

\* Types.
LEMMA TypeStep == Typed /\ Where /\ [Next]_vars => Typed'
  <1> DEFINE Goal == Typed'
  <1> SUFFICES ASSUME Typed, Where, [Next]_vars PROVE Goal
    OBVIOUS
  <1> USE TagFoundType, MarkedType DEF Typed, Where, Owned, Imaged, AfterPin
  <1> USE DEF None, Commits, envVars, imageVars, buildVars, deployVars, Exit, Goto,
              RecordFailure, Trouble, Smooth, Deploy, Deploying, AfterHold
  <1>1. CASE Consume           BY <1>1 DEF Consume, Open
  <1>2. CASE TakeLock          BY <1>2 DEF TakeLock
  <1>3. CASE LockTimeout       BY <1>3 DEF LockTimeout
  <1>4. CASE PullHeld          BY <1>4 DEF PullHeld
  <1>5. CASE Pull              BY <1>5 DEF Pull
  <1>6. CASE FetchFails        BY <1>6 DEF FetchFails
  <1>7. CASE StartRelease      BY <1>7 DEF StartRelease
  <1>8. CASE EndRelease        BY <1>8 DEF EndRelease
  <1>9. CASE ReleaseFails      BY <1>9 DEF ReleaseFails
  <1>10. CASE Promote          BY <1>10 DEF Promote, PreviousAfter
  <1>11. CASE StopOld          BY <1>11 DEF StopOld
  <1>12. CASE RunNew           BY <1>12 DEF RunNew
  <1>13. CASE ReadStarted      BY <1>13 DEF ReadStarted
  <1>14. CASE RunFails         BY <1>14 DEF RunFails, OnStartFailure
  <1>15. CASE Healthy          BY <1>15 DEF Healthy, StartedCommit, LeaveTrigger
  <1>16. CASE OtherRevision    BY <1>16 DEF OtherRevision
  <1>17. CASE Unhealthy

    <2>1. failed' \in SUBSET Failure /\ tag' \in [Commits -> 0..MaxCommit]
      BY <1>17, MarkedType DEF Unhealthy
    <2>0. /\ bpc = "health" /\ ctr' = 0
          /\ trouble' = trouble \/ (trouble < MaxTrouble /\ trouble' = trouble + 1)
          /\ count' = count \/ count' = count + 1
          /\ (latest' = latest /\ kept' = kept) \/ (latest' = previous /\ kept' = latest)
      BY ONLY <1>17 DEF Unhealthy, Smooth, Trouble, RecordFailure, Exit, Goto, None
    <2>5. /\ MaxTrouble \in Nat /\ MaxFailures \in Nat /\ MaxCommit \in Nat
          /\ trouble \in 0..MaxTrouble /\ count \in 0..MaxFailures /\ count < MaxFailures
          /\ latest \in 0..MaxCommit /\ kept \in 0..MaxCommit /\ previous \in 0..MaxCommit
      BY <2>0, PipelineConstants
    <2>2. trouble' \in 0..MaxTrouble /\ count' \in 0..MaxFailures
      BY ONLY <2>0, <2>5
    <2>3. latest' \in 0..MaxCommit /\ kept' \in 0..MaxCommit /\ ctr' \in 0..MaxCommit
      BY ONLY <2>0, <2>5
    <2>4. bpc' \in Owned \cup {"idle", "wait"} /\ lock' \in {"free", "build", "pin", "other"}
      BY <1>17 DEF Unhealthy
    <2> QED
      BY <1>17, <2>1, <2>2, <2>3, <2>4 DEF Unhealthy
  <1>18. CASE Rerun            BY <1>18 DEF Rerun
  <1>19. CASE RolledBack       BY <1>19 DEF RolledBack
  <1>20. CASE RollbackFails    BY <1>20 DEF RollbackFails
  <1>21. CASE Killed           BY <1>21 DEF Killed
  <1>22. ASSUME NEW hold \in {TRUE, held}, Build(hold) PROVE Goal BY <1>22 DEF Build
  <1>23. CASE ReadFailed       BY <1>23 DEF ReadFailed
  <1>24. CASE PlanMove         BY <1>24 DEF PlanMove
  <1>25. CASE PinTakesLock
    <2>1. dpc' = "replan" /\ lock' = "pin"
      BY ONLY <1>25 DEF PinTakesLock, Deploy
    <2>2. UNCHANGED <<envVars, trigger, imageVars, ctr, rel, failed, count, bpc, buildVars,
                      target, strict, known, make, report, receipt, seen, trouble>>
      BY ONLY <1>25 DEF PinTakesLock
    <2>3. /\ head' = head /\ seen' = seen /\ late' = late /\ trigger' = trigger /\ frozenAt' = frozenAt
          /\ latest' = latest /\ previous' = previous /\ ctr' = ctr /\ tag' = tag /\ rel' = rel
          /\ failed' = failed /\ count' = count /\ bpc' = bpc /\ sha' = sha /\ held' = held
      BY ONLY <2>2 DEF envVars, imageVars, buildVars
    <2>4. /\ promoted' = promoted /\ started' = started /\ kept' = kept /\ target' = target
          /\ strict' = strict /\ known' = known /\ make' = make /\ report' = report
          /\ receipt' = receipt /\ trouble' = trouble /\ deploys' = deploys
      BY ONLY <2>2 DEF envVars, buildVars
    <2>5. /\ lock' \in {"free", "build", "pin", "other"}
          /\ dpc' \in {"idle", "read", "plan", "lock", "replan", "pass", "release",
                       "releasing", "stop", "start", "report", "write"}
      BY ONLY <2>1
    <2> QED
      BY ONLY Typed, <2>3, <2>4, <2>5, ZenonT(60) DEF Typed
  <1>26. CASE PinTimeout       BY <1>26, SMTT(30) DEF PinTimeout
  <1>27. CASE Repin            BY <1>27 DEF Repin, Unlock
  <1>28. CASE Observe          BY <1>28 DEF Observe
  <1>29. CASE PassRelease      BY <1>29 DEF PassRelease
  <1>30. CASE PassReleaseEnds  BY <1>30 DEF PassReleaseEnds
  <1>31. CASE PassReleaseFails BY <1>31 DEF PassReleaseFails
  <1>32. CASE PassStops        BY <1>32 DEF PassStops
  <1>33. CASE PassStarts       BY <1>33 DEF PassStarts
  <1>34. CASE PassStartFails   BY <1>34 DEF PassStartFails
  <1>35. CASE Report           BY <1>35 DEF Report
  <1>36. CASE WriteReceipt     BY <1>36 DEF WriteReceipt
  <1>37. CASE DeployDies       BY <1>37 DEF DeployDies
  <1>38. CASE LeftoverEnds     BY <1>38 DEF LeftoverEnds
  <1>39. CASE OtherBuildEnds   BY <1>39 DEF OtherBuildEnds
  <1>40. CASE Push             BY <1>40 DEF Push
  <1>41. CASE Retrigger        BY <1>41 DEF Retrigger
  <1>42. CASE ResetBreaker     BY <1>42 DEF ResetBreaker
  <1>43. CASE OtherBuild       BY <1>43 DEF OtherBuild
  <1>44. ASSUME NEW t \in 1..head, NEW b \in BOOLEAN, BayUp(t, b) PROVE Goal
    BY <1>44 DEF BayUp
  <1>45. ASSUME NEW t \in 1..head, NEW b \in BOOLEAN, BayRollback(t, b) PROVE Goal
    BY <1>45 DEF BayRollback
  <1>46. CASE UNCHANGED vars      BY <1>46 DEF vars
  <1> HIDE DEF Goal
  <1> QED
    BY <1>1, <1>2, <1>3, <1>4, <1>5, <1>6, <1>7, <1>8, <1>9, <1>10, <1>11, <1>12,
       <1>13, <1>14, <1>15, <1>16, <1>17, <1>18, <1>19, <1>20, <1>21, <1>22, <1>23,
       <1>24, <1>25, <1>26, <1>27, <1>28, <1>29, <1>30, <1>31, <1>32, <1>33, <1>34,
       <1>35, <1>36, <1>37, <1>38, <1>39, <1>40, <1>41, <1>42, <1>43, <1>44, <1>45,
       <1>46
    DEF Next, BuildStep, DeployStep, BoxStep, Outside

\* The lock is free, or held by the one whose steps need it: Repin and the steps of
\* Owned exclude each other.
LEMMA WhereStep == Typed /\ Where /\ [Next]_vars => Where'
  <1> DEFINE Goal == Where'
  <1> SUFFICES ASSUME Typed, Where, [Next]_vars PROVE Goal
    OBVIOUS
  <1> USE TagFoundType DEF Typed, Where, Owned, Imaged, AfterPin
  <1> USE DEF None, Commits, envVars, imageVars, buildVars, deployVars, Exit, Goto,
              RecordFailure, Trouble, Smooth, Deploy, Deploying, AfterHold
  <1>1. CASE Consume           BY <1>1 DEF Consume, Open
  <1>2. CASE TakeLock          BY <1>2 DEF TakeLock
  <1>3. CASE LockTimeout       BY <1>3 DEF LockTimeout
  <1>4. CASE PullHeld          BY <1>4 DEF PullHeld
  <1>5. CASE Pull              BY <1>5 DEF Pull
  <1>6. CASE FetchFails        BY <1>6 DEF FetchFails
  <1>7. CASE StartRelease      BY <1>7 DEF StartRelease
  <1>8. CASE EndRelease        BY <1>8 DEF EndRelease
  <1>9. CASE ReleaseFails      BY <1>9 DEF ReleaseFails
  <1>10. CASE Promote          BY <1>10 DEF Promote, PreviousAfter
  <1>11. CASE StopOld          BY <1>11 DEF StopOld
  <1>12. CASE RunNew           BY <1>12 DEF RunNew
  <1>13. CASE ReadStarted      BY <1>13 DEF ReadStarted
  <1>14. CASE RunFails         BY <1>14 DEF RunFails, OnStartFailure
  <1>15. CASE Healthy          BY <1>15 DEF Healthy, StartedCommit, LeaveTrigger
  <1>16. CASE OtherRevision    BY <1>16 DEF OtherRevision
  <1>17. CASE Unhealthy        BY <1>17 DEF Unhealthy
  <1>18. CASE Rerun            BY <1>18 DEF Rerun
  <1>19. CASE RolledBack       BY <1>19 DEF RolledBack
  <1>20. CASE RollbackFails    BY <1>20 DEF RollbackFails
  <1>21. CASE Killed           BY <1>21 DEF Killed
  <1>22. ASSUME NEW hold \in {TRUE, held}, Build(hold) PROVE Goal BY <1>22 DEF Build
  <1>23. CASE ReadFailed       BY <1>23 DEF ReadFailed
  <1>24. CASE PlanMove         BY <1>24 DEF PlanMove
  <1>25. CASE PinTakesLock     BY <1>25 DEF PinTakesLock, PinMayLock
  <1>26. CASE PinTimeout       BY <1>26 DEF PinTimeout
  <1>27. CASE Repin            BY <1>27 DEF Repin, Unlock, Outcome
  <1>28. CASE Observe          BY <1>28 DEF Observe
  <1>29. CASE PassRelease      BY <1>29 DEF PassRelease
  <1>30. CASE PassReleaseEnds  BY <1>30 DEF PassReleaseEnds
  <1>31. CASE PassReleaseFails BY <1>31 DEF PassReleaseFails
  <1>32. CASE PassStops        BY <1>32 DEF PassStops
  <1>33. CASE PassStarts       BY <1>33 DEF PassStarts
  <1>34. CASE PassStartFails   BY <1>34 DEF PassStartFails
  <1>35. CASE Report           BY <1>35 DEF Report
  <1>36. CASE WriteReceipt     BY <1>36 DEF WriteReceipt
  <1>37. CASE DeployDies       BY <1>37 DEF DeployDies
  <1>38. CASE LeftoverEnds     BY <1>38 DEF LeftoverEnds
  <1>39. CASE OtherBuildEnds   BY <1>39 DEF OtherBuildEnds
  <1>40. CASE Push             BY <1>40 DEF Push
  <1>41. CASE Retrigger        BY <1>41 DEF Retrigger
  <1>42. CASE ResetBreaker     BY <1>42 DEF ResetBreaker
  <1>43. CASE OtherBuild       BY <1>43 DEF OtherBuild
  <1>44. ASSUME NEW t \in 1..head, NEW b \in BOOLEAN, BayUp(t, b) PROVE Goal
    BY <1>44 DEF BayUp
  <1>45. ASSUME NEW t \in 1..head, NEW b \in BOOLEAN, BayRollback(t, b) PROVE Goal
    BY <1>45 DEF BayRollback
  <1>46. CASE UNCHANGED vars      BY <1>46 DEF vars
  <1> HIDE DEF Goal
  <1> QED
    BY <1>1, <1>2, <1>3, <1>4, <1>5, <1>6, <1>7, <1>8, <1>9, <1>10, <1>11, <1>12,
       <1>13, <1>14, <1>15, <1>16, <1>17, <1>18, <1>19, <1>20, <1>21, <1>22, <1>23,
       <1>24, <1>25, <1>26, <1>27, <1>28, <1>29, <1>30, <1>31, <1>32, <1>33, <1>34,
       <1>35, <1>36, <1>37, <1>38, <1>39, <1>40, <1>41, <1>42, <1>43, <1>44, <1>45,
       <1>46
    DEF Next, BuildStep, DeployStep, BoxStep, Outside

\* Nobody moves :latest between the promotion and the health check.
LEMMA FixedStep == Typed /\ Where /\ Fixed /\ [Next]_vars => Fixed'
  <1> DEFINE Goal == Fixed'
  <1> SUFFICES ASSUME Typed, Where, Fixed, [Next]_vars PROVE Goal
    OBVIOUS
  <1> USE DEF Typed, Where, Fixed, Owned, Deployed
  <1> USE DEF None, Commits, envVars, imageVars, buildVars, deployVars, Exit, Goto,
              RecordFailure, Trouble, Smooth, Deploy, Deploying, AfterHold
  <1>1. CASE Consume           BY <1>1 DEF Consume, Open
  <1>2. CASE TakeLock          BY <1>2 DEF TakeLock
  <1>3. CASE LockTimeout       BY <1>3 DEF LockTimeout
  <1>4. CASE PullHeld          BY <1>4 DEF PullHeld
  <1>5. CASE Pull              BY <1>5 DEF Pull
  <1>6. CASE FetchFails        BY <1>6 DEF FetchFails
  <1>7. CASE StartRelease      BY <1>7 DEF StartRelease
  <1>8. CASE EndRelease        BY <1>8 DEF EndRelease
  <1>9. CASE ReleaseFails      BY <1>9 DEF ReleaseFails
  <1>10. CASE Promote          BY <1>10 DEF Promote, PreviousAfter
  <1>11. CASE StopOld          BY <1>11 DEF StopOld
  <1>12. CASE RunNew           BY <1>12 DEF RunNew
  <1>13. CASE ReadStarted      BY <1>13 DEF ReadStarted
  <1>14. CASE RunFails         BY <1>14 DEF RunFails, OnStartFailure
  <1>15. CASE Healthy          BY <1>15 DEF Healthy, StartedCommit, LeaveTrigger
  <1>16. CASE OtherRevision    BY <1>16 DEF OtherRevision
  <1>17. CASE Unhealthy        BY <1>17 DEF Unhealthy
  <1>18. CASE Rerun            BY <1>18 DEF Rerun
  <1>19. CASE RolledBack       BY <1>19 DEF RolledBack
  <1>20. CASE RollbackFails    BY <1>20 DEF RollbackFails
  <1>21. CASE Killed           BY <1>21 DEF Killed
  <1>22. ASSUME NEW hold \in {TRUE, held}, Build(hold) PROVE Goal BY <1>22 DEF Build
  <1>23. CASE ReadFailed       BY <1>23 DEF ReadFailed
  <1>24. CASE PlanMove         BY <1>24 DEF PlanMove
  <1>25. CASE PinTakesLock     BY <1>25 DEF PinTakesLock, PinMayLock
  <1>26. CASE PinTimeout       BY <1>26 DEF PinTimeout
  <1>27. CASE Repin            BY <1>27 DEF Repin, Unlock
  <1>28. CASE Observe          BY <1>28 DEF Observe
  <1>29. CASE PassRelease      BY <1>29 DEF PassRelease
  <1>30. CASE PassReleaseEnds  BY <1>30 DEF PassReleaseEnds
  <1>31. CASE PassReleaseFails BY <1>31 DEF PassReleaseFails
  <1>32. CASE PassStops        BY <1>32 DEF PassStops
  <1>33. CASE PassStarts       BY <1>33 DEF PassStarts
  <1>34. CASE PassStartFails   BY <1>34 DEF PassStartFails
  <1>35. CASE Report           BY <1>35 DEF Report
  <1>36. CASE WriteReceipt     BY <1>36 DEF WriteReceipt
  <1>37. CASE DeployDies       BY <1>37 DEF DeployDies
  <1>38. CASE LeftoverEnds     BY <1>38 DEF LeftoverEnds
  <1>39. CASE OtherBuildEnds   BY <1>39 DEF OtherBuildEnds
  <1>40. CASE Push             BY <1>40 DEF Push
  <1>41. CASE Retrigger        BY <1>41 DEF Retrigger
  <1>42. CASE ResetBreaker     BY <1>42 DEF ResetBreaker
  <1>43. CASE OtherBuild       BY <1>43 DEF OtherBuild
  <1>44. ASSUME NEW t \in 1..head, NEW b \in BOOLEAN, BayUp(t, b) PROVE Goal
    BY <1>44 DEF BayUp
  <1>45. ASSUME NEW t \in 1..head, NEW b \in BOOLEAN, BayRollback(t, b) PROVE Goal
    BY <1>45 DEF BayRollback
  <1>46. CASE UNCHANGED vars      BY <1>46 DEF vars
  <1> HIDE DEF Goal
  <1> QED
    BY <1>1, <1>2, <1>3, <1>4, <1>5, <1>6, <1>7, <1>8, <1>9, <1>10, <1>11, <1>12,
       <1>13, <1>14, <1>15, <1>16, <1>17, <1>18, <1>19, <1>20, <1>21, <1>22, <1>23,
       <1>24, <1>25, <1>26, <1>27, <1>28, <1>29, <1>30, <1>31, <1>32, <1>33, <1>34,
       <1>35, <1>36, <1>37, <1>38, <1>39, <1>40, <1>41, <1>42, <1>43, <1>44, <1>45,
       <1>46
    DEF Next, BuildStep, DeployStep, BoxStep, Outside

\* A push writes a trigger, and a trigger is consumed by a run that then looks.
LEMMA LookedStep == Typed /\ Where /\ Looked /\ [Next]_vars => Looked'
  <1> DEFINE Goal == Looked'
  <1> SUFFICES ASSUME Typed, Where, Looked, [Next]_vars PROVE Goal
    OBVIOUS
  <1> USE DEF Typed, Where, Looked, Owned
  <1> USE DEF None, Commits, envVars, imageVars, buildVars, deployVars, Exit, Goto,
              RecordFailure, Trouble, Smooth, Deploy, Deploying, AfterHold
  <1>1. CASE Consume           BY <1>1 DEF Consume, Open
  <1>2. CASE TakeLock          BY <1>2 DEF TakeLock
  <1>3. CASE LockTimeout       BY <1>3 DEF LockTimeout
  <1>4. CASE PullHeld          BY <1>4 DEF PullHeld
  <1>5. CASE Pull              BY <1>5 DEF Pull
  <1>6. CASE FetchFails        BY <1>6 DEF FetchFails
  <1>7. CASE StartRelease      BY <1>7 DEF StartRelease
  <1>8. CASE EndRelease        BY <1>8 DEF EndRelease
  <1>9. CASE ReleaseFails      BY <1>9 DEF ReleaseFails
  <1>10. CASE Promote          BY <1>10 DEF Promote, PreviousAfter
  <1>11. CASE StopOld          BY <1>11 DEF StopOld
  <1>12. CASE RunNew           BY <1>12 DEF RunNew
  <1>13. CASE ReadStarted      BY <1>13 DEF ReadStarted
  <1>14. CASE RunFails         BY <1>14 DEF RunFails, OnStartFailure
  <1>15. CASE Healthy          BY <1>15 DEF Healthy, StartedCommit, LeaveTrigger
  <1>16. CASE OtherRevision    BY <1>16 DEF OtherRevision
  <1>17. CASE Unhealthy        BY <1>17 DEF Unhealthy
  <1>18. CASE Rerun            BY <1>18 DEF Rerun
  <1>19. CASE RolledBack       BY <1>19 DEF RolledBack
  <1>20. CASE RollbackFails    BY <1>20 DEF RollbackFails
  <1>21. CASE Killed           BY <1>21 DEF Killed
  <1>22. ASSUME NEW hold \in {TRUE, held}, Build(hold) PROVE Goal BY <1>22 DEF Build
  <1>23. CASE ReadFailed       BY <1>23 DEF ReadFailed
  <1>24. CASE PlanMove         BY <1>24 DEF PlanMove
  <1>25. CASE PinTakesLock     BY <1>25 DEF PinTakesLock, PinMayLock
  <1>26. CASE PinTimeout       BY <1>26 DEF PinTimeout
  <1>27. CASE Repin            BY <1>27 DEF Repin, Unlock
  <1>28. CASE Observe          BY <1>28 DEF Observe
  <1>29. CASE PassRelease      BY <1>29 DEF PassRelease
  <1>30. CASE PassReleaseEnds  BY <1>30 DEF PassReleaseEnds
  <1>31. CASE PassReleaseFails BY <1>31 DEF PassReleaseFails
  <1>32. CASE PassStops        BY <1>32 DEF PassStops
  <1>33. CASE PassStarts       BY <1>33 DEF PassStarts
  <1>34. CASE PassStartFails   BY <1>34 DEF PassStartFails
  <1>35. CASE Report           BY <1>35 DEF Report
  <1>36. CASE WriteReceipt     BY <1>36 DEF WriteReceipt
  <1>37. CASE DeployDies       BY <1>37 DEF DeployDies
  <1>38. CASE LeftoverEnds     BY <1>38 DEF LeftoverEnds
  <1>39. CASE OtherBuildEnds   BY <1>39 DEF OtherBuildEnds
  <1>40. CASE Push             BY <1>40 DEF Push
  <1>41. CASE Retrigger        BY <1>41 DEF Retrigger
  <1>42. CASE ResetBreaker     BY <1>42 DEF ResetBreaker
  <1>43. CASE OtherBuild       BY <1>43 DEF OtherBuild
  <1>44. ASSUME NEW t \in 1..head, NEW b \in BOOLEAN, BayUp(t, b) PROVE Goal
    BY <1>44 DEF BayUp
  <1>45. ASSUME NEW t \in 1..head, NEW b \in BOOLEAN, BayRollback(t, b) PROVE Goal
    BY <1>45 DEF BayRollback
  <1>46. CASE UNCHANGED vars      BY <1>46 DEF vars
  <1> HIDE DEF Goal
  <1> QED
    BY <1>1, <1>2, <1>3, <1>4, <1>5, <1>6, <1>7, <1>8, <1>9, <1>10, <1>11, <1>12,
       <1>13, <1>14, <1>15, <1>16, <1>17, <1>18, <1>19, <1>20, <1>21, <1>22, <1>23,
       <1>24, <1>25, <1>26, <1>27, <1>28, <1>29, <1>30, <1>31, <1>32, <1>33, <1>34,
       <1>35, <1>36, <1>37, <1>38, <1>39, <1>40, <1>41, <1>42, <1>43, <1>44, <1>45,
       <1>46
    DEF Next, BuildStep, DeployStep, BoxStep, Outside

\* A start that finds the name taken found a container.
LEMMA ReplacedStep == Typed /\ Where /\ Replaced /\ [Next]_vars => Replaced'
  <1> DEFINE Goal == Replaced'
  <1> SUFFICES ASSUME Typed, Where, Replaced, [Next]_vars PROVE Goal
    OBVIOUS
  <1> USE DEF Typed, Where, Replaced, Owned
  <1> USE DEF None, Commits, envVars, imageVars, buildVars, deployVars, Exit, Goto,
              RecordFailure, Trouble, Smooth, Deploy, Deploying, AfterHold
  <1>1. CASE Consume           BY <1>1 DEF Consume, Open
  <1>2. CASE TakeLock          BY <1>2 DEF TakeLock
  <1>3. CASE LockTimeout       BY <1>3 DEF LockTimeout
  <1>4. CASE PullHeld          BY <1>4 DEF PullHeld
  <1>5. CASE Pull              BY <1>5 DEF Pull
  <1>6. CASE FetchFails        BY <1>6 DEF FetchFails
  <1>7. CASE StartRelease      BY <1>7 DEF StartRelease
  <1>8. CASE EndRelease        BY <1>8 DEF EndRelease
  <1>9. CASE ReleaseFails      BY <1>9 DEF ReleaseFails
  <1>10. CASE Promote          BY <1>10 DEF Promote, PreviousAfter
  <1>11. CASE StopOld          BY <1>11 DEF StopOld
  <1>12. CASE RunNew           BY <1>12 DEF RunNew
  <1>13. CASE ReadStarted      BY <1>13 DEF ReadStarted
  <1>14. CASE RunFails         BY <1>14 DEF RunFails, OnStartFailure
  <1>15. CASE Healthy          BY <1>15 DEF Healthy, StartedCommit, LeaveTrigger
  <1>16. CASE OtherRevision    BY <1>16 DEF OtherRevision
  <1>17. CASE Unhealthy        BY <1>17 DEF Unhealthy
  <1>18. CASE Rerun            BY <1>18 DEF Rerun
  <1>19. CASE RolledBack       BY <1>19 DEF RolledBack
  <1>20. CASE RollbackFails    BY <1>20 DEF RollbackFails
  <1>21. CASE Killed           BY <1>21 DEF Killed
  <1>22. ASSUME NEW hold \in {TRUE, held}, Build(hold) PROVE Goal BY <1>22 DEF Build
  <1>23. CASE ReadFailed       BY <1>23 DEF ReadFailed
  <1>24. CASE PlanMove         BY <1>24 DEF PlanMove
  <1>25. CASE PinTakesLock     BY <1>25 DEF PinTakesLock, PinMayLock
  <1>26. CASE PinTimeout       BY <1>26 DEF PinTimeout
  <1>27. CASE Repin            BY <1>27 DEF Repin, Unlock
  <1>28. CASE Observe          BY <1>28 DEF Observe
  <1>29. CASE PassRelease      BY <1>29 DEF PassRelease
  <1>30. CASE PassReleaseEnds  BY <1>30 DEF PassReleaseEnds
  <1>31. CASE PassReleaseFails BY <1>31 DEF PassReleaseFails
  <1>32. CASE PassStops        BY <1>32 DEF PassStops
  <1>33. CASE PassStarts       BY <1>33 DEF PassStarts
  <1>34. CASE PassStartFails   BY <1>34 DEF PassStartFails
  <1>35. CASE Report           BY <1>35 DEF Report
  <1>36. CASE WriteReceipt     BY <1>36 DEF WriteReceipt
  <1>37. CASE DeployDies       BY <1>37 DEF DeployDies
  <1>38. CASE LeftoverEnds     BY <1>38 DEF LeftoverEnds
  <1>39. CASE OtherBuildEnds   BY <1>39 DEF OtherBuildEnds
  <1>40. CASE Push             BY <1>40 DEF Push
  <1>41. CASE Retrigger        BY <1>41 DEF Retrigger
  <1>42. CASE ResetBreaker     BY <1>42 DEF ResetBreaker
  <1>43. CASE OtherBuild       BY <1>43 DEF OtherBuild
  <1>44. ASSUME NEW t \in 1..head, NEW b \in BOOLEAN, BayUp(t, b) PROVE Goal
    BY <1>44 DEF BayUp
  <1>45. ASSUME NEW t \in 1..head, NEW b \in BOOLEAN, BayRollback(t, b) PROVE Goal
    BY <1>45 DEF BayRollback
  <1>46. CASE UNCHANGED vars      BY <1>46 DEF vars
  <1> HIDE DEF Goal
  <1> QED
    BY <1>1, <1>2, <1>3, <1>4, <1>5, <1>6, <1>7, <1>8, <1>9, <1>10, <1>11, <1>12,
       <1>13, <1>14, <1>15, <1>16, <1>17, <1>18, <1>19, <1>20, <1>21, <1>22, <1>23,
       <1>24, <1>25, <1>26, <1>27, <1>28, <1>29, <1>30, <1>31, <1>32, <1>33, <1>34,
       <1>35, <1>36, <1>37, <1>38, <1>39, <1>40, <1>41, <1>42, <1>43, <1>44, <1>45,
       <1>46
    DEF Next, BuildStep, DeployStep, BoxStep, Outside

\* Images on a box that builds.
LEMMA LocalStep == ~Registry /\ Typed /\ Where /\ Fixed /\ Local /\ [Next]_vars => Local'
  <1> DEFINE Goal == Local'
  <1> SUFFICES ASSUME ~Registry, Typed, Where, Fixed, Local, [Next]_vars PROVE Goal
    OBVIOUS
  <1> USE DEF Typed, Where, Fixed, Local, Owned, Imaged, Deployed
  <1> USE DEF None, Commits, envVars, imageVars, buildVars, deployVars, Exit, Goto,
              RecordFailure, Trouble, Smooth, Deploy, Deploying, AfterHold
  <1>1. CASE Consume           BY <1>1 DEF Consume, Open
  <1>2. CASE TakeLock          BY <1>2 DEF TakeLock
  <1>3. CASE LockTimeout       BY <1>3 DEF LockTimeout
  <1>4. CASE PullHeld          BY <1>4 DEF PullHeld
  <1>5. CASE Pull              BY <1>5 DEF Pull
  <1>6. CASE FetchFails        BY <1>6 DEF FetchFails
  <1>7. CASE StartRelease      BY <1>7 DEF StartRelease
  <1>8. CASE EndRelease        BY <1>8 DEF EndRelease
  <1>9. CASE ReleaseFails      BY <1>9 DEF ReleaseFails
  <1>10. CASE Promote          BY <1>10 DEF Promote, PreviousAfter
  <1>11. CASE StopOld          BY <1>11 DEF StopOld
  <1>12. CASE RunNew           BY <1>12 DEF RunNew
  <1>13. CASE ReadStarted      BY <1>13 DEF ReadStarted
  <1>14. CASE RunFails         BY <1>14 DEF RunFails, OnStartFailure
  <1>15. CASE Healthy          BY <1>15 DEF Healthy, StartedCommit, LeaveTrigger
  <1>16. CASE OtherRevision    BY <1>16 DEF OtherRevision
  <1>17. CASE Unhealthy

    <2>1. \A c \in Commits : tag'[c] \in {None, c} /\ tag'[c] <= seen
      BY <1>17, MarkedType DEF Unhealthy
    <2>2. latest' <= seen /\ (latest' # previous \/ latest' < seen)
      BY <1>17 DEF Unhealthy
    <2>3. bpc' = "idle" \/ (bpc' = "rerun" /\ kept' = seen)
      BY <1>17 DEF Unhealthy
    <2> QED
      BY <1>17, <2>1, <2>2, <2>3 DEF Unhealthy
  <1>18. CASE Rerun            BY <1>18 DEF Rerun
  <1>19. CASE RolledBack       BY <1>19 DEF RolledBack
  <1>20. CASE RollbackFails    BY <1>20 DEF RollbackFails
  <1>21. CASE Killed           BY <1>21 DEF Killed
  <1>22. ASSUME NEW hold \in {TRUE, held}, Build(hold) PROVE Goal BY <1>22 DEF Build
  <1>23. CASE ReadFailed       BY <1>23 DEF ReadFailed
  <1>24. CASE PlanMove

    <2>1. \A c \in Commits : tag'[c] \in {None, c} /\ tag'[c] <= seen
      BY <1>24, LocalTags DEF PlanMove
    <2>2. bpc' = bpc /\ sha' = sha /\ promoted' = promoted /\ kept' = kept
      BY <1>24 DEF PlanMove
    <2>3. /\ latest' = latest /\ previous' = previous /\ ctr' = ctr
          /\ seen' = seen /\ head' = head
      BY <1>24 DEF PlanMove
    <2> HIDE DEF None
    <2> QED
      BY <2>1, <2>2, <2>3
  <1>25. CASE PinTakesLock     BY <1>25 DEF PinTakesLock, PinMayLock
  <1>26. CASE PinTimeout

    <2>1. \A c \in Commits : tag'[c] \in {None, c} /\ tag'[c] <= seen
      BY <1>26, LocalTags DEF PinTimeout
    <2>2. bpc' = bpc /\ sha' = sha /\ promoted' = promoted /\ kept' = kept
      BY <1>26 DEF PinTimeout
    <2>3. /\ latest' = latest /\ previous' = previous /\ ctr' = ctr
          /\ seen' = seen /\ head' = head
      BY <1>26 DEF PinTimeout
    <2> HIDE DEF None
    <2> QED
      BY <2>1, <2>2, <2>3
  <1>27. CASE Repin

    <2>1. \A c \in Commits : tag'[c] \in {None, c} /\ tag'[c] <= seen
      BY <1>27, LocalTags DEF Repin
    <2>2. latest' <= seen /\ previous' <= seen /\ (latest' # previous' \/ latest' < seen)
      BY <1>27, LocalSource DEF Repin, Outcome
    <2>3. bpc' = bpc /\ bpc \notin Owned
      BY <1>27 DEF Repin
    <2> QED
      BY <1>27, <2>1, <2>2, <2>3 DEF Repin, Unlock
  <1>28. CASE Observe          BY <1>28 DEF Observe
  <1>29. CASE PassRelease      BY <1>29 DEF PassRelease
  <1>30. CASE PassReleaseEnds  BY <1>30 DEF PassReleaseEnds
  <1>31. CASE PassReleaseFails BY <1>31 DEF PassReleaseFails
  <1>32. CASE PassStops        BY <1>32 DEF PassStops
  <1>33. CASE PassStarts       BY <1>33 DEF PassStarts
  <1>34. CASE PassStartFails   BY <1>34 DEF PassStartFails
  <1>35. CASE Report           BY <1>35 DEF Report
  <1>36. CASE WriteReceipt     BY <1>36 DEF WriteReceipt
  <1>37. CASE DeployDies       BY <1>37 DEF DeployDies
  <1>38. CASE LeftoverEnds     BY <1>38 DEF LeftoverEnds
  <1>39. CASE OtherBuildEnds   BY <1>39 DEF OtherBuildEnds
  <1>40. CASE Push             BY <1>40 DEF Push
  <1>41. CASE Retrigger        BY <1>41 DEF Retrigger
  <1>42. CASE ResetBreaker     BY <1>42 DEF ResetBreaker
  <1>43. CASE OtherBuild       BY <1>43 DEF OtherBuild
  <1>44. ASSUME NEW t \in 1..head, NEW b \in BOOLEAN, BayUp(t, b) PROVE Goal
    BY <1>44 DEF BayUp
  <1>45. ASSUME NEW t \in 1..head, NEW b \in BOOLEAN, BayRollback(t, b) PROVE Goal
    BY <1>45 DEF BayRollback
  <1>46. CASE UNCHANGED vars      BY <1>46 DEF vars
  <1> HIDE DEF Goal
  <1> QED
    BY <1>1, <1>2, <1>3, <1>4, <1>5, <1>6, <1>7, <1>8, <1>9, <1>10, <1>11, <1>12,
       <1>13, <1>14, <1>15, <1>16, <1>17, <1>18, <1>19, <1>20, <1>21, <1>22, <1>23,
       <1>24, <1>25, <1>26, <1>27, <1>28, <1>29, <1>30, <1>31, <1>32, <1>33, <1>34,
       <1>35, <1>36, <1>37, <1>38, <1>39, <1>40, <1>41, <1>42, <1>43, <1>44, <1>45,
       <1>46
    DEF Next, BuildStep, DeployStep, BoxStep, Outside

IInv == Typed /\ Where /\ Fixed /\ Looked /\ Replaced /\ Local

\* The invariant holds of every reachable state.
THEOREM Invariance == Spec => []IInv
  <1>1. Init => IInv
    <2> SUFFICES ASSUME Init PROVE IInv
      OBVIOUS
    <2> USE DEF Init, None, Commits
    <2>1. Typed
      <3>1. tag \in [Commits -> 0..MaxCommit] /\ 1 \in Commits
        OBVIOUS
      <3>2. failed \in SUBSET Failure /\ known \in SUBSET Failure /\ late \in SUBSET Commits
        OBVIOUS
      <3>3. /\ count \in 0..MaxFailures /\ trouble \in 0..MaxTrouble
            /\ deploys \in 0..MaxDeploys
        OBVIOUS
      <3>4. /\ head \in Commits /\ seen \in 0..MaxCommit
            /\ trigger \in 0..MaxCommit /\ frozenAt \in 0..MaxCommit
            /\ latest \in 0..MaxCommit /\ previous \in 0..MaxCommit /\ ctr \in 0..MaxCommit
            /\ sha \in 0..MaxCommit /\ promoted \in 0..MaxCommit
            /\ started \in 0..MaxCommit /\ kept \in 0..MaxCommit
            /\ target \in 0..MaxCommit /\ report \in 0..MaxCommit /\ receipt \in 0..MaxCommit
        OBVIOUS
      <3>5. held \in BOOLEAN /\ strict \in BOOLEAN
        OBVIOUS
      <3>6. /\ rel = "none" /\ lock = "free" /\ bpc = "idle" /\ dpc = "idle"
            /\ make = "create"
        OBVIOUS
      <3> HIDE DEF Init, None, Commits
      <3> QED
        BY <3>1, <3>2, <3>3, <3>4, <3>5, <3>6 DEF Typed
    <2>2. Where /\ Fixed /\ Looked /\ Replaced
      BY DEF Where, Fixed, Looked, Replaced, Owned, Imaged, Deployed
    <2>3. Local
      BY DEF Local, Imaged, Deployed
    <2> QED
      BY <2>1, <2>2, <2>3 DEF IInv
  <1>2. IInv /\ [Next]_vars => IInv'
    <2>1. Registry => Local'
      BY DEF Local
    <2> QED
      BY <2>1, TypeStep, WhereStep, FixedStep, LookedStep, ReplacedStep, LocalStep DEF IInv
  <1> QED
    BY <1>1, <1>2, PTL DEF Spec

-----------------------------------------------------------------------------
(* The theorems.                                                             *)

\* Every variable keeps its type; in particular the breaker's count stops at the
\* threshold (rebuild.sh drops the run of an open breaker).
THEOREM TypeCorrect == Spec => []TypeOK
  <1>1. IInv => TypeOK
    BY TypeSplit DEF IInv
  <1> QED
    BY <1>1, Invariance, PTL

\* No push is dropped when nothing goes wrong: an idle build without a trigger has
\* looked at the newest head.
THEOREM PushIsBuilt == Spec => []NoPushLost
  <1>1. IInv => NoPushLost
    BY DEF IInv, Looked, NoPushLost
  <1> QED
    BY <1>1, Invariance, PTL

\* However a build and a deploy race for the container, when both are over and
\* nothing failed on its own the service has one.
THEOREM RaceLeavesOne == Spec => []SomethingServes
  <1>1. IInv => SomethingServes
    BY DEF IInv, Replaced, SomethingServes
  <1> QED
    BY <1>1, Invariance, PTL

\* On a box that builds, the image a failed health check goes back to is not the
\* image under test.
THEOREM RollsBackElsewhere ==
    ASSUME ~Registry
    PROVE  Spec => []RollbackTargetDiffers
  <1>1. IInv => RollbackTargetDiffers
    BY DEF IInv, Local, Deployed, RollbackTargetDiffers
  <1> QED
    BY <1>1, Invariance, PTL

\* The steps that move :latest.
LEMMA LatestMoves ==
    ASSUME [Next]_vars, latest' # latest
    PROVE  Pull \/ ReleaseFails \/ Promote \/ Unhealthy \/ RollbackFails \/ Repin
  <1> USE DEF imageVars
  <1>1. BuildStep => Pull \/ ReleaseFails \/ Promote \/ Unhealthy \/ RollbackFails
    BY DEF BuildStep, Consume, TakeLock, Build, PullHeld, StartRelease, EndRelease, StopOld,
           RunNew, ReadStarted, Healthy, OtherRevision, Rerun, RolledBack, LockTimeout,
           FetchFails, RunFails, Killed
  <1>2. DeployStep => Repin
    BY DEF DeployStep, ReadFailed, PlanMove, PinTakesLock, Observe, PassRelease,
           PassReleaseEnds, PassStops, PassStarts, Report, WriteReceipt, PinTimeout,
           PassReleaseFails, PassStartFails, DeployDies
  <1>3. ~BoxStep /\ ~Outside
    BY DEF BoxStep, LeftoverEnds, OtherBuildEnds, Outside, Push, Retrigger, ResetBreaker,
           OtherBuild, BayUp, BayRollback
  <1> QED
    BY <1>1, <1>2, <1>3 DEF Next, vars

\* The steps that write the receipt.
LEMMA ReceiptMoves ==
    ASSUME [Next]_vars, receipt' # receipt
    PROVE  Healthy \/ WriteReceipt
  <1>1. BuildStep => Healthy
    BY DEF BuildStep, Consume, TakeLock, Build, PullHeld, Pull, StartRelease, EndRelease,
           Promote, StopOld, RunNew, ReadStarted, OtherRevision, Rerun, RolledBack,
           LockTimeout, FetchFails, ReleaseFails, RunFails, Unhealthy, RollbackFails, Killed
  <1>2. DeployStep => WriteReceipt
    BY DEF DeployStep, ReadFailed, PlanMove, PinTakesLock, Repin, Observe, PassRelease,
           PassReleaseEnds, PassStops, PassStarts, Report, PinTimeout,
           PassReleaseFails, PassStartFails, DeployDies
  <1>3. ~BoxStep /\ ~Outside
    BY DEF BoxStep, LeftoverEnds, OtherBuildEnds, Outside, Push, Retrigger, ResetBreaker,
           OtherBuild, BayUp, BayRollback
  <1> QED
    BY <1>1, <1>2, <1>3 DEF Next, vars

\* The build lock covers the promotion and the start: from its promotion until it
\* has started the container, a build finds :latest where it put it.
THEOREM LockCoversTheStart == Spec => StartsWhatItPromoted
  <1>1. IInv /\ [Next]_vars => ((bpc \in {"stop", "run"}) => latest' = promoted)
    <2> SUFFICES ASSUME IInv, [Next]_vars, bpc \in {"stop", "run"}
                 PROVE  latest' = promoted
      OBVIOUS
    <2>1. latest = promoted /\ dpc # "replan"
      BY DEF IInv, Where, Fixed, Deployed, Owned
    <2>2. latest' = latest
      BY <2>1, LatestMoves DEF Pull, ReleaseFails, Promote, Unhealthy, RollbackFails, Repin
    <2> QED
      BY <2>1, <2>2
  <1> QED
    BY <1>1, Invariance, PTL DEF Spec, StartsWhatItPromoted

\* codepin never points :latest at a build it has read as failed, by its commit or
\* by its image.
THEOREM FailureIsNotPinned == Spec => KnownFailureStays
  <1> DEFINE Kept == dpc = "replan" /\ latest' # latest
                     => \A f \in known : f.commit # target /\ f.image # latest'
  <1>1. IInv /\ [Next]_vars => Kept
    <2> SUFFICES ASSUME IInv, [Next]_vars, dpc = "replan", latest' # latest
                 PROVE  \A f \in known : f.commit # target /\ f.image # latest'
      OBVIOUS
    <2>1. bpc \notin Owned
      BY DEF IInv, Where
    <2>2. Repin
      BY <2>1, LatestMoves
      DEF Pull, ReleaseFails, Promote, Unhealthy, RollbackFails, Owned
    <2>3. latest' = Source /\ ~KnownBad(Source)
      BY <2>2 DEF Repin, Outcome
    <2> QED
      BY <2>3 DEF KnownBad, BadCommit, BadImage
  <1> QED
    BY <1>1, Invariance, PTL DEF Spec, KnownFailureStays

\* A build writes no commit into the receipt but the one its container runs.
THEOREM StampIsLive == Spec => StampedIsLive
  <1> DEFINE Live == bpc = "health" /\ receipt' # receipt /\ dpc' = dpc
                     => receipt' \in {None, ctr}
  <1>1. IInv /\ [Next]_vars => Live
    <2> SUFFICES ASSUME IInv, [Next]_vars, bpc = "health", receipt' # receipt, dpc' = dpc
                 PROVE  receipt' \in {None, ctr}
      OBVIOUS
    <2>1. Healthy
      BY ReceiptMoves DEF WriteReceipt, Deploy
    <2>2. ctr = promoted /\ started \in {None, promoted}
      BY <2>1 DEF IInv, Fixed, Healthy
    <2>3. started = promoted => sha = ctr
      BY <2>1, <2>2 DEF IInv, Local, Imaged, Deployed, Healthy, Announced
    <2> QED
      BY <2>1, <2>2, <2>3 DEF Healthy, StartedCommit
  <1> QED
    BY <1>1, Invariance, PTL DEF Spec, StampedIsLive

=============================================================================
