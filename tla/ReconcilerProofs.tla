--------------------------- MODULE ReconcilerProofs ---------------------------
(***************************************************************************)
(* Theorems about Reconciler, for any set of names, any shape of the fleet *)
(* and any bounds: the type invariant, the order of the phases, the canary *)
(* that outlives the old container, and what a pass that reports ok means. *)
(***************************************************************************)
EXTENDS Reconciler, FiniteSetTheorems, FunctionTheorems, TLAPS

USE ConstantsOK, MarkersDistinct

-----------------------------------------------------------------------------
(* Helpers.                                                                  *)

\* A canary is a container, it is no name, and it has one owner.
LEMMA CanaryFacts ==
    ASSUME NEW n \in Names
    PROVE  /\ n \in Containers /\ CanaryOf(n) \in Containers
           /\ CanaryOf(n) \notin Names
           /\ \A m \in Names : CanaryOf(m) = CanaryOf(n) => m = n
  BY DEF Containers, Canaries, CanaryOf

\* A container the daemon holds is a record.
LEMMA PresentIsContainer ==
    ASSUME TypeOK, NEW c \in Containers, Present(c)
    PROVE  /\ box[c] \in Container
           /\ box[c].cfg \in Cfgs /\ box[c].image \in 1..MaxImage
           /\ box[c].status \in Status
  BY DEF TypeOK, Present, Container

LEMMA TurnedType ==
    ASSUME TypeOK, NEW c \in Containers, Present(c), NEW status \in Status
    PROVE  /\ Turned(c, status) \in Container /\ Turned(c, status) # Absent
           /\ Turned(c, status).cfg = box[c].cfg
           /\ Turned(c, status).image = box[c].image
           /\ Turned(c, status).status = status
  BY PresentIsContainer DEF Turned, Container

\* What `docker run` leaves is a container, and it has the bundle's hash.
LEMMA NewContainerType ==
    ASSUME TypeOK, NEW n \in Names, want[n] # Unlisted, local[n] # 0,
           NEW status \in Status
    PROVE  /\ NewContainer(n, status) \in Container
           /\ NewContainer(n, status).cfg = want[n]
           /\ NewContainer(n, status).image = local[n]
           /\ NewContainer(n, status).status = status
           /\ NewContainer(n, status) # Absent
  <1>1. want[n] \in Configs /\ local[n] \in 1..MaxImage
    BY DEF TypeOK
  <1>2. NewContainer(n, status) \in Container
    BY <1>1 DEF NewContainer, Container, Cfgs
  <1> QED
    BY <1>1, <1>2 DEF NewContainer

-----------------------------------------------------------------------------
(* Which steps an action of each kind goes through.                          *)

Launch == {"queued", "pull", "release", "releasing", "done", "failed"}
StepsOf(kind) ==
    IF kind \in {"none", "noop"} THEN {"done"}
    ELSE IF kind = "remove" THEN {"queued", "stop", "remove", "done", "failed"}
    ELSE IF kind = "create" THEN Launch \cup {"start"}
    ELSE IF kind = "recreate" THEN Launch \cup {"stop", "remove", "start"}
    ELSE Launch \cup Rescue \cup {"canary", "health", "stop", "remove", "rename"}

\* While a pass runs, every action is at a step of its kind and the actions that
\* create a container are the listed names': the bundle changes under no pass.
PlanInv ==
    pass = "run" => \A c \in Containers :
        /\ plan[c] \in {"create", "noop", "recreate", "swap"} <=> Listed(c)
        /\ pc[c] \in StepsOf(plan[c])

LEMMA StepsOfFacts ==
    /\ StepsOf("none") = {"done"} /\ StepsOf("noop") = {"done"}
    /\ StepsOf("remove") = {"queued", "stop", "remove", "done", "failed"}
    /\ StepsOf("create") = Launch \cup {"start"}
    /\ StepsOf("recreate") = Launch \cup {"stop", "remove", "start"}
    /\ StepsOf("swap") = Launch \cup Rescue \cup {"canary", "health", "stop", "remove", "rename"}
  BY DEF StepsOf

LEMMA InitType == Init => TypeOK /\ PlanInv
  <1> SUFFICES ASSUME Init PROVE TypeOK /\ PlanInv
    OBVIOUS
  <1>1. Found \subseteq Container \cup {Absent}
    BY DEF Found, Container, Cfgs, Status, Up
  <1>2. box \in [Containers -> Container \cup {Absent}]
    BY <1>1 DEF Init, Containers
  <1>3. TypeOK
    BY <1>2 DEF Init, TypeOK, Kinds, Steps
  <1> QED
    BY <1>3 DEF Init, PlanInv

\* An action that begins, goes on or raises stays inside the steps of its kind.
LEMMA GotoFacts ==
    ASSUME TypeOK, NEW c \in Containers, NEW s \in Steps, Goto(c, s)
    PROVE  /\ pc' \in [Containers -> Steps]
           /\ pc'[c] = s
           /\ \A d \in Containers : d # c => pc'[d] = pc[d]
  BY DEF TypeOK, Goto

LEMMA NextSteps ==
    ASSUME TypeOK, PlanInv, pass = "run", NEW c \in Containers, plan[c] \notin {"none", "noop"}
    PROVE  /\ FirstStep(c) \in StepsOf(plan[c]) \cap Steps
           /\ plan[c] # "remove" => AfterPull(c) \in StepsOf(plan[c]) \cap Steps
           /\ plan[c] # "remove" => AfterRelease(c) \in StepsOf(plan[c]) \cap Steps
           /\ {"done", "failed"} \subseteq StepsOf(plan[c]) \cap Steps
           /\ StepsOf(plan[c]) \subseteq Steps
  <1>1. plan[c] \in {"create", "recreate", "swap", "remove"}
    BY DEF TypeOK, Kinds
  <1>2. StepsOf(plan[c]) \subseteq Steps
    BY <1>1, StepsOfFacts DEF Steps, Launch, Rescue
  <1>3. plan[c] # "remove" => AfterRelease(c) \in StepsOf(plan[c])
    BY <1>1, StepsOfFacts DEF AfterRelease
  <1>4. plan[c] # "remove" => AfterPull(c) \in StepsOf(plan[c])
    BY <1>1, <1>3, StepsOfFacts DEF AfterPull, Launch
  <1>5. FirstStep(c) \in StepsOf(plan[c])
    BY <1>1, <1>4, StepsOfFacts DEF FirstStep, Launch
  <1>6. {"done", "failed"} \subseteq StepsOf(plan[c])
    BY <1>1, StepsOfFacts DEF Launch
  <1> QED
    BY <1>2, <1>3, <1>4, <1>5, <1>6

\* A step of one action's thread that moves only that thread, inside the steps
\* of its kind, keeps PlanInv.
LEMMA ThreadKeepsPlan ==
    ASSUME TypeOK, PlanInv, pass = "run", NEW c \in Containers,
           NEW s \in StepsOf(plan[c]), Goto(c, s), UNCHANGED <<want, pass, plan>>
    PROVE  PlanInv'
  <1>1. \A d \in Containers : pc'[d] = IF d = c THEN s ELSE pc[d]
    BY DEF Goto, TypeOK
  <1> QED
    BY <1>1 DEF PlanInv, Listed

\* A thread that is at a step some kinds have: its kind is one of them.
LEMMA KindOfStep ==
    ASSUME TypeOK, PlanInv, pass = "run", NEW c \in Containers
    PROVE  /\ pc[c] \in StepsOf(plan[c])
           /\ Busy(c) \/ pc[c] = "queued" => plan[c] \in {"create", "recreate", "swap", "remove"}
           /\ pc[c] \in {"pull", "release", "releasing", "start", "canary", "health", "rename"}
                         \cup Rescue
                => plan[c] \in {"create", "recreate", "swap"}
           /\ pc[c] \in {"canary", "health", "rename"} \cup Rescue => plan[c] = "swap"
           /\ pc[c] \in {"stop", "remove"} => plan[c] \in {"recreate", "swap", "remove"}
           /\ pc[c] = "start" => plan[c] \in {"create", "recreate"}
           /\ plan[c] \in {"create", "recreate", "swap"} => c \in Names /\ want[c] \in Configs
  <1>1. plan[c] \in Kinds /\ pc[c] \in StepsOf(plan[c])
    BY DEF TypeOK, PlanInv
  <1>2. plan[c] \in {"create", "recreate", "swap"} => c \in Names /\ want[c] \in Configs
    BY DEF PlanInv, Listed, TypeOK
  <1> QED
    BY <1>1, <1>2, StepsOfFacts DEF Kinds, Launch, Rescue, Busy, Over

\* An exception leaves the thread in the rescue of its swap, or failed.
LEMMA RaiseType ==
    ASSUME TypeOK, PlanInv, pass = "run", NEW c \in Containers, Busy(c),
           Raise(c), UNCHANGED <<want, pass, plan>>
    PROVE  PlanInv' /\ pc' \in [Containers -> Steps]
  <1> DEFINE s == IF plan[c] = "swap" /\ pc[c] \in {"health", "stop", "remove", "rename"}
                    THEN "rescue_stop_canary" ELSE "failed"
  <1>1. s \in StepsOf(plan[c]) \cap Steps
    BY KindOfStep, NextSteps, StepsOfFacts DEF Rescue, Steps, Busy
  <1>2. Goto(c, s)
    BY DEF Raise
  <1> QED
    BY <1>1, <1>2, ThreadKeepsPlan, GotoFacts

LEMMA WorkType ==
    ASSUME TypeOK, PlanInv, NEW c \in Containers, Work(c)
    PROVE  TypeOK' /\ PlanInv'
  <1> USE KindOfStep, NextSteps
  <1>1. CASE Begin(c)
    <2>1. FirstStep(c) \in StepsOf(plan[c]) \cap Steps
      BY <1>1 DEF Begin, At
    <2>2. PlanInv'
      BY <1>1, <2>1, ThreadKeepsPlan DEF Begin, At
    <2> QED
      BY <1>1, <2>1, <2>2, GotoFacts DEF Begin, TypeOK, dockerVars
  <1>2. CASE Stop(c)
    <2>1. AfterStop(c) \in StepsOf(plan[c]) \cap Steps
      BY <1>2, StepsOfFacts DEF Stop, AfterStop, Rescue, Launch, Steps
    <2>2. PlanInv'
      BY <1>2, <2>1, ThreadKeepsPlan DEF Stop
    <2>3. box' \in [Containers -> Container \cup {Absent}]
      <3>1. CASE ~Running(Subject(c))
        BY <1>2, <3>1 DEF Stop, TypeOK
      <3>2. CASE Running(Subject(c)) /\ Subject(c) \in Containers
        BY <1>2, <3>2, TurnedType DEF Stop, TypeOK, Running, Status
      <3>3. CASE Subject(c) \notin Containers
        BY <1>2, <3>3 DEF Stop, TypeOK
      <3> QED
        BY <3>1, <3>2, <3>3
    <2> QED
      BY <1>2, <2>1, <2>2, <2>3, GotoFacts DEF Stop, TypeOK
  <1>3. CASE Remove(c)
    <2>1. AfterRemove(c) \in StepsOf(plan[c]) \cap Steps
      BY <1>3, StepsOfFacts DEF Remove, AfterRemove, Rescue, Launch, Steps
    <2>2. PlanInv'
      BY <1>3, <2>1, ThreadKeepsPlan DEF Remove
    <2> QED
      BY <1>3, <2>1, <2>2, GotoFacts DEF Remove, TypeOK
  <1>4. CASE c \in Names /\ (Pull(c) \/ RunRelease(c) \/ EndRelease(c))
    <2>1. AfterPull(c) \in StepsOf(plan[c]) \cap Steps /\ AfterRelease(c) \in StepsOf(plan[c]) \cap Steps
          /\ "releasing" \in StepsOf(plan[c]) \cap Steps
      BY <1>4, StepsOfFacts DEF Pull, RunRelease, EndRelease, At, Steps, Launch
    <2>2. PlanInv'
      BY <1>4, <2>1, ThreadKeepsPlan DEF Pull, RunRelease, EndRelease, At
    <2> QED
      BY <1>4, <2>1, <2>2, GotoFacts DEF Pull, RunRelease, EndRelease, TypeOK, dockerVars
  <1>5. CASE c \in Names /\ (RefuseRelease(c) \/ RefuseCreate(c) \/ PollFails(c))
    <2>1. PlanInv' /\ pc' \in [Containers -> Steps]
      BY <1>5, RaiseType DEF RefuseRelease, RefuseCreate, PollFails, At, Starting, Busy, Over
    <2> QED
      BY <1>5, <2>1 DEF RefuseRelease, RefuseCreate, PollFails, TypeOK, dockerVars
  <1>6. CASE c \in Names /\ Start(c)
    <2>1. plan[c] \in {"create", "recreate", "swap"} /\ want[c] # Unlisted /\ local[c] # 0
      BY <1>6 DEF Start, Starting, Creatable, Rescue
    <2>2. Started(c) \in Container
      BY <1>6, <2>1, NewContainerType DEF Started, Status, Up
    <2>3. box' \in [Containers -> Container \cup {Absent}]
      BY <1>6, <2>2 DEF Start, TypeOK
    <2>4. pc[c] = "canary" => "health" \in StepsOf(plan[c]) \cap Steps
      BY <1>6, StepsOfFacts DEF Start, Starting, Steps
    <2>5. "done" \in StepsOf(plan[c]) \cap Steps
      BY <1>6, <2>1 DEF Start, Starting
    <2>6. PlanInv'
      BY <1>6, <2>4, <2>5, ThreadKeepsPlan DEF Start, Starting
    <2> QED
      BY <1>6, <2>3, <2>4, <2>5, <2>6, GotoFacts DEF Start, TypeOK
  <1>7. CASE c \in Names /\ RefuseStart(c)
    <2>1. plan[c] \in {"create", "recreate", "swap"} /\ want[c] # Unlisted /\ local[c] # 0
      BY <1>7 DEF RefuseStart, Starting, Creatable, Rescue
    <2>2. NewContainer(c, "created") \in Container
      BY <1>7, <2>1, NewContainerType DEF Status
    <2>3. box' \in [Containers -> Container \cup {Absent}]
      BY <1>7, <2>2 DEF RefuseStart, TypeOK
    <2>4. PlanInv' /\ pc' \in [Containers -> Steps]
      BY <1>7, RaiseType DEF RefuseStart, Starting, Busy, Over
    <2> QED
      BY <1>7, <2>3, <2>4 DEF RefuseStart, TypeOK
  <1>8. CASE c \in Names /\ (PollPasses(c) \/ Rename(c))
    <2>1. {"stop", "done"} \subseteq StepsOf(plan[c]) \cap Steps
      BY <1>8, StepsOfFacts DEF PollPasses, Rename, At, Launch, Steps
    <2>2. PlanInv'
      BY <1>8, <2>1, ThreadKeepsPlan DEF PollPasses, Rename, At
    <2>3. box' \in [Containers -> Container \cup {Absent}]
      BY <1>8, CanaryFacts DEF PollPasses, Rename, TypeOK, dockerVars
    <2> QED
      BY <1>8, <2>1, <2>2, <2>3, GotoFacts DEF PollPasses, Rename, TypeOK, dockerVars
  <1>9. CASE c \in Names /\ PollAgain(c)
    <2>1. polls' \in 0..MaxPolls
      BY <1>9 DEF PollAgain, TypeOK
    <2> QED
      BY <1>9, <2>1 DEF PollAgain, TypeOK, PlanInv, Listed, dockerVars
  <1> QED
    BY <1>1, <1>2, <1>3, <1>4, <1>5, <1>6, <1>7, <1>8, <1>9 DEF Work

LEMMA TroubleType ==
    ASSUME TypeOK, PlanInv, NEW c \in Containers, Trouble(c)
    PROVE  TypeOK' /\ PlanInv'
  <1> USE KindOfStep, NextSteps
  <1>0. (Fault => faults' \in 0..MaxFaults) /\ (Edit => edits' \in 0..MaxEdits)
    BY DEF Fault, Edit, TypeOK
  <1>1. CASE CallFails(c)
    <2>1. PlanInv' /\ pc' \in [Containers -> Steps]
      BY <1>1, RaiseType DEF CallFails
    <2> QED
      BY <1>0, <1>1, <2>1 DEF CallFails, TypeOK, dockerVars
  <1>2. CASE c \in Names /\ FailRelease(c)
    <2>1. PlanInv' /\ pc' \in [Containers -> Steps]
      BY <1>2, RaiseType DEF FailRelease, At, Busy, Over
    <2> QED
      BY <1>0, <1>2, <2>1 DEF FailRelease, TypeOK
  <1>3. CASE c \in Names /\ StartFails(c)
    <2>1. plan[c] \in {"create", "recreate", "swap"} /\ want[c] # Unlisted /\ local[c] # 0
      BY <1>3 DEF StartFails, Starting, Creatable, Rescue
    <2>2. NewContainer(c, "created") \in Container
      BY <1>3, <2>1, NewContainerType DEF Status
    <2>3. box' \in [Containers -> Container \cup {Absent}]
      BY <1>3, <2>2 DEF StartFails, TypeOK
    <2>4. PlanInv' /\ pc' \in [Containers -> Steps]
      BY <1>3, RaiseType DEF StartFails, Starting, Busy, Over
    <2> QED
      BY <1>0, <1>3, <2>3, <2>4 DEF StartFails, TypeOK
  <1>4. CASE \/ \E status \in {"exited", "looping"} : Die(c, status)
             \/ \E status \in {"healthy", "unhealthy"} : HealthReport(c, status)
    <2>1. box' \in [Containers -> Container \cup {Absent}]
      BY <1>4, TurnedType DEF Die, HealthReport, TypeOK, Running, Status, Up
    <2> QED
      BY <1>0, <1>4, <2>1 DEF Die, HealthReport, TypeOK, PlanInv, Listed, passVars
  <1>5. CASE c \in Names /\ (OtherReleaseStarts(c) \/ OtherReleaseEnds(c))
    BY <1>0, <1>5 DEF OtherReleaseStarts, OtherReleaseEnds, TypeOK, PlanInv, Listed, passVars
  <1>6. CASE c \in Names /\ \E cfg \in Configs \cup {Unlisted} : EditBundle(c, cfg)
    BY <1>0, <1>6 DEF EditBundle, TypeOK, PlanInv, passVars, dockerVars
  <1>7. CASE c \in Names /\ \E i \in 1..MaxImage : MoveImage(c, i)
    BY <1>0, <1>7 DEF MoveImage, TypeOK, PlanInv, Listed, passVars
  <1> QED
    BY <1>1, <1>2, <1>3, <1>4, <1>5, <1>6, <1>7 DEF Trouble

LEMMA PlayType ==
    ASSUME TypeOK, PlanInv, Play \/ \E next \in {"failed", "idle"} : Crash(next)
    PROVE  TypeOK' /\ PlanInv'
  <1>0. Fault => faults' \in 0..MaxFaults
    BY DEF Fault, TypeOK
  <1>1. CASE StartPass
    <2>1. \A c \in Containers : Decision(c) \in Kinds
      BY DEF Decision, Kinds
    <2>2. \A c \in Containers :
            Decision(c) \in {"create", "noop", "recreate", "swap"} <=> Listed(c)
      BY DEF Decision
    <2>3. \A kind \in Kinds \ {"none", "noop"} : "queued" \in StepsOf(kind)
      BY StepsOfFacts DEF Kinds, Launch
    <2>4. PlanInv'
      BY <1>1, <2>1, <2>2, <2>3, StepsOfFacts DEF StartPass, PlanInv, Listed, Kinds
    <2> QED
      BY <1>1, <2>1, <2>4 DEF StartPass, TypeOK, Steps, dockerVars
  <1>2. CASE Report \/ Close
    BY <1>2 DEF Report, Close, TypeOK, PlanInv, dockerVars
  <1>3. CASE \E kept \in SUBSET Names : CleanCanaries(kept)
    BY <1>0, <1>3 DEF CleanCanaries, TypeOK, PlanInv
  <1>4. CASE \E next \in {"failed", "idle"} : Crash(next)
    BY <1>0, <1>4 DEF Crash, TypeOK, PlanInv, Steps
  <1> QED
    BY <1>1, <1>2, <1>3, <1>4 DEF Play

LEMMA NextType == TypeOK /\ PlanInv /\ [Next]_vars => TypeOK' /\ PlanInv'
  <1> SUFFICES ASSUME TypeOK, PlanInv, [Next]_vars PROVE TypeOK' /\ PlanInv'
    OBVIOUS
  <1>1. CASE UNCHANGED vars
    BY <1>1 DEF vars, dockerVars, passVars, TypeOK, PlanInv, Listed
  <1> QED
    BY <1>1, WorkType, TroubleType, PlayType DEF Next

\* Every variable keeps its type, and every action stays at a step of its kind.
THEOREM TypeCorrect == Spec => [](TypeOK /\ PlanInv)
  BY InitType, NextType, PTL DEF Spec

-----------------------------------------------------------------------------
(* The order of the phases.                                                  *)

\* A batch of one worker starts nothing while something is under way.
LEMMA OneWorker ==
    ASSUME TypeOK, NEW c \in Containers, plan[c] = "swap", Turn(c)
    PROVE  \A d \in Containers : ~Busy(d)
  <1> DEFINE B == {d \in Containers : Busy(d)}
  <1>1. IsFiniteSet(Canaries)
    <2> DEFINE f == [n \in Names |-> CanaryOf(n)]
    <2>1. f \in Surjection(Names, Canaries)
      BY DEF Canaries, Surjection
    <2> QED
      BY <2>1, FS_Surjection DEF ConstantsOK
  <1>2. IsFiniteSet(Containers)
    BY <1>1, FS_Union DEF Containers, ConstantsOK
  <1>3. IsFiniteSet(B)
    BY <1>2, FS_Subset
  <1>4. Cardinality(B) < 1
    BY DEF Turn, Workers
  <1>5. B = {}
    BY <1>3, <1>4, FS_CardinalityType, FS_EmptySet
  <1> QED
    BY <1>5

LEMMA StageFacts ==
    ASSUME TypeOK, NEW c \in Containers, Acting(c), plan[c] # "remove" => c \in Names
    PROVE  /\ Stage(c) \in Nat
           /\ plan[c] = "remove" => Stage(c) = 6
           /\ plan[c] = "swap" => Stage(c) \in {1, 3, 5}
           /\ plan[c] \notin {"swap", "remove"} => Stage(c) \in {0, 2, 4}
  BY DEF Stage, Rank, ConstantsOK, Types

\* Inside a pass, only Begin makes an action busy, and what is over stays over.
LEMMA OnlyBeginBegins ==
    ASSUME TypeOK, PlanInv, pass = "run", pass' = "run", [Next]_vars
    PROVE  \/ \E c \in Containers : Begin(c)
           \/ /\ UNCHANGED <<plan, want>>
              /\ \A c \in Containers : /\ Busy(c)' => Busy(c)
                                       /\ pc[c] \in Over => pc'[c] \in Over
  <1>1. CASE UNCHANGED vars
    BY <1>1 DEF vars, passVars, Busy
  <1>2. CASE \E c \in Containers : Work(c)
    <2>1. PICK c \in Containers : Work(c)
      BY <1>2
    <2>2. UNCHANGED <<plan, want>>
      BY <2>1 DEF Work, Begin, Stop, Remove, Pull, RunRelease, RefuseRelease, EndRelease, Start,
         RefuseCreate, RefuseStart, PollPasses, PollAgain, PollFails, Rename
    <2>3. Begin(c) \/ (Busy(c) /\ \A d \in Containers : d # c => pc'[d] = pc[d])
      BY <2>1 DEF Work, Stop, Remove, Pull, RunRelease, RefuseRelease, EndRelease, Start,
         RefuseCreate, RefuseStart, PollPasses, PollAgain, PollFails, Rename, At, Starting,
         Busy, Over, Goto, Raise, TypeOK
    <2> QED
      BY <2>2, <2>3 DEF Busy
  <1>3. CASE \E c \in Containers : Trouble(c)
    <2>1. PICK c \in Containers : Trouble(c)
      BY <1>3
    <2>2. UNCHANGED <<plan, want>>
      BY <2>1 DEF Trouble, CallFails, Die, HealthReport, FailRelease, StartFails,
         OtherReleaseStarts, OtherReleaseEnds, EditBundle, MoveImage, passVars
    <2>3. UNCHANGED pc \/ (Busy(c) /\ \A d \in Containers : d # c => pc'[d] = pc[d])
      BY <2>1 DEF Trouble, CallFails, Die, HealthReport, FailRelease, StartFails,
         OtherReleaseStarts, OtherReleaseEnds, EditBundle, MoveImage, passVars, At, Starting,
         Busy, Over, Goto, Raise, TypeOK
    <2> QED
      BY <2>2, <2>3 DEF Busy
  <1>4. CASE Play \/ \E next \in {"failed", "idle"} : Crash(next)
    BY <1>4 DEF Play, StartPass, Report, Close, CleanCanaries, Crash
  <1> QED
    BY <1>1, <1>2, <1>3, <1>4 DEF Next

LEMMA OrderStep ==
    ASSUME TypeOK, PlanInv, PhaseOrder, [Next]_vars
    PROVE  PhaseOrder'
  <1>1. CASE pass' # "run"
    BY <1>1 DEF PhaseOrder
  <1>2. CASE pass # "run" /\ pass' = "run"
    <2>1. StartPass
      BY <1>2 DEF Next, Work, Trouble, Play, Begin, Stop, Remove, Pull, RunRelease, RefuseRelease,
         EndRelease, Start, RefuseCreate, RefuseStart, PollPasses, PollAgain, PollFails, Rename,
         CallFails, Die, HealthReport, FailRelease, StartFails, OtherReleaseStarts,
         OtherReleaseEnds, EditBundle, MoveImage, Report, Close, CleanCanaries, Crash, vars,
         passVars, At, Starting
    <2> QED
      BY <2>1 DEF StartPass, PhaseOrder, Busy, Over
  <1>3. CASE pass = "run" /\ pass' = "run" /\ \E c \in Containers : Begin(c)
    <2>1. PICK c \in Containers : Begin(c)
      BY <1>3
    <2>2. /\ Turn(c) /\ pc[c] = "queued" /\ plan' = plan
          /\ \A d \in Containers : d # c => pc'[d] = pc[d]
      BY <2>1 DEF Begin, At, Goto, TypeOK
    <2>3. \A d \in Containers : Acting(d) => (plan[d] # "remove" => d \in Names)
      BY <1>3 DEF PlanInv, Listed, Acting, Kinds
    <2>4. Acting(c)
      BY <1>3, <2>2, StepsOfFacts DEF PlanInv, Acting, TypeOK
    <2>5. ~Busy(c)
      BY <2>2 DEF Busy
    <2>6. ASSUME NEW d \in Containers, Busy(d), NEW e \in Containers, e # d, Acting(e),
                 d # c, e # c
          PROVE  /\ Stage(e) < Stage(d) => pc'[e] \in Over
                 /\ Busy(e) => plan[d] # "swap"
      BY <1>3, <2>2, <2>6 DEF PhaseOrder
    <2>7. ASSUME NEW d \in Containers, d # c, Acting(d)
          PROVE  /\ Stage(d) < Stage(c) => pc'[d] \in Over
                 /\ Busy(d) => plan[c] # "swap"
      BY <2>2, <2>7, OneWorker DEF Turn
    <2>8. ASSUME NEW d \in Containers, d # c, Busy(d), Acting(d)
          PROVE  ~(Stage(c) < Stage(d)) /\ plan[d] # "swap"
      <3>1. ~(Stage(c) < Stage(d))
        BY <1>3, <2>2, <2>4, <2>8 DEF PhaseOrder, Over
      <3>2. ~(Stage(d) < Stage(c))
        BY <2>2, <2>8 DEF Turn, Busy
      <3>3. Stage(c) = Stage(d)
        BY <2>3, <2>4, <2>8, <3>1, <3>2, StageFacts
      <3>4. plan[c] # "swap"
        BY <2>7, <2>8
      <3> QED
        BY <2>3, <2>4, <2>8, <3>3, <3>4, StageFacts
    <2>9. \A d \in Containers : Busy(d) => Acting(d)
      BY <1>3, KindOfStep DEF Acting, Kinds
    <2> QED
      BY <2>2, <2>6, <2>7, <2>8, <2>9 DEF PhaseOrder, Busy, Acting, Stage
  <1>4. CASE pass = "run" /\ pass' = "run" /\ ~\E c \in Containers : Begin(c)
    BY <1>4, OnlyBeginBegins DEF PhaseOrder, Acting, Stage
  <1> QED
    BY <1>1, <1>2, <1>3, <1>4 DEF TypeOK

\* Dependencies come first and a canary swap has the box to itself, in every
\* state, whatever crashes and whatever fails (executor._run_phase).
THEOREM PhasesInOrder == Spec => []PhaseOrder
  <1>1. Init => PhaseOrder
    BY DEF Init, PhaseOrder
  <1> QED
    BY <1>1, TypeCorrect, OrderStep, PTL DEF Spec

-----------------------------------------------------------------------------
(* The canary outlives the old container.                                    *)

\* The steps of a swap from its health wait to its rename.
Swapping == {"health", "stop", "remove", "rename"}

\* Through those steps the canary is there, with the bundle's hash and, unless
\* the tag moved since, the image the tag names.
CanaryFresh(n) ==
    /\ Present(CanaryOf(n)) /\ box[CanaryOf(n)].cfg = want[n]
    /\ n \in moved \/ box[CanaryOf(n)].image = local[n]

CopyInv ==
    pass = "run" => \A n \in Names :
        plan[n] = "swap" /\ pc[n] \in Swapping => CanaryFresh(n)

\* No removal of an orphan is under way while a swap is: those come last.
LEMMA NoRemovalDuringSwap ==
    ASSUME TypeOK, PlanInv, PhaseOrder, pass = "run", NEW n \in Names,
           plan[n] = "swap", pc[n] \notin Over,
           NEW c \in Containers, plan[c] = "remove"
    PROVE  ~Busy(c)
  <1>1. n # c /\ Acting(n) /\ Acting(c) /\ n \in Containers
    BY CanaryFacts DEF Acting, Kinds
  <1>2. Stage(n) < Stage(c)
    BY <1>1, StageFacts
  <1> QED
    BY <1>1, <1>2 DEF PhaseOrder

\* What a step of one thread does to the canary of another swap: nothing that
\* matters to it.
LEMMA OthersKeepCanary ==
    ASSUME TypeOK, PlanInv, PhaseOrder, pass = "run", NEW c \in Containers, Work(c),
           NEW n \in Names, n # c, plan[n] = "swap", pc[n] \in Swapping, CanaryFresh(n)
    PROVE  CanaryFresh(n)'
  <1> USE KindOfStep
  <1>1. /\ CanaryOf(n) \in Containers /\ c # n
        /\ Subject(c) = CanaryOf(n) => c = CanaryOf(n) /\ Subject(c) = c
    BY CanaryFacts DEF Subject, Rescue
  <1>2. UNCHANGED <<want, moved>> /\ local'[n] = local[n]
    BY DEF Work, Begin, Stop, Remove, Pull, RunRelease, RefuseRelease, EndRelease, Start,
       RefuseCreate, RefuseStart, PollPasses, PollAgain, PollFails, Rename, dockerVars, TypeOK
  <1>3. CASE box'[CanaryOf(n)] = box[CanaryOf(n)]
    BY <1>2, <1>3 DEF CanaryFresh, Present
  <1>4. CASE Stop(c)
    <2>1. CASE Subject(c) = CanaryOf(n) /\ Running(Subject(c))
      BY <1>1, <1>2, <1>4, <2>1, TurnedType DEF Stop, CanaryFresh, Present, TypeOK, Status
    <2> QED
      BY <1>1, <1>3, <1>4, <2>1 DEF Stop, TypeOK
  <1>5. CASE Remove(c)
    <2>1. Subject(c) # CanaryOf(n)
      <3> SUFFICES ASSUME Subject(c) = CanaryOf(n) PROVE FALSE
        OBVIOUS
      <3>1. plan[c] = "remove" /\ Busy(c)
        BY <1>1, <1>5, CanaryFacts DEF Remove, Busy, Over, Rescue
      <3> QED
        BY <3>1, NoRemovalDuringSwap DEF Swapping, Over
    <2> QED
      BY <1>1, <1>3, <1>5, <2>1 DEF Remove, TypeOK
  <1>6. CASE c \in Names /\ (Start(c) \/ RefuseStart(c))
    BY <1>1, <1>3, <1>6, CanaryFacts DEF Start, RefuseStart, TypeOK
  <1>7. CASE c \in Names /\ Rename(c)
    BY <1>1, <1>3, <1>7, CanaryFacts DEF Rename, TypeOK
  <1>8. CASE Begin(c) \/ (c \in Names /\ (Pull(c) \/ RunRelease(c) \/ RefuseRelease(c)
               \/ EndRelease(c) \/ RefuseCreate(c) \/ PollPasses(c) \/ PollAgain(c)
               \/ PollFails(c)))
    BY <1>3, <1>8 DEF Begin, Pull, RunRelease, RefuseRelease, EndRelease, RefuseCreate,
       PollPasses, PollAgain, PollFails, dockerVars
  <1> QED
    BY <1>4, <1>5, <1>6, <1>7, <1>8 DEF Work

\* The swap's own step: its canary is created fresh and stays until the rename.
LEMMA OwnCanary ==
    ASSUME TypeOK, PlanInv, PhaseOrder, CopyInv, pass = "run", NEW n \in Names, Work(n),
           plan[n] = "swap", pc'[n] \in Swapping
    PROVE  CanaryFresh(n)'
  <1> USE KindOfStep, CanaryFacts
  <1>1. /\ n \in Containers /\ CanaryOf(n) \in Containers /\ n # CanaryOf(n)
        /\ pc[n] # "start" /\ plan' = plan
    BY DEF Work, Begin, Stop, Remove, Pull, RunRelease, RefuseRelease, EndRelease, Start,
       RefuseCreate, RefuseStart, PollPasses, PollAgain, PollFails, Rename
  <1>2. CASE Begin(n) \/ Pull(n) \/ RunRelease(n) \/ EndRelease(n)
    <2>1. FirstStep(n) \notin Swapping /\ AfterPull(n) \notin Swapping
          /\ AfterRelease(n) \notin Swapping
      BY DEF FirstStep, AfterPull, AfterRelease, Swapping
    <2>2. pc'[n] \in {FirstStep(n), AfterPull(n), AfterRelease(n), "releasing"}
      BY <1>1, <1>2 DEF Begin, Pull, RunRelease, EndRelease, Goto, TypeOK
    <2> QED
      BY <2>1, <2>2 DEF Swapping
  <1>3. CASE RefuseRelease(n) \/ RefuseCreate(n) \/ RefuseStart(n) \/ PollFails(n) \/ Rename(n)
    BY <1>1, <1>3 DEF RefuseRelease, RefuseCreate, RefuseStart, PollFails, Rename, Raise, Goto,
       TypeOK, Swapping
  <1>4. CASE Start(n)
    <2>1. pc[n] = "canary" /\ Subject(n) = CanaryOf(n)
      BY <1>1, <1>4 DEF Start, Starting, Goto, TypeOK, Swapping, Subject
    <2>2. box'[CanaryOf(n)] = Started(n) /\ UNCHANGED <<want, local, moved>>
      BY <1>1, <1>4, <2>1 DEF Start, TypeOK
    <2>3. Started(n) # Absent /\ Started(n).cfg = want[n] /\ Started(n).image = local[n]
      BY <1>1, <1>4, NewContainerType DEF Start, Creatable, Started, Status, Up
    <2> QED
      BY <2>2, <2>3 DEF CanaryFresh, Present
  <1>5. CASE PollPasses(n) \/ PollAgain(n)
    <2>1. CanaryFresh(n)
      BY <1>5 DEF CopyInv, PollPasses, PollAgain, At, Swapping
    <2> QED
      BY <1>5, <2>1 DEF PollPasses, PollAgain, CanaryFresh, Present, dockerVars
  <1>6. CASE Stop(n) \/ Remove(n)
    <2>1. pc[n] \in {"stop", "remove"} /\ Subject(n) = n
      BY <1>1, <1>6 DEF Stop, Remove, AfterStop, AfterRemove, Goto, TypeOK, Swapping, Subject
    <2>2. CanaryFresh(n)
      BY <1>6, <2>1 DEF CopyInv, Stop, Remove, Swapping
    <2>3. box'[CanaryOf(n)] = box[CanaryOf(n)] /\ UNCHANGED <<want, local, moved>>
      BY <1>1, <1>6, <2>1 DEF Stop, Remove, TypeOK
    <2> QED
      BY <2>2, <2>3 DEF CanaryFresh, Present
  <1> QED
    BY <1>1, <1>2, <1>3, <1>4, <1>5, <1>6 DEF Work

LEMMA TroubleKeepsCanary ==
    ASSUME TypeOK, PlanInv, CopyInv, pass = "run", NEW c \in Containers, Trouble(c),
           NEW n \in Names, plan[n] = "swap", pc'[n] \in Swapping
    PROVE  CanaryFresh(n)'
  <1> USE KindOfStep, CanaryFacts
  <1>1. pc'[n] = pc[n] /\ pc[n] \in Swapping /\ CanaryFresh(n)
    <2>1. UNCHANGED pc \/ (Busy(c) /\ Raise(c))
      BY DEF Trouble, CallFails, Die, HealthReport, FailRelease, StartFails,
         OtherReleaseStarts, OtherReleaseEnds, EditBundle, MoveImage, passVars, At, Starting,
         Busy, Over
    <2>2. pc'[n] = pc[n]
      BY <2>1 DEF Raise, Goto, TypeOK, Swapping, Containers
    <2> QED
      BY <2>2 DEF CopyInv
  <1>2. want' = want
    BY DEF Trouble, CallFails, Die, HealthReport, FailRelease, StartFails,
       OtherReleaseStarts, OtherReleaseEnds, EditBundle, MoveImage
  <1>3. moved \subseteq moved' /\ (n \in moved' \/ local'[n] = local[n])
    BY DEF Trouble, CallFails, Die, HealthReport, FailRelease, StartFails,
       OtherReleaseStarts, OtherReleaseEnds, EditBundle, MoveImage, dockerVars, TypeOK
  <1>4. CanaryOf(n) \in Containers /\ Present(CanaryOf(n))
    BY <1>1 DEF CanaryFresh
  <1>5. /\ Present(CanaryOf(n))'
        /\ box'[CanaryOf(n)].cfg = box[CanaryOf(n)].cfg
        /\ box'[CanaryOf(n)].image = box[CanaryOf(n)].image
    <2>1. CASE UNCHANGED box
      BY <1>4, <2>1 DEF Present
    <2>2. CASE \E status \in Status : box' = [box EXCEPT ![c] = Turned(c, status)] /\ Present(c)
      BY <1>4, <2>2, TurnedType DEF Present, TypeOK
    <2>3. CASE c \in Names /\ StartFails(c)
      <3>1. Subject(c) # CanaryOf(n)
        BY <1>4, <2>3 DEF StartFails, Creatable
      <3> QED
        BY <1>4, <2>3, <3>1 DEF StartFails, TypeOK, Present
    <2> QED
      BY <2>1, <2>2, <2>3 DEF Trouble, CallFails, Die, HealthReport, FailRelease,
         OtherReleaseStarts, OtherReleaseEnds, EditBundle, MoveImage, dockerVars, Running,
         Status, Up
  <1> QED
    BY <1>1, <1>2, <1>3, <1>5 DEF CanaryFresh

LEMMA CopyStep ==
    ASSUME TypeOK, PlanInv, PhaseOrder, CopyInv, [Next]_vars
    PROVE  CopyInv'
  <1> SUFFICES ASSUME pass' = "run", NEW n \in Names, plan'[n] = "swap", pc'[n] \in Swapping
               PROVE  CanaryFresh(n)'
    BY DEF CopyInv
  <1>1. CASE UNCHANGED vars
    BY <1>1 DEF vars, dockerVars, passVars, CopyInv, CanaryFresh, Present
  <1>2. CASE \E c \in Containers : Work(c)
    <2>1. PICK c \in Containers : Work(c)
      BY <1>2
    <2>2. pass = "run" /\ plan' = plan
      BY <2>1 DEF Work, Begin, Stop, Remove, Pull, RunRelease, RefuseRelease, EndRelease, Start,
         RefuseCreate, RefuseStart, PollPasses, PollAgain, PollFails, Rename, At, Starting
    <2>3. CASE c = n
      BY <2>1, <2>2, <2>3, OwnCanary
    <2>4. CASE c # n
      <3>1. pc'[n] = pc[n]
        BY <2>1, <2>4 DEF Work, Begin, Stop, Remove, Pull, RunRelease, RefuseRelease, EndRelease,
           Start, RefuseCreate, RefuseStart, PollPasses, PollAgain, PollFails, Rename, Goto,
           Raise, TypeOK, Containers
      <3> QED
        BY <2>1, <2>2, <2>4, <3>1, OthersKeepCanary DEF CopyInv
    <2> QED
      BY <2>3, <2>4
  <1>3. CASE \E c \in Containers : Trouble(c)
    <2>1. PICK c \in Containers : Trouble(c)
      BY <1>3
    <2>2. pass = "run" /\ plan' = plan
      BY <2>1 DEF Trouble, CallFails, Die, HealthReport, FailRelease, StartFails,
         OtherReleaseStarts, OtherReleaseEnds, EditBundle, MoveImage, passVars
    <2> QED
      BY <2>1, <2>2, TroubleKeepsCanary
  <1>4. CASE Play \/ \E next \in {"failed", "idle"} : Crash(next)
    <2>1. StartPass
      BY <1>4 DEF Play, Report, Close, CleanCanaries, Crash
    <2> QED
      BY <2>1 DEF StartPass, Swapping, Containers
  <1> QED
    BY <1>1, <1>2, <1>3, <1>4 DEF Next

\* Between its health gate and its rename a swap has its canary: whatever the
\* other threads, a crash or a dying container do, the old one is stopped only
\* when its successor exists (executor._canary_swap).
THEOREM CanaryOutlives == Spec => []SwapKeepsACopy
  <1>1. Init => CopyInv
    BY DEF Init, CopyInv
  <1>2. CopyInv => SwapKeepsACopy
    BY DEF CopyInv, SwapKeepsACopy, CanaryFresh, Swapping
  <1> QED
    BY <1>1, <1>2, TypeCorrect, PhasesInOrder, CopyStep, PTL DEF Spec

-----------------------------------------------------------------------------
(* The release gate.                                                         *)

\* A change of a name with a release command is past its release only when the
\* command exited 0 in this pass.
GateInv ==
    pass = "run" => \A n \in Releasing :
        plan[n] \in {"recreate", "swap"} /\ pc[n] \notin Launch => n \in released

LEMMA GateStep ==
    ASSUME TypeOK, PlanInv, GateInv, [Next]_vars
    PROVE  GateInv'
  <1> USE KindOfStep, CanaryFacts DEF ConstantsOK
  <1> SUFFICES ASSUME pass' = "run", NEW n \in Releasing, plan'[n] \in {"recreate", "swap"},
                      pc'[n] \notin Launch
               PROVE  n \in released'
    BY DEF GateInv
  <1>1. CASE UNCHANGED vars
    BY <1>1 DEF vars, passVars, GateInv
  <1>2. CASE \E c \in Containers : Work(c)
    <2>1. PICK c \in Containers : Work(c)
      BY <1>2
    <2>2. pass = "run" /\ plan' = plan /\ released \subseteq released'
      BY <2>1 DEF Work, Begin, Stop, Remove, Pull, RunRelease, RefuseRelease, EndRelease, Start,
         RefuseCreate, RefuseStart, PollPasses, PollAgain, PollFails, Rename, At, Starting
    <2>3. CASE pc[n] \notin Launch
      BY <2>2, <2>3 DEF GateInv
    <2>4. CASE pc[n] \in Launch /\ c # n
      BY <2>1, <2>4 DEF Work, Begin, Stop, Remove, Pull, RunRelease, RefuseRelease,
         EndRelease, Start, RefuseCreate, RefuseStart, PollPasses, PollAgain, PollFails, Rename,
         Goto, Raise, TypeOK, Containers
    <2>5. CASE pc[n] \in Launch /\ c = n
      <3>1. Begin(n) \/ Pull(n) \/ RunRelease(n) \/ EndRelease(n) \/ RefuseRelease(n)
        BY <2>1, <2>5 DEF Work, Stop, Remove, Start, RefuseCreate, RefuseStart, PollPasses,
           PollAgain, PollFails, Rename, At, Starting, Launch
      <3>2. ~Begin(n) /\ ~Pull(n)
        BY <2>2 DEF Begin, Pull, FirstStep, AfterPull, Goto, TypeOK, Containers, Launch
      <3>3. ~RunRelease(n) /\ ~RefuseRelease(n)
        BY <2>5 DEF RunRelease, RefuseRelease, At, Raise, Goto, TypeOK, Containers, Launch
      <3> QED
        BY <3>1, <3>2, <3>3 DEF EndRelease
    <2> QED
      BY <2>3, <2>4, <2>5
  <1>3. CASE \E c \in Containers : Trouble(c)
    <2>1. PICK c \in Containers : Trouble(c)
      BY <1>3
    <2>2. pass = "run" /\ plan' = plan /\ released' = released
      BY <2>1 DEF Trouble, CallFails, Die, HealthReport, FailRelease, StartFails,
         OtherReleaseStarts, OtherReleaseEnds, EditBundle, MoveImage, passVars
    <2>3. UNCHANGED pc \/ (Busy(c) /\ Raise(c))
      BY <2>1 DEF Trouble, CallFails, Die, HealthReport, FailRelease, StartFails,
         OtherReleaseStarts, OtherReleaseEnds, EditBundle, MoveImage, passVars, At, Starting,
         Busy, Over
    <2>4. pc[n] \notin Launch
      BY <2>3 DEF Raise, Goto, TypeOK, Containers, Launch
    <2> QED
      BY <2>2, <2>4 DEF GateInv
  <1>4. CASE Play \/ \E next \in {"failed", "idle"} : Crash(next)
    <2>1. StartPass
      BY <1>4 DEF Play, Report, Close, CleanCanaries, Crash
    <2> QED
      BY <2>1 DEF StartPass, Launch, Containers
  <1> QED
    BY <1>1, <1>2, <1>3, <1>4 DEF Next

\* Who can stop or remove the container of a listed name: its own thread.
LEMMA OwnThread ==
    ASSUME TypeOK, PlanInv, pass = "run", NEW n \in Names, plan[n] \in {"recreate", "swap"},
           [Next]_vars, Present(n), pc'[n] # pc[n],
           ~Present(n)' \/ (Running(n) /\ ~Running(n)')
    PROVE  pc[n] \notin Launch
  <1> USE KindOfStep, CanaryFacts
  <1>1. box'[n] # box[n]
    BY DEF Present, Running
  <1>2. ~(\E c \in Containers : Trouble(c))
    <2> SUFFICES ASSUME NEW c \in Containers, Trouble(c) PROVE FALSE
      OBVIOUS
    <2>1. c \in Names /\ StartFails(c)
      BY <1>1 DEF Trouble, CallFails, Die, HealthReport, FailRelease, OtherReleaseStarts,
         OtherReleaseEnds, EditBundle, MoveImage, passVars, dockerVars
    <2>2. Subject(c) # n
      BY <2>1 DEF StartFails, Creatable
    <2> QED
      BY <1>1, <2>1, <2>2 DEF StartFails, TypeOK
  <1>3. ~(Play \/ \E next \in {"failed", "idle"} : Crash(next))
    BY <1>1 DEF Play, StartPass, Report, Close, CleanCanaries, Crash
  <1>4. PICK c \in Containers : Work(c)
    BY <1>1, <1>2, <1>3 DEF Next, vars, dockerVars
  <1>5. c = n
    BY <1>4 DEF Work, Begin, Stop, Remove, Pull, RunRelease, RefuseRelease, EndRelease,
       Start, RefuseCreate, RefuseStart, PollPasses, PollAgain, PollFails, Rename,
       Goto, Raise, TypeOK, Containers
  <1> QED
    BY <1>1, <1>4, <1>5 DEF Work, Begin, Pull, RunRelease, RefuseRelease, EndRelease, Stop,
       Remove, Start, RefuseCreate, RefuseStart, PollPasses, PollAgain, PollFails, Rename, At,
       Starting, dockerVars, Launch

\* No change stops or removes the old container of a name with a release command
\* before that command exited 0 in the same pass (executor._release).
THEOREM ReleaseFirst == Spec => ReleaseGate
  <1>1. Init => GateInv
    BY DEF Init, GateInv
  <1>2. TypeOK /\ PlanInv /\ GateInv /\ [Next]_vars =>
          [\A n \in Releasing :
             pass = "run" /\ plan[n] \in {"recreate", "swap"} /\ Present(n)
               /\ pc[n] # pc'[n] /\ (~Present(n)' \/ (Running(n) /\ ~Running(n)'))
             => n \in released]_vars
    BY OwnThread DEF GateInv, ConstantsOK
  <1> QED
    BY <1>1, <1>2, TypeCorrect, GateStep, PTL DEF Spec, ReleaseGate

-----------------------------------------------------------------------------
(* What a pass that reports ok means.                                        *)

\* A listed container whose action is over is what the bundle asks for.
Settled(c) == pc[c] = "done" /\ Listed(c) => Fresh(c) \/ (c \in moved /\ Hashed(c))

\* A managed container the bundle does not list, with no removal ahead of it, is
\* the canary of a swap that is not over, or that failed.
Overlap == {"health", "stop", "remove", "rename",
            "rescue_stop_canary", "rescue_remove_canary", "failed"}
Accounted(c) ==
    pc[c] = "done" /\ ~Listed(c) /\ RemoveOrphans /\ Managed(c) =>
        \E n \in Names : c = CanaryOf(n) /\ plan[n] = "swap" /\ pc[n] \in Overlap

ConvInv ==
    pass \in {"run", "ok"} => \A c \in Containers :
        /\ Settled(c) /\ Accounted(c)
        /\ pass = "ok" => pc[c] = "done"

\* What every step of a thread leaves alone.
LEMMA WorkFrame ==
    ASSUME TypeOK, PlanInv, NEW c \in Containers, Work(c)
    PROVE  /\ pass = "run" /\ UNCHANGED <<want, pass, plan, moved>>
           /\ \A x \in Containers : x # c => pc'[x] = pc[x]
           /\ \A n \in Names : n # c => local'[n] = local[n] /\ box'[n] = box[n]
           /\ pc[c] \notin Over
  <1> USE KindOfStep, CanaryFacts
  <1>1. /\ pass = "run" /\ UNCHANGED <<want, pass, plan, moved>>
        /\ pc[c] \notin Over
    BY DEF Work, Begin, Stop, Remove, Pull, RunRelease, RefuseRelease, EndRelease, Start,
       RefuseCreate, RefuseStart, PollPasses, PollAgain, PollFails, Rename, At, Starting, Over
  <1>2. \A x \in Containers : x # c => pc'[x] = pc[x]
    BY DEF Work, Begin, Stop, Remove, Pull, RunRelease, RefuseRelease, EndRelease, Start,
       RefuseCreate, RefuseStart, PollPasses, PollAgain, PollFails, Rename, Goto, Raise, TypeOK
  <1>3. \A n \in Names : n # c => local'[n] = local[n]
    BY DEF Work, Begin, Stop, Remove, Pull, RunRelease, RefuseRelease, EndRelease, Start,
       RefuseCreate, RefuseStart, PollPasses, PollAgain, PollFails, Rename, dockerVars, TypeOK
  <1>4. ASSUME NEW n \in Names, n # c PROVE box'[n] = box[n]
    <2>1. Subject(c) # n /\ (c \in Names => CanaryOf(c) # n) /\ n \in Containers
      <3>1. pc[c] \in Rescue \cup {"canary", "health"} => c \in Names
        BY <1>1
      <3> QED
        BY <1>4, <3>1 DEF Subject, Rescue
    <2> QED
      BY <1>4, <2>1 DEF Work, Begin, Stop, Remove, Pull, RunRelease, RefuseRelease, EndRelease,
         Start, RefuseCreate, RefuseStart, PollPasses, PollAgain, PollFails, Rename, dockerVars,
         TypeOK
  <1> QED
    BY <1>1, <1>2, <1>3, <1>4

LEMMA WorkSettles ==
    ASSUME TypeOK, PlanInv, CopyInv, ConvInv, NEW c \in Containers, Work(c),
           NEW x \in Containers
    PROVE  Settled(x)'
  <1> SUFFICES ASSUME pc'[x] = "done", x \in Names, want[x] # Unlisted
               PROVE  (Fresh(x) \/ (x \in moved /\ Hashed(x)))'
    BY WorkFrame DEF Settled, Listed
  <1>1. CASE c # x
    BY <1>1, WorkFrame DEF ConvInv, Settled, Listed, Fresh, Hashed, Drifted, Present
  <1>2. CASE c = x
    <2>1. (Start(x) /\ pc[x] # "canary") \/ Rename(x)
      <3>1. plan[x] # "remove" /\ pc[x] \notin Over /\ plan[x] \in Kinds
        BY <1>2, WorkFrame DEF PlanInv, Listed, TypeOK
      <3>2. FirstStep(x) # "done" /\ AfterPull(x) # "done" /\ AfterRelease(x) # "done"
            /\ AfterStop(x) # "done"
        BY DEF FirstStep, AfterPull, AfterRelease, AfterStop
      <3>3. pc[x] \in {"remove", "rescue_remove", "rescue_remove_canary"} => AfterRemove(x) # "done"
        BY <1>2, <3>1, WorkFrame, KindOfStep DEF AfterRemove, Rescue
      <3> QED
        BY <1>2, <3>1, <3>2, <3>3 DEF Work, Begin, Stop, Remove, Pull, RunRelease, RefuseRelease,
           EndRelease, Start, RefuseCreate, RefuseStart, PollPasses, PollAgain, PollFails, Goto,
           Raise, TypeOK, Over, At
    <2>2. CASE Start(x) /\ pc[x] # "canary"
      <3>1. Subject(x) = x
        BY <2>2 DEF Start, Starting, Subject
      <3>2. Started(x) # Absent /\ Started(x).cfg = want[x] /\ Started(x).image = local[x]
        BY <2>2, NewContainerType DEF Start, Creatable, Started, Status, Up
      <3>3. box'[x] = Started(x) /\ UNCHANGED <<want, local>>
        BY <2>2, <3>1 DEF Start, TypeOK
      <3> QED
        BY <3>2, <3>3 DEF Fresh, Hashed, Drifted, Present
    <2>3. CASE Rename(x)
      <3>1. plan[x] = "swap" /\ pc[x] \in Swapping /\ pass = "run"
        BY <2>3, KindOfStep DEF Rename, At, Swapping
      <3>2. CanaryFresh(x)
        BY <3>1 DEF CopyInv
      <3>3. box'[x] = box[CanaryOf(x)] /\ UNCHANGED <<want, local, moved>>
        BY <2>3, CanaryFacts DEF Rename, TypeOK
      <3> QED
        BY <3>2, <3>3 DEF CanaryFresh, Fresh, Hashed, Drifted, Present
    <2> QED
      BY <2>1, <2>2, <2>3
  <1> QED
    BY <1>1, <1>2

\* A swap's thread stays among the steps that account for its canary for as long
\* as that canary is managed.
LEMMA SwapAccounts ==
    ASSUME TypeOK, PlanInv, pass = "run", NEW n \in Names, plan[n] = "swap", Work(n),
           pc[n] \in Overlap
    PROVE  pc'[n] \in Overlap \/ ~Present(CanaryOf(n))'
  <1> USE KindOfStep, CanaryFacts
  <1>1. CASE Stop(n) \/ PollPasses(n) \/ PollFails(n) \/ PollAgain(n)
    BY <1>1 DEF Stop, PollPasses, PollFails, PollAgain, Goto, Raise, AfterStop, TypeOK, Overlap
  <1>2. CASE Remove(n)
    <2>1. CASE pc[n] = "remove"
      BY <1>2, <2>1 DEF Remove, Goto, AfterRemove, TypeOK, Overlap
    <2>2. CASE pc[n] = "rescue_remove_canary"
      BY <1>2, <2>2 DEF Remove, Subject, Present, TypeOK
    <2> QED
      BY <1>2, <2>1, <2>2 DEF Remove, Overlap
  <1>3. CASE Rename(n)
    BY <1>3 DEF Rename, Present, TypeOK
  <1> QED
    BY <1>1, <1>2, <1>3, WorkFrame DEF Work, Begin, Pull, RunRelease, RefuseRelease, EndRelease,
       Start, RefuseCreate, RefuseStart, Starting, At, Overlap

LEMMA WorkAccounts ==
    ASSUME TypeOK, PlanInv, ConvInv, NEW c \in Containers, Work(c), NEW x \in Containers
    PROVE  Accounted(x)'
  <1> USE KindOfStep, CanaryFacts
  <1> SUFFICES ASSUME pc'[x] = "done", ~Listed(x), RemoveOrphans, Managed(x)'
               PROVE  \E n \in Names : x = CanaryOf(n) /\ plan[n] = "swap" /\ pc'[n] \in Overlap
    BY WorkFrame DEF Accounted, Listed
  <1>0. UNCHANGED <<want, pass, plan>> /\ pass = "run" /\ pc[c] \notin Over
    BY WorkFrame
  <1>1. CASE c = x
    <2>1. plan[x] = "remove"
      BY <1>0, <1>1, StepsOfFacts DEF PlanInv, TypeOK, Kinds, Over
    <2>2. Remove(x) /\ Subject(x) = x
      BY <1>0, <1>1, <2>1, StepsOfFacts DEF Work, Begin, Stop, Remove, Pull, RunRelease,
         RefuseRelease, EndRelease, Start, RefuseCreate, RefuseStart, PollPasses, PollAgain,
         PollFails, Rename, Goto, Raise, TypeOK, Over, At, Starting, FirstStep, AfterStop,
         Subject, PlanInv
    <2> QED
      BY <2>2 DEF Remove, Managed, Present, TypeOK
  <1>2. CASE c # x /\ Managed(x)
    <2>1. pc[x] = "done"
      BY <1>2, WorkFrame
    <2>2. PICK n \in Names : x = CanaryOf(n) /\ plan[n] = "swap" /\ pc[n] \in Overlap
      BY <1>0, <1>2, <2>1 DEF ConvInv, Accounted
    <2>3. CASE n = c
      BY <1>0, <2>2, <2>3, SwapAccounts DEF Managed
    <2>4. CASE n # c
      BY <2>2, <2>4, WorkFrame
    <2> QED
      BY <2>3, <2>4
  <1>3. CASE c # x /\ ~Managed(x)
    <2>1. box'[x] # box[x] /\ (Present(x) /\ Present(x)' => box'[x].cfg # box[x].cfg)
      BY <1>3 DEF Managed, Present
    <2>2. c \in Names /\ (Start(c) \/ RefuseStart(c))
      <3>1. ~Stop(c)
        BY <2>1, TurnedType DEF Stop, TypeOK, Running, Present, Status
      <3>2. ~Remove(c)
        BY <1>3, <2>1 DEF Remove, TypeOK, Managed, Present
      <3>3. ~(c \in Names /\ Rename(c))
        BY <1>3, <2>1 DEF Rename, TypeOK, Managed, Present
      <3> QED
        BY <2>1, <3>1, <3>2, <3>3 DEF Work, Begin, Pull, RunRelease, RefuseRelease, EndRelease,
           RefuseCreate, PollPasses, PollAgain, PollFails, dockerVars
    <2>3. Subject(c) = x
      BY <2>1, <2>2 DEF Start, RefuseStart, TypeOK
    <2>4. pc[c] = "canary" /\ x = CanaryOf(c)
      BY <1>3, <2>2, <2>3 DEF Subject, Start, RefuseStart, Starting
    <2>5. pc'[c] \in Overlap
      BY <2>2, <2>4 DEF Start, RefuseStart, Goto, Raise, TypeOK, Overlap
    <2> QED
      BY <1>0, <2>2, <2>4, <2>5
  <1> QED
    BY <1>1, <1>2, <1>3

LEMMA TroubleFrame ==
    ASSUME TypeOK, PlanInv, NEW c \in Containers, Trouble(c), pass \in {"run", "ok"}
    PROVE  /\ UNCHANGED <<want, pass, plan>> /\ moved \subseteq moved'
           /\ \A n \in Names : n \in moved' \/ local'[n] = local[n]
           /\ UNCHANGED pc \/ (pass = "run" /\ Busy(c) /\ Raise(c))
           /\ \A x \in Containers :
                \/ box'[x] = box[x]
                \/ /\ Present(x) /\ Present(x)'
                   /\ box'[x].cfg = box[x].cfg /\ box'[x].image = box[x].image
                \/ c \in Names /\ Starting(c) /\ x = Subject(c) /\ ~Present(x) /\ Raise(c)
  <1> USE KindOfStep, CanaryFacts
  <1>1. UNCHANGED <<want, pass, plan>> /\ moved \subseteq moved'
    BY DEF Trouble, CallFails, Die, HealthReport, FailRelease, StartFails,
       OtherReleaseStarts, OtherReleaseEnds, EditBundle, MoveImage, passVars
  <1>2. \A n \in Names : n \in moved' \/ local'[n] = local[n]
    BY DEF Trouble, CallFails, Die, HealthReport, FailRelease, StartFails,
       OtherReleaseStarts, OtherReleaseEnds, EditBundle, MoveImage, dockerVars, TypeOK
  <1>3. UNCHANGED pc \/ (pass = "run" /\ Busy(c) /\ Raise(c))
    BY DEF Trouble, CallFails, Die, HealthReport, FailRelease, StartFails,
       OtherReleaseStarts, OtherReleaseEnds, EditBundle, MoveImage, passVars, At, Starting,
       Busy, Over
  <1>4. ASSUME NEW x \in Containers
        PROVE  \/ box'[x] = box[x]
               \/ /\ Present(x) /\ Present(x)'
                  /\ box'[x].cfg = box[x].cfg /\ box'[x].image = box[x].image
               \/ c \in Names /\ Starting(c) /\ x = Subject(c) /\ ~Present(x) /\ Raise(c)
    <2>1. CASE UNCHANGED box
      BY <2>1
    <2>2. CASE \E status \in Status : box' = [box EXCEPT ![c] = Turned(c, status)] /\ Present(c)
      BY <2>2, TurnedType DEF Present, TypeOK
    <2>3. CASE c \in Names /\ StartFails(c)
      BY <2>3 DEF StartFails, Creatable, TypeOK
    <2> QED
      BY <2>1, <2>2, <2>3 DEF Trouble, CallFails, Die, HealthReport, FailRelease,
         OtherReleaseStarts, OtherReleaseEnds, EditBundle, MoveImage, dockerVars, Running,
         Status, Up
  <1> QED
    BY <1>1, <1>2, <1>3, <1>4

LEMMA TroubleConv ==
    ASSUME TypeOK, PlanInv, ConvInv, NEW c \in Containers, Trouble(c), pass \in {"run", "ok"},
           NEW x \in Containers
    PROVE  Settled(x)' /\ Accounted(x)'
  <1> USE CanaryFacts
  <1>1. /\ UNCHANGED <<want, pass, plan>> /\ moved \subseteq moved'
        /\ UNCHANGED pc \/ (pass = "run" /\ Busy(c) /\ Raise(c))
    BY TroubleFrame
  <1>2. pc'[x] = "done" => pc[x] = "done"
    BY <1>1 DEF Raise, Goto, TypeOK
  <1>3. ASSUME pc'[x] = "done", x \in Names, want[x] # Unlisted
        PROVE  (Fresh(x) \/ (x \in moved /\ Hashed(x)))'
    <2>1. Hashed(x) /\ (x \in moved \/ ~Drifted(x)) /\ pc[x] = "done"
      BY <1>2, <1>3 DEF ConvInv, Settled, Listed, Fresh
    <2>2. x \in moved' \/ local'[x] = local[x]
      BY <1>3, TroubleFrame
    <2>3. Present(x)' /\ box'[x].cfg = box[x].cfg /\ box'[x].image = box[x].image
      BY <2>1, TroubleFrame DEF Hashed, Present
    <2> QED
      BY <1>1, <2>1, <2>2, <2>3 DEF Hashed, Fresh, Drifted
  <1>4. ASSUME pc'[x] = "done", ~Listed(x), RemoveOrphans, Managed(x)'
        PROVE  \E n \in Names : x = CanaryOf(n) /\ plan[n] = "swap" /\ pc'[n] \in Overlap
    <2>1. CASE Managed(x)
      <3>1. PICK n \in Names : x = CanaryOf(n) /\ plan[n] = "swap" /\ pc[n] \in Overlap
        BY <1>2, <1>4, <2>1 DEF ConvInv, Accounted
      <3> QED
        BY <1>1, <3>1 DEF Raise, Goto, TypeOK, Overlap, Busy, Over, Containers
    <2>2. CASE ~Managed(x)
      <3>1. c \in Names /\ Starting(c) /\ x = Subject(c) /\ Raise(c)
        BY <1>4, <2>2, TroubleFrame DEF Managed, Present
      <3>2. x # c
        BY <1>2, <1>4, <3>1 DEF Starting
      <3>3. x = CanaryOf(c) /\ pc[c] = "canary" /\ pass = "run"
        BY <3>1, <3>2 DEF Subject, Starting
      <3>4. plan[c] = "swap" /\ pc'[c] = "failed"
        BY <3>1, <3>3, KindOfStep DEF Raise, Goto, TypeOK
      <3> QED
        BY <3>1, <3>3, <3>4 DEF Overlap
    <2> QED
      BY <2>1, <2>2
  <1> QED
    BY <1>1, <1>3, <1>4 DEF Settled, Accounted, Listed

LEMMA ConvStep ==
    ASSUME TypeOK, PlanInv, CopyInv, ConvInv, [Next]_vars
    PROVE  ConvInv'
  <1> SUFFICES ASSUME pass' \in {"run", "ok"}, NEW x \in Containers
               PROVE  Settled(x)' /\ Accounted(x)' /\ (pass' = "ok" => pc'[x] = "done")
    BY DEF ConvInv
  <1>1. CASE UNCHANGED vars
    BY <1>1 DEF vars, dockerVars, passVars, ConvInv, Settled, Accounted, Listed, Fresh, Hashed,
       Drifted, Present, Managed
  <1>2. CASE \E c \in Containers : Work(c)
    BY <1>2, WorkFrame, WorkSettles, WorkAccounts
  <1>3. CASE \E c \in Containers : Trouble(c)
    <2>1. PICK c \in Containers : Trouble(c)
      BY <1>3
    <2>2. pass' = pass /\ (UNCHANGED pc \/ pass = "run")
      BY <2>1, TroubleFrame DEF Trouble, CallFails, Die, HealthReport, FailRelease, StartFails,
         OtherReleaseStarts, OtherReleaseEnds, EditBundle, MoveImage, passVars, At, Starting
    <2> QED
      BY <2>1, <2>2, TroubleConv DEF ConvInv
  <1>4. CASE StartPass
    <2>1. pc'[x] = "done" => Decision(x) \in {"none", "noop"}
      BY <1>4 DEF StartPass
    <2>2. Decision(x) = "noop" => Fresh(x)
      BY DEF Decision, Fresh, Hashed
    <2>3. Decision(x) = "none" => ~Listed(x) /\ (RemoveOrphans => ~Managed(x))
      BY DEF Decision
    <2>4. Decision(x) = "noop" => Listed(x)
      BY DEF Decision
    <2> QED
      BY <1>4, <2>1, <2>2, <2>3, <2>4 DEF StartPass, Settled, Accounted, Listed, Fresh, Hashed,
         Drifted, Present, Managed, dockerVars
  <1>5. CASE Report
    BY <1>5 DEF Report, Over, ConvInv, Settled, Accounted, Listed, Fresh, Hashed, Drifted,
       Present, Managed, dockerVars
  <1>6. CASE Close \/ (\E kept \in SUBSET Names : CleanCanaries(kept))
             \/ \E next \in {"failed", "idle"} : Crash(next)
    BY <1>6 DEF Close, CleanCanaries, Crash
  <1> QED
    BY <1>1, <1>2, <1>3, <1>4, <1>5, <1>6 DEF Next, Play

\* A pass that reports ok left the box as the bundle asks, for any fleet, any
\* number of faults and any interleaving of the threads; what moves a tag under
\* the pass is the one exception (planner.plan with executor.execute).
THEOREM OkIsConverged == Spec => []OkMeansConverged
  <1>1. Init => ConvInv /\ CopyInv
    BY DEF Init, ConvInv, CopyInv
  <1>2. ConvInv => OkMeansConverged
    <2> SUFFICES ASSUME ConvInv, pass = "ok", NEW c \in Containers
                 PROVE  IF Listed(c) THEN Fresh(c) \/ (c \in moved /\ Hashed(c))
                        ELSE RemoveOrphans => ~Managed(c)
      BY DEF OkMeansConverged
    <2>1. pc[c] = "done" /\ Settled(c) /\ Accounted(c)
      BY DEF ConvInv
    <2>2. \A n \in Names : pc[n] \notin Overlap
      BY CanaryFacts DEF ConvInv, Overlap
    <2> QED
      BY <2>1, <2>2 DEF Settled, Accounted
  <1> QED
    BY <1>1, <1>2, TypeCorrect, PhasesInOrder, CopyStep, ConvStep, PTL DEF Spec

=============================================================================
