------------------------------ MODULE FleetRun ------------------------------
(***************************************************************************)
(* Several machines deploy one fleet.  Each has a checkout of the fleet    *)
(* repository; the remote branch is their only channel.  A run (bay up,    *)
(* bay rollback, a route-only up, bay deploy, bay fleet push) holds the    *)
(* lock of its checkout.  bay up pulls, plans, writes the pins it wants    *)
(* into the lock records as pending, commits, and claims: it pushes that   *)
(* commit before the playbook touches a box.  Afterwards it reads the      *)
(* receipts of the boxes, writes the results, and pushes again.            *)
(*                                                                         *)
(* A commit holds its whole tree, as in git: the lock record of every      *)
(* project.  The services file is a function of the records and is not     *)
(* modelled.  One box environment; a project lives on one box.  A run is   *)
(* one process and one attempt.                                            *)
(***************************************************************************)
EXTENDS Integers, Sequences, FiniteSets, SequencesExt

CONSTANTS
    Checkouts,      \* one per machine
    Runs, At,       \* processes, and the checkout each runs in
    Jobs,           \* run -> the jobs it may do: [kind, members, pin, takeOver]
    Projects, Boxes, BoxOf,
    Pins,           \* application commits, numbers; 0 is what Init runs
    Rebases,        \* push_with_rebase's attempts of bay up
    MaxEvents       \* bound: faults, stops and kills, commits of other sessions

None == "none"
NoPin == -1
Kinds == {"up", "rollback", "routes", "deploy", "push"}
JobSet == [kind : Kinds, members : SUBSET Projects, pin : Pins, takeOver : BOOLEAN]

ASSUME FleetConstants ==
    /\ At \in [Runs -> Checkouts] /\ BoxOf \in [Projects -> Boxes]
    /\ \A r \in Runs : Jobs[r] \subseteq JobSet
    \* bay deploy and bay fleet push name no project.
    /\ \A r \in Runs : \A j \in Jobs[r] : j.kind \in {"deploy", "push"} => j.members = {}
    /\ Pins \subseteq Nat /\ 0 \in Pins
    /\ Rebases \in Nat \ {0} /\ MaxEvents \in Nat
    /\ None \notin Runs \cup Checkouts /\ Runs \cap Checkouts = {}

VARIABLES
    remote,         \* the remote branch: a sequence of commits
    head,           \* per checkout: its branch
    work,           \* per checkout: the lock files on disk
    pc, job,        \* per run: where it is, what it does
    base, claimed,  \* per run: HEAD before its commit, and its fleet commit
    tries,          \* per run: rebases left
    ship,           \* per run: the commit the playbook deploys
    play,           \* per run and box: where the play is on that box
    running,        \* project -> the pin its box runs
    receipt,        \* box -> [commit, result] of the last receipt
    boxLock,        \* boxes with a deploy lock file
    old,            \* runs whose claim is older than CLAIM_FRESH_SECONDS
    outcome,        \* per run: how it ended
    ran,            \* history: <<project, pin>> a box reported ok
    torn,           \* history: checkouts whose run was killed with half written locks
    excuses,        \* history: how two runs came to deploy at once
    hands,          \* history: checkouts where another session committed
    events

gitVars == <<remote, head, work>>
runVars == <<job, base, claimed, tries, ship>>
boxVars == <<running, receipt, boxLock, ran>>
history == <<torn, excuses, hands>>
vars == <<gitVars, pc, runVars, play, boxVars, old, outcome, history, events>>

Tree(log) == Last(log).tree
Clean(c) == work[c] = Tree(head[c])

Live(r) == pc[r] \notin {"idle", "off"}
Busy(c) == \E r \in Runs : At[r] = c /\ Live(r)
Scope(r) == IF job[r].members = {} THEN Boxes ELSE {BoxOf[p] : p \in job[r].members}

NoJob == [kind |-> None, members |-> {}, pin |-> 0, takeOver |-> FALSE]
FirstRecord == [pin |-> 0, result |-> "ok", claim |-> None, plan |-> None, prev |-> NoPin]
Root == [by |-> None, kind |-> "init", tree |-> [p \in Projects |-> FirstRecord], copy |-> 0]

Init ==
    /\ remote = <<Root>>
    /\ head = [c \in Checkouts |-> <<Root>>]
    /\ work = [c \in Checkouts |-> Root.tree]
    /\ pc = [r \in Runs |-> "idle"]
    /\ job = [r \in Runs |-> NoJob]
    /\ base = [r \in Runs |-> 0]
    /\ claimed = [r \in Runs |-> Root]
    /\ tries = [r \in Runs |-> 0]
    /\ ship = [r \in Runs |-> Root]
    /\ play = [r \in Runs |-> [b \in Boxes |-> "no"]]
    /\ running = [p \in Projects |-> 0]
    /\ receipt = [b \in Boxes |-> [commit |-> Root, result |-> "ok"]]
    /\ boxLock = {}
    /\ old = {}
    /\ outcome = [r \in Runs |-> None]
    /\ ran = Projects \X {0}
    /\ torn = {} /\ excuses = {} /\ hands = {}
    /\ events = 0

Fault == events < MaxEvents /\ events' = events + 1
Smooth == UNCHANGED events
Goto(r, place) == pc' = [pc EXCEPT ![r] = place]
Exit(r, how) == Goto(r, "off") /\ outcome' = [outcome EXCEPT ![r] = how]

-----------------------------------------------------------------------------
(* The run lock, the pull and the plan. *)

\* run_lock: an exclusive flock per fleet folder, dropped by the kernel at exit.
Start(r) ==
    /\ pc[r] = "idle" /\ ~Busy(At[r])
    /\ \E j \in Jobs[r] :
         /\ job' = [job EXCEPT ![r] = j]
         /\ tries' = [tries EXCEPT ![r] = IF j.kind = "push" THEN 1 ELSE Rebases]
         /\ Goto(r, IF j.kind \in {"deploy", "push"} THEN j.kind ELSE "start")
    /\ UNCHANGED <<gitVars, base, claimed, ship, play, boxVars, old, outcome, history, events>>

\* git merge --ff-only @{u}; it refuses when a file it would write is edited.
CanForward(c) == \A p \in Projects : remote[Len(remote)].tree[p] # Tree(head[c])[p]
                                       => work[c][p] = Tree(head[c])[p]
Forward(c) ==
    /\ head' = [head EXCEPT ![c] = remote]
    /\ work' = [work EXCEPT ![c] =
         [p \in Projects |-> IF Tree(remote)[p] # Tree(head[c])[p] THEN Tree(remote)[p] ELSE @[p]]]

\* state: commits of the remote that the checkout lacks, and none of its own.
BehindOnly(c) == IsPrefix(head[c], remote) /\ head[c] # remote

\* pull_if_behind: only a fleet that is behind and not ahead is moved.
Pull(r) ==
    LET c == At[r]
        only == BehindOnly(c)
    IN
    /\ pc[r] = "start"
    /\ \/ only /\ CanForward(c) /\ Forward(c) /\ Goto(r, "pulled") /\ Smooth /\ UNCHANGED outcome
       \/ only /\ ~CanForward(c) /\ UNCHANGED <<head, work>> /\ Exit(r, "blocked") /\ Smooth
       \/ ~only /\ Goto(r, "pulled") /\ Smooth /\ UNCHANGED <<head, work, outcome>>
       \/ Fault /\ Goto(r, "pulled") /\ UNCHANGED <<head, work, outcome>>
    /\ UNCHANGED <<remote, runVars, play, boxVars, old, history>>

\* A pending record this run may not deploy over: its claim is fresh, of another
\* process, and not provably gone (same host, no such pid).
Fresh(record) == record.result = "pending" /\ record.claim # None /\ record.claim \notin old
ClaimState(r, q) == IF q = r THEN "own"
                    ELSE IF At[q] = At[r] /\ pc[q] = "off" THEN "dead" ELSE "live"
ForeignClaims(r) ==
    {work[At[r]][p].claim : p \in {x \in Projects : /\ Fresh(work[At[r]][x])
                                                    /\ ClaimState(r, work[At[r]][x].claim) = "live"}}

\* A play that still runs, of a living run or of a killed one it outlived.
Playing(r) == \E b \in Boxes : play[r][b] \in {"wait", "clear", "held", "done"}
\* How a run that is not over comes to share its environment with run r.
Shares(r) ==
    {e \in {"takeover", "expired", "orphan"} :
        \E q \in Runs \ {r}, p \in Projects :
            /\ work[At[r]][p].result = "pending" /\ work[At[r]][p].claim = q
            /\ Live(q) \/ Playing(q)
            /\ \/ e = "takeover" /\ job[r].takeOver
               \/ e = "expired" /\ q \in old
               \/ e = "orphan" /\ ~Live(q)}

WantedPin(r, p) == IF job[r].kind = "rollback" THEN work[At[r]][p].prev ELSE job[r].pin

\* make_plan and _gate: fetch again; unreachable, diverged, behind, an edited lock
\* and (unless --take-over) another run's fresh claim block.
\* Mutants: without the look at the claims, without the missing rollback target.
BlockedBySync(r) ==
    \/ ~IsPrefix(remote, head[At[r]]) \/ ~Clean(At[r])
    \/ \E p \in job[r].members : WantedPin(r, p) = NoPin
Blocked(r) ==
    LET c == At[r] IN
    \/ ~IsPrefix(remote, head[c])
    \/ ~Clean(c)
    \/ ForeignClaims(r) # {} /\ ~job[r].takeOver
    \/ \E p \in job[r].members : WantedPin(r, p) = NoPin
Plan(r) ==
    /\ pc[r] = "pulled"
    /\ \/ ~Blocked(r) /\ Goto(r, "planned") /\ Smooth
          /\ excuses' = excuses \cup Shares(r) /\ UNCHANGED outcome
       \/ Blocked(r) /\ Exit(r, "blocked") /\ Smooth /\ UNCHANGED excuses
       \/ Fault /\ Exit(r, "blocked") /\ UNCHANGED excuses
    /\ UNCHANGED <<gitVars, runVars, play, boxVars, old, torn, hands>>

-----------------------------------------------------------------------------
(* The locks, the fleet commit and the claim. *)

\* Only a pin that is not failed or pending becomes the rollback target.
Confirmed(record) == record.result \notin {"failed", "pending"}
\* Mutant: the last pin, whatever became of it.
PreviousAny(record, pin) == IF record.pin = pin THEN record.prev ELSE record.pin
Previous(record, pin) ==
    IF record.pin = pin THEN record.prev
    ELSE IF Confirmed(record) THEN record.pin
    ELSE IF record.prev = pin THEN NoPin ELSE record.prev
Pending(r, record, pin) ==
    [pin |-> pin, result |-> "pending", claim |-> r, plan |-> r, prev |-> Previous(record, pin)]

WriteLocks(r) ==
    /\ pc[r] = "planned"
    /\ work' = [work EXCEPT ![At[r]] = [p \in Projects |->
         IF p \in job[r].members THEN Pending(r, @[p], WantedPin(r, p)) ELSE @[p]]]
    /\ base' = [base EXCEPT ![r] = Len(head[At[r]])]
    /\ Goto(r, "written")
    /\ UNCHANGED <<remote, head, job, claimed, tries, ship, play, boxVars, old, outcome, history, events>>

Commit(r, kind, tree) == [by |-> r, kind |-> kind, tree |-> tree, copy |-> 0]

\* gitrepo.commit_paths: only the paths of the run.
CommitLocks(r) ==
    LET fleet == Commit(r, "fleet", work[At[r]]) IN
    /\ pc[r] = "written"
    /\ head' = [head EXCEPT ![At[r]] = Append(@, fleet)]
    /\ claimed' = [claimed EXCEPT ![r] = fleet]
    /\ Goto(r, "committed")
    /\ UNCHANGED <<remote, work, job, base, tries, ship, play, boxVars, old, outcome, history, events>>

\* git push <remote> HEAD:<branch>: the remote takes only a fast-forward.
Accepts(c) == IsPrefix(remote, head[c])
PushTo(c, sent) == remote' = IF Accepts(c) /\ sent THEN head[c] ELSE remote

\* A push whose answer is lost (a timeout) may have landed or not.
PushClaim(r) ==
    /\ pc[r] = "committed"
    /\ \/ PushTo(At[r], TRUE) /\ Smooth
       \/ PushTo(At[r], FALSE) /\ Fault
    /\ Goto(r, "pushed")
    /\ UNCHANGED <<head, work, runVars, play, boxVars, old, outcome, history>>

\* Mutant: the exit code of the push is believed.
HoldsBelieved(log, commit) == Len(log) > 0
Holds(log, commit) == \E i \in DOMAIN log : log[i] = commit

\* undo: nothing when HEAD is another commit than the run's; else reset to the
\* commit before the run, and the lock files of the run come back from it.
\* Mutant: the files come back and the commit stays.
UndoFiles(r, last, how) ==
    /\ Exit(r, how)
    /\ work' = [work EXCEPT ![At[r]] = Tree(SubSeq(head[At[r]], 1, base[r]))]
    /\ UNCHANGED head
UndoFrom(r, last, how) ==
    LET c == At[r]
        before == SubSeq(head[c], 1, base[r])
    IN
    IF last # Last(head[c]) THEN Exit(r, "kept") /\ UNCHANGED <<head, work>>
    ELSE /\ Exit(r, how)
         /\ head' = [head EXCEPT ![c] = before]
         /\ work' = [work EXCEPT ![c] = [p \in Projects |->
              IF p \in job[r].members THEN Tree(before)[p] ELSE @[p]]]
Undo(r, how) == UndoFrom(r, claimed[r], how)
UndoWrites(r) == UndoFrom(r, head[At[r]][base[r]], "undone")

\* claim: after every push a fetch checks that the remote holds the commit.
CheckClaim(r) ==
    /\ pc[r] = "pushed"
    /\ \/ /\ Holds(remote, claimed[r])
          /\ Goto(r, "claimed") /\ Smooth
          /\ UNCHANGED <<head, work, outcome>>
       \/ /\ ~Holds(remote, claimed[r])
          /\ Undo(r, "refused") /\ Smooth
       \/ Fault /\ Undo(r, "unreachable")     \* the fetch fails
    /\ UNCHANGED <<remote, runVars, play, boxVars, old, history>>

\* unwind_on_error: an error or Ctrl-C before the playbook.  A claim on the remote
\* stays, and so does everything when the fetch cannot tell.
Unwind(r) ==
    /\ Fault
    /\ \/ pc[r] \in {"pulled", "planned"} /\ Exit(r, "undone") /\ UNCHANGED <<head, work>>
       \/ pc[r] = "written" /\ UndoWrites(r)
       \/ /\ pc[r] = "committed" \/ (pc[r] = "pushed" /\ ~Holds(remote, claimed[r]))
          /\ Undo(r, "undone")
       \/ pc[r] \in {"pushed", "claimed"} /\ Exit(r, "stopped") /\ UNCHANGED <<head, work>>
    /\ torn' = IF work'[At[r]] = Tree(head'[At[r]]) THEN torn ELSE torn \cup {At[r]}
    /\ UNCHANGED <<remote, runVars, play, boxVars, old, excuses, hands>>

-----------------------------------------------------------------------------
(* The play: one role per box, under a lock file that is looked at, then written. *)

\* default_deploy: it validates, reads HEAD for the receipt, and starts Ansible.
StartPlay(r) ==
    /\ pc[r] = "claimed"
    /\ ship' = [ship EXCEPT ![r] = Last(head[At[r]])]
    /\ \/ /\ play' = [play EXCEPT ![r] = [b \in Boxes |-> IF b \in Scope(r) THEN "wait" ELSE "no"]]
          /\ Goto(r, "playing") /\ Smooth
          /\ excuses' = excuses \cup IF job[r].members = {} THEN {"unclaimed"} ELSE {}
       \/ /\ play' = [play EXCEPT ![r] = [b \in Boxes |-> IF b \in Scope(r) THEN "failed" ELSE "no"]]
          /\ Goto(r, "playing") /\ Fault /\ UNCHANGED excuses
    /\ UNCHANGED <<gitVars, job, base, claimed, tries, boxVars, old, outcome, torn, hands>>

On(r, b, from, to) == play[r][b] = from /\ play' = [play EXCEPT ![r][b] = to]

Look(r, b) ==
    /\ On(r, b, "wait", IF b \in boxLock THEN "failed" ELSE "clear")
    /\ UNCHANGED <<gitVars, pc, runVars, boxVars, old, outcome, history, events>>

Take(r, b) ==
    /\ On(r, b, "clear", "held")
    /\ boxLock' = boxLock \cup {b}
    /\ UNCHANGED <<gitVars, pc, runVars, running, receipt, ran, old, outcome, history, events>>

\* The reconciler pass, and its receipt.  A failing pass may have moved the
\* containers or not, and may have written its receipt or not.
On_(b) == {p \in Projects : BoxOf[p] = b}
Moved(r, b) == [p \in Projects |-> IF p \in On_(b) THEN ship[r].tree[p].pin ELSE running[p]]
Reconcile(r, b) ==
    /\ On(r, b, "held", "done")
    /\ running' = Moved(r, b)
    /\ receipt' = [receipt EXCEPT ![b] = [commit |-> ship[r], result |-> "ok"]]
    /\ ran' = ran \cup {<<p, ship[r].tree[p].pin>> : p \in On_(b)}
    /\ UNCHANGED <<gitVars, pc, runVars, boxLock, old, outcome, history, events>>
ReconcileFails(r, b) ==
    /\ On(r, b, "held", "broken") /\ Fault
    /\ running' \in {running, Moved(r, b)}
    /\ receipt' \in {receipt, [receipt EXCEPT ![b] = [commit |-> ship[r], result |-> "failed"]]}
    /\ UNCHANGED <<gitVars, pc, runVars, boxLock, ran, old, outcome, history>>

\* Mutant: the lock file goes when the role succeeds.
ReleaseDone(r, b) ==
    /\ On(r, b, "done", "ok")
    /\ boxLock' = boxLock \ {b}
    /\ UNCHANGED <<gitVars, pc, runVars, running, receipt, ran, old, outcome, history, events>>
\* always: whoever wrote the lock file, it goes.
Release(r, b) ==
    /\ \/ On(r, b, "done", "ok")
       \/ On(r, b, "broken", "failed")
    /\ boxLock' = boxLock \ {b}
    /\ UNCHANGED <<gitVars, pc, runVars, running, receipt, ran, old, outcome, history, events>>

\* deploy_lock_timeout: a lock file nobody holds any more is ignored in the end.
LockExpires(b) ==
    /\ b \in boxLock /\ \A r \in Runs : play[r][b] \notin {"held", "done", "broken"}
    /\ boxLock' = boxLock \ {b}
    /\ UNCHANGED <<gitVars, pc, runVars, play, running, receipt, ran, old, outcome, history, events>>

Over(r) == \A b \in Boxes : play[r][b] \in {"no", "ok", "failed"}
Failed(r) == \E b \in Boxes : play[r][b] = "failed"
EndPlay(r) ==
    /\ pc[r] = "playing" /\ Over(r)
    /\ IF job[r].kind = "deploy" THEN Exit(r, IF Failed(r) THEN "failed" ELSE "ok")
       ELSE Goto(r, "played") /\ UNCHANGED outcome
    /\ UNCHANGED <<gitVars, runVars, play, boxVars, old, history, events>>

-----------------------------------------------------------------------------
(* The results. *)

\* box_results: only a receipt of this run's fleet commit says anything of a box.
\* Mutant: the receipt of any commit.
BoxResultAny(r, b, read) == IF b \in read THEN receipt[b].result ELSE None
BoxResult(r, b, read) ==
    IF b \in read /\ receipt[b].commit = claimed[r] THEN receipt[b].result ELSE None

Result(r, record, word) == [record EXCEPT !.result = word, !.claim = None, !.plan = r]

\* Mutant: a member whose box does not answer is left as it is.
RecordedRead(r, p, read) ==
    LET word == BoxResult(r, BoxOf[p], read)
    IN  IF word = None THEN work[At[r]][p] ELSE Result(r, work[At[r]][p], word)
\* A member is ok only when the run did not fail and its box says so.  Every other
\* project of a box that reported is stamped, but a failed box says nothing new of
\* a confirmed pin this run did not move.
Recorded(r, p, read) ==
    LET record == work[At[r]][p]
        word == BoxResult(r, BoxOf[p], read)
    IN  IF p \in job[r].members
        THEN Result(r, record, IF ~Failed(r) /\ word = "ok" THEN "ok" ELSE "failed")
        ELSE IF word = None \/ (word = "failed" /\ record.result = "ok") THEN record
        ELSE Result(r, record, word)

\* Step 6: the receipts are read (a box may not answer, three times), the records
\* written and committed.  A route-only up records nothing.
Report(r) ==
    LET c == At[r] IN
    /\ pc[r] = "played"
    /\ \E read \in SUBSET Scope(r) :
         /\ IF read = Scope(r) THEN Smooth ELSE Fault
         /\ work' = [work EXCEPT ![c] = [p \in Projects |->
              IF job[r].members = {} THEN @[p] ELSE Recorded(r, p, read)]]
         /\ head' = [head EXCEPT ![c] =
              IF work'[c] = Tree(head[c]) THEN @ ELSE Append(@, Commit(r, "receipt", work'[c]))]
    /\ Goto(r, "push")
    /\ UNCHANGED <<remote, runVars, play, boxVars, old, outcome, history>>

\* git rebase @{u}: the local commits are replayed one by one; a lock file both
\* sides changed is a conflict, a commit that became empty goes.
Common(c) == {n \in 1..Len(remote) : /\ n <= Len(head[c])
                                     /\ \A k \in 1..n : remote[k] = head[c][k]}
Local(c) == SubSeq(head[c], Max(Common(c)), Len(head[c]))
ReplayOne(commits, i, log) ==
    LET parent == commits[i].tree
        commit == commits[i+1]
        changed == {p \in Projects : commit.tree[p] # parent[p]}
        clash == \E p \in changed : Tree(log)[p] \notin {parent[p], commit.tree[p]}
        tree == [p \in Projects |-> IF p \in changed THEN commit.tree[p] ELSE Tree(log)[p]]
    IN  IF log = <<>> \/ clash THEN <<>>
        ELSE IF tree = Tree(log) /\ commit.kind # "hand" THEN log
        ELSE Append(log, [by |-> commit.by, kind |-> commit.kind, tree |-> tree,
                             copy |-> commit.copy + 1])
Replay(commits) ==
    LET f[i \in 0..(Len(commits) - 1)] == IF i = 0 THEN remote ELSE ReplayOne(commits, i, f[i-1])
    IN  f[Len(commits) - 1]

Word(r) == IF job[r].kind = "push" THEN "ok" ELSE IF Failed(r) THEN "failed" ELSE "ok"

\* push_with_rebase: push; refused, fetch and rebase, and push again.
PushReceipt(r) ==
    LET c == At[r]
        replayed == Replay(Local(c))
    IN
    /\ pc[r] = "push"
    /\ \/ /\ Accepts(c)
          /\ PushTo(c, TRUE)
          /\ Exit(r, Word(r)) /\ Smooth /\ UNCHANGED <<head, work, tries>>
       \/ /\ ~Accepts(c) /\ tries[r] > 0 /\ replayed # <<>> /\ Clean(c)
          /\ head' = [head EXCEPT ![c] = replayed] /\ work' = [work EXCEPT ![c] = Tree(replayed)]
          /\ tries' = [tries EXCEPT ![r] = @ - 1]
          /\ Smooth /\ UNCHANGED <<remote, pc, outcome>>
       \/ /\ ~Accepts(c) /\ (tries[r] = 0 \/ replayed = <<>> \/ ~Clean(c))
          /\ Exit(r, "unpushed") /\ Smooth /\ UNCHANGED <<gitVars, tries>>
       \/ /\ Fault /\ Exit(r, "unpushed")          \* the push or a fetch fails
          /\ \E sent \in BOOLEAN : PushTo(c, sent)
          /\ UNCHANGED <<head, work, tries>>
    /\ UNCHANGED <<job, base, claimed, ship, play, boxVars, old, history>>

-----------------------------------------------------------------------------
(* bay deploy runs the work tree as it is, after the same look at the remote. *)

\* prepare_playbook: diverged or edited refuses, behind is moved, ahead is pushed.
Prepare(r) ==
    LET c == At[r] IN
    /\ pc[r] = "deploy"
    /\ \/ /\ Clean(c) /\ IsPrefix(head[c], remote)
          /\ Forward(c) /\ Goto(r, "claimed") /\ Smooth /\ UNCHANGED <<remote, outcome>>
       \/ /\ Clean(c) /\ head[c] # remote /\ Accepts(c)
          /\ PushTo(c, TRUE) /\ Goto(r, "claimed") /\ Smooth /\ UNCHANGED <<head, work, outcome>>
       \/ /\ ~Clean(c) \/ (~Accepts(c) /\ ~IsPrefix(head[c], remote))
          /\ Exit(r, "blocked") /\ Smooth /\ UNCHANGED gitVars
       \/ /\ Fault /\ Exit(r, "blocked") /\ UNCHANGED <<head, work>>
          /\ \E sent \in BOOLEAN : PushTo(c, Clean(c) /\ sent)
    /\ UNCHANGED <<runVars, play, boxVars, old, history>>

-----------------------------------------------------------------------------
(* What happens to a run and around it. *)

Stopped(r) == play' = [play EXCEPT ![r] = [b \in Boxes |-> "no"]]

\* Ctrl-C once the playbook started: it ends with the run, nothing is undone.
Interrupt(r) ==
    /\ pc[r] \in {"playing", "played", "push"}
    /\ Fault
    /\ Exit(r, "stopped") /\ Stopped(r)
    /\ UNCHANGED <<gitVars, runVars, boxVars, old, history>>

\* The process is killed.  The kernel drops the flock; its playbook, a child, may
\* go on; locks written and not committed stay on disk.
Die(r) ==
    /\ Live(r) /\ Fault
    /\ Exit(r, "killed")
    /\ UNCHANGED play \/ Stopped(r)
    /\ torn' = IF Clean(At[r]) THEN torn ELSE torn \cup {At[r]}
    /\ UNCHANGED <<gitVars, runVars, boxVars, old, excuses, hands>>

\* CLAIM_FRESH_SECONDS go by, also for a run that is only slow.
Expire(r) ==
    /\ r \notin old /\ \E p \in Projects : Tree(remote)[p].claim = r
    /\ old' = old \cup {r}
    /\ UNCHANGED <<gitVars, pc, runVars, play, boxVars, outcome, history, events>>

\* Another session commits a file of its own in the checkout.
HandCommit(c) ==
    /\ Fault /\ c \notin hands
    /\ hands' = hands \cup {c}
    /\ head' = [head EXCEPT ![c] = Append(@, Commit(c, "hand", Tree(@)))]
    /\ UNCHANGED <<remote, work, pc, runVars, play, boxVars, old, outcome, torn, excuses>>

\* git checkout HEAD -- <lock>, as the refusal of an edited lock says.
Restore(c) ==
    /\ c \in torn /\ ~Busy(c)
    /\ work' = [work EXCEPT ![c] = Tree(head[c])]
    /\ torn' = torn \ {c}
    /\ UNCHANGED <<remote, head, pc, runVars, play, boxVars, old, outcome, excuses, hands, events>>

Finished == \A r \in Runs : pc[r] = "off" /\ Over(r)

PlayStep(r, b) == Look(r, b) \/ Take(r, b) \/ Reconcile(r, b) \/ ReconcileFails(r, b) \/ Release(r, b)
RunStep(r) ==
    \/ Pull(r) \/ Plan(r) \/ WriteLocks(r) \/ CommitLocks(r) \/ PushClaim(r) \/ CheckClaim(r)
    \/ StartPlay(r) \/ EndPlay(r) \/ Report(r) \/ PushReceipt(r) \/ Prepare(r)

Next ==
    \/ \E r \in Runs : Start(r) \/ RunStep(r) \/ Unwind(r) \/ Interrupt(r) \/ Die(r) \/ Expire(r)
    \/ \E r \in Runs, b \in Boxes : PlayStep(r, b)
    \/ \E b \in Boxes : LockExpires(b)
    \/ \E c \in Checkouts : HandCommit(c) \/ Restore(c)

Spec == Init /\ [][Next]_vars

\* Every git call has a timeout, and Ansible comes back.
Fairness == \A r \in Runs : /\ WF_vars(RunStep(r))
                            /\ \A b \in Boxes : WF_vars(Live(r) /\ PlayStep(r, b))
FairSpec == Spec /\ Fairness

-----------------------------------------------------------------------------
Records == [pin : Pins, result : {"ok", "failed", "pending"}, claim : Runs \cup {None},
            plan : Runs \cup {None}, prev : Pins \cup {NoPin}]
Commits == [by : Runs \cup Checkouts \cup {None}, kind : {"init", "fleet", "receipt", "hand"},
            tree : [Projects -> Records], copy : Nat]
TypeOK ==
    /\ remote \in Seq(Commits) /\ head \in [Checkouts -> Seq(Commits)]
    /\ work \in [Checkouts -> [Projects -> Records]]
    /\ pc \in [Runs -> {"idle", "start", "pulled", "planned", "written", "committed", "pushed",
                        "claimed", "playing", "played", "push", "deploy", "off"}]
    /\ base \in [Runs -> Nat] /\ claimed \in [Runs -> Commits] /\ ship \in [Runs -> Commits]
    /\ tries \in [Runs -> 0..Rebases]
    /\ play \in [Runs -> [Boxes -> {"no", "wait", "clear", "held", "done", "broken", "ok", "failed"}]]
    /\ running \in [Projects -> Pins] /\ receipt \in [Boxes -> [commit : Commits, result : {"ok", "failed"}]]
    /\ boxLock \subseteq Boxes /\ old \subseteq Runs
    /\ outcome \in [Runs -> {None, "ok", "failed", "blocked", "refused", "unreachable", "undone",
                             "kept", "stopped", "killed", "unpushed"}]

\* Two runs deploy one environment at a time only when an operator took a claim
\* over, a claim expired under a slow run, a killed run left its playbook behind,
\* or a run that makes no claim took part (_claim, foreign_claim, run_lock).
OneDeployer ==
    excuses = {} => Cardinality({r \in Runs : Playing(r)}) <= 1

\* With the same exceptions, a lock record that says ok on the remote names the pin
\* its box runs: no stale compile, no late receipt and no rebase puts a wrong ok there.
OkPinRuns ==
    excuses = {} => \A p \in Projects :
        Tree(remote)[p].result = "ok" => running[p] = Tree(remote)[p].pin

\* The rollback target of any record in any checkout once ran on its box (Previous).
PreviousRan ==
    \A c \in Checkouts : \A p \in Projects :
        work[c][p].prev # NoPin => <<p, work[c][p].prev>> \in ran

\* The box gets only a compile that is on the remote (claim, _push_ahead).
ShippedIsPublic ==
    \A r \in Runs : Playing(r) => \E i \in DOMAIN remote : remote[i].tree = ship[r].tree

\* No machine ever sees a commit of a run that said it was refused or undone
\* (claim, undo, unwind).
RefusedLeavesNothing ==
    \A r \in Runs : outcome[r] \in {"refused", "undone"} =>
        \A log \in {remote} \cup {head[c] : c \in Checkouts} : \A i \in DOMAIN log : log[i].by # r

\* A run that reports its end itself leaves no pending record of its own on the
\* remote: whoever finds one there was told of a stop, a kill or a lost push.
PendingIsExplained ==
    \A p \in Projects : LET q == Tree(remote)[p].claim IN
        q # None /\ pc[q] = "off" => outcome[q] \in {"killed", "stopped", "kept", "unreachable", "unpushed"}

\* A commit of another session is never lost from its branch (undo resets to the
\* commit before the run).
HandCommitsKept ==
    \A c \in hands : \E log \in {head[c], remote} : \E i \in DOMAIN log : log[i].by = c

\* A run that got the lock of its checkout ends and frees it.
RunsEnd == \A r \in Runs : Live(r) ~> ~Live(r)
=============================================================================
