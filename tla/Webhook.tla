------------------------------- MODULE Webhook -------------------------------
(***************************************************************************)
(* How a push becomes a build.  GitHub posts it to the one hook of a       *)
(* repository; the receiver (app.py, a thread per request) handles the     *)
(* service of the URL and its siblings: it writes a trigger file on its    *)
(* own box, and forwards the push to the receivers of the service's other  *)
(* regions.  On the box Home the path unit starts rebuild.sh, which takes  *)
(* the trigger, pulls the checkout its services share, and decides: tag    *)
(* the previous image with the pushed commit, or build.                    *)
(*                                                                         *)
(* A push is a number, and the commit it makes the head has the same       *)
(* number; 0 is the commit of the first deploy.  An image is named by the  *)
(* commit it was built from.  A pattern of bay.toml is the set of files it *)
(* matches.                                                                *)
(***************************************************************************)
EXTENDS Integers, Sequences, FiniteSets, SequencesExt

CONSTANTS
    Boxes, Home, Services,
    In,             \* service -> the boxes of its regions
    Hooks,          \* the services whose URL GitHub posts to, on Home
    Siblings,       \* service -> the others of its bay.toml, a sequence
    ImageMap,       \* services that run the image of a pull signal, a sequence
    Include, Exclude, Context,      \* service -> files; {} is unset
    Own, Shared,    \* service -> its bay.toml and mounts; other projects' bay.toml
    BuildSection,   \* files whose change moves the hash of the [build] section
    Contents,       \* push -> what it may be: [files, forced]
    Labelled,       \* TRUE: the image of commit 0 has its com.bay.commit label
    CacheSize,      \* DELIVERY_CACHE_SIZE
    MaxFailures,    \* the circuit breaker's threshold
    Conns,          \* bound: requests handled at a time, 1..n
    MaxPush, MaxEvents      \* bounds: pushes; faults, replays, signals and deploys

ASSUME WebhookConstants ==
    /\ Home \in Boxes /\ Hooks \subseteq Services
    /\ \A s \in Services : In[s] \subseteq Boxes
    /\ Siblings \in [Services -> Seq(Services)] /\ ImageMap \in Seq(Services)
    /\ IsFiniteSet(Conns) /\ Conns \subseteq Nat \ {0}
    /\ MaxPush \in Nat /\ MaxEvents \in Nat
    /\ CacheSize \in Nat \ {0} /\ MaxFailures \in Nat \ {0}

None == -1
Pushes == 1..MaxPush
Commits == 0..MaxPush
Units == {<<b, s>> : b \in Boxes, s \in Services}
HomeUnits == {u \in Units : u[1] = Home /\ Home \in In[u[2]]}

VARIABLES
    head, changed,  \* the branch, and per push [files, forced]
    signals,        \* pull signals the build server sent
    answer,         \* <<push, hook>> -> "none", "open", "ok" or "failed"
    cache,          \* box -> the deliveries seen, <<push, service>>, oldest first
    conn,           \* the requests being handled
    trigger,        \* unit -> what <s>.trigger holds
    bpc, mode, sha,     \* rebuild.sh of a unit of Home
    lock,           \* who holds the build lock of Home
    checkout, mark, \* the shared checkout's HEAD, refs/bay/seen/<service>
    tag, latest, run,   \* image tags and the running container, per service of Home
    failed, count, pinned,
    events,
    accepted, settled, warned, \* history: the newest push a trigger promises, the newest
                    \* one a build looked at or dropped, units with a fresh alert
    wrote, forgot, lost     \* history: triggers opened per delivery, deliveries forgotten,
                    \* those whose trigger could not be opened or whose forward outlived
                    \* the receiver that sent it

repoVars == <<head, changed, signals>>
buildVars == <<bpc, mode, sha, lock>>
imageVars == <<checkout, mark, tag, latest, run, failed, count, pinned>>
receiverVars == <<answer, cache, conn, wrote, forgot, lost>>
vars == <<repoVars, receiverVars, trigger, buildVars, imageVars, events,
          accepted, settled, warned>>

Texts == {"push", "tag", "pull"}
NoConn == [at |-> "free", box |-> Home, push |-> 0, kind |-> "push", fwd |-> FALSE,
           todo |-> <<>>, url |-> TRUE, hook |-> "", peers |-> {}, fd |-> "none", urlFailed |-> FALSE,
           ok |-> FALSE, client |-> 0]

Init ==
    /\ head = 0 /\ changed = [p \in Pushes |-> [files |-> {}, forced |-> FALSE]]
    /\ answer = [d \in Pushes \X Hooks |-> "none"]
    /\ cache = [b \in Boxes |-> <<>>]
    /\ conn = [c \in Conns |-> NoConn]
    /\ trigger = [u \in Units |-> "none"]
    /\ bpc = [u \in HomeUnits |-> "idle"] /\ mode = [u \in HomeUnits |-> "none"]
    /\ sha = [u \in HomeUnits |-> 0]
    /\ lock = {}
    /\ checkout = 0 /\ mark = [s \in Services |-> None]
    /\ tag = [s \in Services |-> [c \in Commits |-> IF c = 0 /\ Labelled THEN 0 ELSE None]]
    /\ latest = [s \in Services |-> 0] /\ run = [s \in Services |-> 0]
    /\ failed = [s \in Services |-> {}] /\ count = [s \in Services |-> 0]
    /\ pinned = [s \in Services |-> 0]
    /\ signals = 0 /\ events = 0
    /\ accepted = [u \in Units |-> 0] /\ settled = [u \in Units |-> 0] /\ warned = {}
    /\ wrote = [u \in Units |-> [p \in Pushes |-> 0]] /\ forgot = [b \in Boxes |-> 0]
    /\ lost = {}

Event == events < MaxEvents /\ events' = events + 1
Smooth == UNCHANGED events

-----------------------------------------------------------------------------
(* Which pushed files matter: app.py, and pushinputs.py on the box.          *)

\* should_rebuild
ShouldRebuild(files, s) ==
    \/ Include[s] = {} /\ Exclude[s] = {}
    \/ LET relevant == IF Include[s] = {} THEN files ELSE files \cap Include[s]
       IN  relevant \ Exclude[s] # {}

\* input_filter: without a watch, a narrower context stands for it.
InputFilter(files, s) ==
    IF Context[s] # {} /\ Include[s] = {}
      THEN LET inside == files \cap Context[s]
           IN  inside # {} /\ (Exclude[s] = {} \/ ShouldRebuild(inside, s))
      ELSE ShouldRebuild(files, s)

\* push_filter: its own bay.toml always passes; another project's passes unless
\* it comes with files that are no input here.
PushFilter(files, s) ==
    IF files \cap Own[s] # {} THEN TRUE
    ELSE IF files \cap Shared[s] # {}
      THEN files \ Shared[s] = {} \/ InputFilter(files \ Shared[s], s)
      ELSE InputFilter(files, s)

\* pushinputs.input_files
InputFiles(files, s) ==
    (IF Include[s] # {} THEN files \cap Include[s]
     ELSE IF Context[s] # {} THEN files \cap Context[s] ELSE files) \ Exclude[s]

\* git diff --name-only between two commits.
Diff(a, b) == UNION {changed[p].files : p \in {q \in Pushes : (a < q /\ q <= b) \/ (b < q /\ q <= a)}}

-----------------------------------------------------------------------------
(* The receiver.                                                             *)

\* Mutant: only the last delivery is compared.
SeenLast(b, key) == cache[b] # <<>> /\ cache[b][Len(cache[b])] = key
\* _delivery_is_duplicate: an LRU of 256 keys; a key is the delivery and the service.
Seen(b, key) == \E i \in 1..Len(cache[b]) : cache[b][i] = key
Place(b, key) == CHOOSE i \in 1..Len(cache[b]) : cache[b][i] = key
Remember(b, key) ==
    LET kept == Append(IF Seen(b, key) THEN RemoveAt(cache[b], Place(b, key)) ELSE cache[b], key)
    IN  /\ cache' = [cache EXCEPT ![b] = IF Len(kept) > CacheSize THEN Tail(kept) ELSE kept]
        /\ forgot' = [forgot EXCEPT ![b] = @ + IF Len(kept) > CacheSize THEN 1 ELSE 0]

Free == {c \in Conns : conn[c].at = "free"}
Lowest(S) == CHOOSE c \in S : \A d \in S : c <= d
\* Mutant: a service that runs here is not forwarded.
TargetsIfAbsent(b, s, fwd) == IF fwd \/ b \in In[s] THEN {} ELSE In[s]
\* compute_routing: a forwarded request never fans out again.
Local(b, s) == b \in In[s]
Targets(b, s, fwd) == IF fwd THEN {} ELSE In[s] \ {b}

Request(b, p, kind, fwd, todo, client) ==
    [NoConn EXCEPT !.at = "target", !.box = b, !.push = p, !.kind = kind, !.fwd = fwd,
                   !.todo = todo, !.hook = Head(todo), !.client = client]

\* A commit is pushed.
Push ==
    /\ head < MaxPush
    /\ head' = head + 1
    /\ \E x \in Contents[head + 1] : changed' = [changed EXCEPT ![head + 1] = x]
    /\ UNCHANGED <<signals, receiverVars, trigger, buildVars, imageVars, events,
                   accepted, settled, warned>>

\* GitHub posts the delivery, in any order; again when it was answered, by hand.
\* _read_verified_body marks it before anything is done for it.
Post(p, s) ==
    /\ p <= head /\ Free # {}
    /\ \/ answer[<<p, s>>] = "none" /\ Smooth
       \/ answer[<<p, s>>] \in {"ok", "failed"} /\ Event
    /\ Remember(Home, <<p, s>>)
    /\ IF Seen(Home, <<p, s>>)
         THEN answer' = [answer EXCEPT ![<<p, s>>] = "ok"] /\ UNCHANGED conn
         ELSE /\ answer' = [answer EXCEPT ![<<p, s>>] = "open"]
              /\ conn' = [conn EXCEPT ![Lowest(Free)] =
                            Request(Home, p, "push", FALSE, <<s>> \o Siblings[s], 0)]
    /\ UNCHANGED <<repoVars, trigger, buildVars, imageVars,
                   accepted, settled, warned, wrote, lost>>

\* The pull signal of an image: _handle_pull_image, one trigger per service.
PullImage ==
    /\ Free # {} /\ Event
    /\ signals' = signals + 1
    /\ conn' = [conn EXCEPT ![Lowest(Free)] = Request(Home, signals + 1, "pull", TRUE, ImageMap, 0)]
    /\ UNCHANGED <<head, changed, answer, cache, trigger, buildVars, imageVars,
                   accepted, settled, warned, wrote, forgot, lost>>

Target(c) == Head(conn[c].todo)
Unit(c) == <<conn[c].box, Target(c)>>
Key(c) == <<conn[c].push, Target(c)>>
Sibling(c) == ~conn[c].url /\ conn[c].kind = "push"
At(c, step) == conn[c].at = step
Handling(c) == At(c, "target") /\ conn[c].todo # <<>>
\* do_POST looks a sibling's delivery up under its own key, and marks it.
Taken(c) == Sibling(c) /\ Seen(conn[c].box, Key(c))
LookUp(c) ==
    IF Sibling(c) THEN Remember(conn[c].box, Key(c)) ELSE UNCHANGED <<cache, forgot>>
Marked(c) ==
    /\ conn[c].kind = "push" /\ ~changed[conn[c].push].forced
    /\ ~PushFilter(changed[conn[c].push].files, Target(c))
Text(c) == IF conn[c].kind = "pull" THEN "pull" ELSE IF Marked(c) THEN "tag" ELSE "push"
\* A tag-only push never replaces a waiting trigger: open("x").
Waits(c) == Text(c) = "tag" /\ trigger[Unit(c)] # "none"
Raise(n, p) == IF n < p THEN p ELSE n
Accept(c) == accepted' = [accepted EXCEPT ![Unit(c)] = Raise(@, conn[c].push)]
\* Done with the target here: its peers are next, or the next target.
Onward(r) ==
    IF r.peers = {} THEN [r EXCEPT !.at = "target", !.todo = Tail(@), !.url = FALSE, !.fd = "none"]
    ELSE [r EXCEPT !.at = "forward", !.fd = "none"]
Routed(c, local) ==
    [conn[c] EXCEPT !.ok = @ \/ (local /\ Sibling(c)),
                    !.peers = Targets(conn[c].box, Target(c), conn[c].fwd)]

SkipSeen(c) ==
    /\ Handling(c) /\ Taken(c)
    /\ LookUp(c)
    /\ conn' = [conn EXCEPT ![c].todo = Tail(@)]
    /\ UNCHANGED <<repoVars, answer, trigger, buildVars, imageVars, events,
                   accepted, settled, warned, wrote, lost>>

NotHere(c) ==
    /\ Handling(c) /\ ~Taken(c) /\ ~Local(conn[c].box, Target(c))
    /\ LookUp(c)
    /\ conn' = [conn EXCEPT ![c] = Onward(Routed(c, FALSE))]
    /\ UNCHANGED <<repoVars, answer, trigger, buildVars, imageVars, events,
                   accepted, settled, warned, wrote, lost>>

KeepWaiting(c) ==
    /\ Handling(c) /\ ~Taken(c) /\ Local(conn[c].box, Target(c)) /\ Waits(c)
    /\ LookUp(c) /\ Accept(c)
    /\ conn' = [conn EXCEPT ![c] = Onward(Routed(c, TRUE))]
    /\ UNCHANGED <<repoVars, answer, trigger, buildVars, imageVars, events,
                   settled, warned, wrote, lost>>

Opens(c) == Handling(c) /\ ~Taken(c) /\ Local(conn[c].box, Target(c)) /\ ~Waits(c)

\* open() empties the file; the path unit may see it before the write.
OpenTrigger(c) ==
    /\ Opens(c)
    /\ LookUp(c)
    /\ trigger' = [trigger EXCEPT ![Unit(c)] = "empty"]
    /\ conn' = [conn EXCEPT ![c] = [Routed(c, TRUE) EXCEPT !.at = "write", !.fd = "trigger"]]
    /\ wrote' = IF conn[c].kind = "push"
                  THEN [wrote EXCEPT ![Unit(c)][conn[c].push] = @ + 1] ELSE wrote
    /\ UNCHANGED <<repoVars, answer, buildVars, imageVars, events,
                   accepted, settled, warned, lost>>

\* The open raises. With siblings the others go on (_target_error), else the
\* request ends; the delivery stays in the cache.
Isolated(c) == conn[c].kind = "push" /\ ~conn[c].fwd /\ Siblings[conn[c].hook] # <<>>
OpenFails(c) ==
    /\ Opens(c) /\ Event
    /\ LookUp(c)
    /\ lost' = lost \cup {<<Unit(c), conn[c].push>>}
    /\ conn' = [conn EXCEPT ![c] =
         [conn[c] EXCEPT !.todo = IF Isolated(c) THEN Tail(@) ELSE <<>>,
                         !.urlFailed = @ \/ conn[c].url, !.url = FALSE]]
    /\ UNCHANGED <<repoVars, answer, trigger, buildVars, imageVars,
                   accepted, settled, warned, wrote>>

\* Two writers of one file write from its start: a marker on line 2 stays when a
\* shorter text comes over it.
Over(old, text) == IF old = "tag" THEN "tag" ELSE text
Write(c) ==
    /\ At(c, "write")
    /\ trigger' = IF conn[c].fd = "trigger"
                    THEN [trigger EXCEPT ![Unit(c)] = Over(@, Text(c))] ELSE trigger
    /\ Accept(c)
    /\ conn' = [conn EXCEPT ![c] = Onward(@)]
    /\ UNCHANGED <<repoVars, answer, cache, buildVars, imageVars, events,
                   settled, warned, wrote, forgot, lost>>

\* The peer's receiver takes the forwarded push as its own request; this thread
\* waits for the answer.
Peer(c) == CHOOSE b \in conn[c].peers : TRUE
Heard(r) == Onward([r EXCEPT !.peers = @ \ {CHOOSE b \in r.peers : TRUE}])
Forward(c) ==
    /\ At(c, "forward") /\ conn[c].peers # {} /\ Free # {}
    /\ Remember(Peer(c), Key(c))
    /\ conn' = IF Seen(Peer(c), Key(c))
                 THEN [conn EXCEPT ![c] = Heard([conn[c] EXCEPT !.ok = @ \/ Sibling(c)])]
                 ELSE [conn EXCEPT
                        ![c].at = "await",
                        ![Lowest(Free)] = Request(Peer(c), conn[c].push, "push", TRUE,
                                                  <<Target(c)>>, c)]
    /\ UNCHANGED <<repoVars, answer, trigger, buildVars, imageVars, events,
                   accepted, settled, warned, wrote, lost>>

\* Unreachable, or no answer in WEBHOOK_PEER_TIMEOUT: an alert, and no retry.
ForwardFails(c) ==
    /\ conn[c].at \in {"forward", "await"} /\ conn[c].peers # {} /\ Event
    /\ warned' = warned \cup {<<Peer(c), Target(c)>>}
    /\ conn' = [d \in Conns |->
         IF d = c THEN Heard(conn[c])
         ELSE IF conn[d].client = c THEN [conn[d] EXCEPT !.client = 0] ELSE conn[d]]
    /\ UNCHANGED <<repoVars, answer, cache, trigger, buildVars, imageVars,
                   accepted, settled, wrote, forgot, lost>>

FromGitHub(r) == r.kind = "push" /\ ~r.fwd /\ r.at # "free"
\* 500 only when the URL's target failed and no sibling took the push. A peer that
\* failed is a failed forward for its client.
Respond(c) ==
    /\ At(c, "target") /\ conn[c].todo = <<>>
    /\ answer' = IF FromGitHub(conn[c])
         THEN [answer EXCEPT ![<<conn[c].push, conn[c].hook>>] =
                 IF conn[c].urlFailed /\ ~conn[c].ok THEN "failed" ELSE "ok"]
         ELSE answer
    /\ LET k == conn[c].client IN
         /\ conn' = [d \in Conns |->
              IF d = c THEN NoConn
              ELSE IF d = k
                THEN Heard([conn[d] EXCEPT !.ok = @ \/ (Sibling(d) /\ ~conn[c].urlFailed)])
                ELSE conn[d]]
         /\ warned' = IF k # 0 /\ conn[c].urlFailed
                        THEN warned \cup {<<conn[c].box, Target(k)>>} ELSE warned
    /\ UNCHANGED <<repoVars, cache, trigger, buildVars, imageVars, events,
                   accepted, settled, wrote, forgot, lost>>

\* A deploy recreates the receiver: its threads and its cache are gone.
Restart(b) ==
    /\ Event
    /\ cache' = [cache EXCEPT ![b] = <<>>]
    /\ forgot' = [forgot EXCEPT ![b] = @ + Len(cache[b])]
    /\ answer' = [d \in Pushes \X Hooks |->
         IF \E c \in Conns : FromGitHub(conn[c]) /\ conn[c].box = b /\ d = <<conn[c].push, conn[c].hook>>
           THEN "failed" ELSE answer[d]]
    /\ LET dead == {c \in Conns : conn[c].at # "free" /\ conn[c].box = b}
           left == {c \in Conns \ dead : conn[c].at = "await" /\ \E d \in dead : conn[d].client = c}
           orphans == {d \in Conns \ dead : conn[d].client \in dead}
       IN  /\ lost' = lost \cup {<<<<conn[d].box, conn[d].hook>>, conn[d].push>> : d \in orphans}
           /\ conn' = [c \in Conns |->
                IF c \in dead THEN NoConn
                ELSE IF c \in left THEN Heard(conn[c])
                ELSE IF conn[c].client \in dead THEN [conn[c] EXCEPT !.client = 0] ELSE conn[c]]
           /\ warned' = warned \cup {<<b, Target(c)>> : c \in left}
    /\ UNCHANGED <<repoVars, trigger, buildVars, imageVars,
                   accepted, settled, wrote>>

-----------------------------------------------------------------------------
(* rebuild.sh on Home.                                                       *)

PullOnly(s) == \E i \in 1..Len(ImageMap) : ImageMap[i] = s
\* The run ends: the EXIT trap removes .running, the kernel frees the lock.
End(u) ==
    /\ bpc' = [bpc EXCEPT ![u] = "idle"] /\ mode' = [mode EXCEPT ![u] = "none"]
    /\ lock' = lock \ {u}
Newest(u) == IF PullOnly(u[2]) THEN signals ELSE head
\* Mutant: it is given up without a word.
DropSilently(u) == UNCHANGED <<settled, warned>>
\* The push is given up; every way to do so sends an alert, or sent one before.
Drop(u) ==
    /\ settled' = [settled EXCEPT ![u] = Newest(u)]
    /\ warned' = warned \cup {u}

\* mv <s>.trigger <s>.trigger.running, and its lines are read: what is not written yet
\* is a push. A writer that has the file open goes on in the moved one.
Taking(u) ==
    /\ bpc[u] = "idle" /\ trigger[u] # "none"
    /\ trigger' = [trigger EXCEPT ![u] = "none"]
    /\ conn' = [c \in Conns |-> IF conn[c].fd = "trigger" /\ Unit(c) = u
                                  THEN [conn[c] EXCEPT !.fd = "gone"] ELSE conn[c]]

Consume(u) ==
    /\ Taking(u) /\ count[u[2]] < MaxFailures
    /\ mode' = [mode EXCEPT ![u] = IF trigger[u] = "empty" THEN "push" ELSE trigger[u]]
    /\ bpc' = [bpc EXCEPT ![u] = "wait"]
    /\ UNCHANGED <<repoVars, answer, cache, wrote, forgot, lost, sha, lock, imageVars,
                   events, accepted, settled, warned>>

\* An open breaker drops the push, with an alert at most once an hour.
Blocked(u) ==
    /\ Taking(u) /\ count[u[2]] >= MaxFailures
    /\ Drop(u)
    /\ UNCHANGED <<repoVars, answer, cache, wrote, forgot, lost, buildVars, imageVars,
                   events, accepted>>

LockTimeout(u) ==
    /\ bpc[u] = "wait" /\ lock # {} /\ Event
    /\ Drop(u) /\ End(u)
    /\ UNCHANGED <<repoVars, receiverVars, trigger, sha,
                   imageVars, accepted>>

\* A service with no build: the signal brings the registry's image; anything else is
\* skipped without a word.
PullRun(u) ==
    /\ bpc[u] = "wait" /\ lock = {} /\ PullOnly(u[2])
    /\ settled' = IF mode[u] = "pull" THEN [settled EXCEPT ![u] = signals] ELSE settled
    /\ End(u)
    /\ UNCHANGED <<repoVars, receiverVars, trigger, sha,
                   imageVars, events, accepted, warned>>

Label(i) == IF i = 0 /\ ~Labelled THEN None ELSE i
Bad(s, c, i) == \E f \in failed[s] : f.commit = c \/ f.image = i

\* _config_only_source: the image that holds the previous commit's code.
Source(s, p) ==
    IF tag[s][p] # None THEN tag[s][p]
    ELSE IF Bad(s, p, latest[s]) THEN None
    ELSE IF Label(latest[s]) # None THEN (IF Label(latest[s]) = p THEN latest[s] ELSE None)
    ELSE IF count[s] = 0 /\ run[s] = latest[s] THEN latest[s] ELSE None

SameBuild(s) == Diff(pinned[s], head) \cap BuildSection \cap Own[s] = {}
\* Mutant: the files of the last push, not of the whole range.
ConfigOnlyOfPush(s, p) ==
    p # None /\ head > 0 /\ changed[head].files \subseteq Own[s] \cup Shared[s] /\ SameBuild(s)
\* _config_only: something changed, and nothing but bay.toml files.
ConfigOnly(s, p) ==
    /\ p # None /\ Diff(p, head) # {}
    /\ Diff(p, head) \subseteq Own[s] \cup Shared[s] /\ SameBuild(s)
\* _no_input_change: the marker is not trusted.
NoInputChange(s, p) ==
    /\ Diff(p, head) \cap Own[s] = {}
    /\ InputFiles(Diff(p, head) \ Shared[s], s) = {} /\ SameBuild(s)

\* What the run does with the head it fetched.
Decision(s, p, marker) ==
    IF ConfigOnly(s, p) /\ Source(s, p) # None THEN "tag"
    ELSE IF marker /\ (p = None \/ (NoInputChange(s, p) /\ Source(s, p) = None)) THEN "skip"
    ELSE IF marker /\ NoInputChange(s, p) THEN "tag"
    ELSE "build"

\* _seen_head, git pull, _mark_seen: a service without a mark gets the HEAD before
\* the pull, since its siblings share the checkout.
Seenmark(s) == IF mark[s] # None THEN mark[s] ELSE checkout
Previous(s) == IF Label(run[s]) # None THEN Label(run[s]) ELSE Seenmark(s)

Fetch(u) ==
    /\ bpc[u] = "wait" /\ lock = {} /\ ~PullOnly(u[2])
    /\ LET s == u[2]
           p == Previous(s)
           do == Decision(s, p, mode[u] = "tag")
       IN  /\ checkout' = head
           /\ mark' = [x \in Services |-> IF x = s THEN head ELSE Seenmark(x)]
           /\ sha' = [sha EXCEPT ![u] = head]
           /\ tag' = IF do = "tag"
                       THEN [tag EXCEPT ![s][head] = Source(s, p), ![s][p] = Source(s, p)]
                       ELSE tag
           /\ IF do = "build"
                THEN lock' = {u} /\ bpc' = [bpc EXCEPT ![u] = "build"] /\ UNCHANGED mode
                ELSE End(u)
    /\ settled' = [settled EXCEPT ![u] = head]
    /\ UNCHANGED <<repoVars, receiverVars, trigger, latest, run,
                   failed, count, pinned, events, accepted, warned>>

\* _hold_reason: the bay.toml differs from the one bay up pinned.
Held(s) == Diff(pinned[s], sha[<<Home, s>>]) \cap Own[s] # {}
\* An image of the commit is reused; a held build stops there, any other one is
\* promoted, started and found healthy.
Built(s) == IF tag[s][sha[<<Home, s>>]] # None THEN tag[s][sha[<<Home, s>>]] ELSE sha[<<Home, s>>]
Build(u) ==
    /\ bpc[u] = "build"
    /\ LET s == u[2] IN
         /\ tag' = [tag EXCEPT ![s][sha[u]] = Built(s)]
         /\ IF Held(s) THEN UNCHANGED <<latest, run, failed, count>>
            ELSE /\ latest' = [latest EXCEPT ![s] = Built(s)]
                 /\ run' = [run EXCEPT ![s] = Built(s)]
                 /\ failed' = [failed EXCEPT ![s] = {f \in @ : f.commit # sha[u]}]
                 /\ count' = [count EXCEPT ![s] = 0]
    /\ End(u)
    /\ UNCHANGED <<repoVars, receiverVars, trigger, sha,
                   checkout, mark, pinned, events, accepted, settled, warned>>

\* The pull or the build fails, or the container's health check, which rolls back.
BuildFails(u, health) ==
    /\ Event
    /\ LET s == u[2] IN
         /\ count' = [count EXCEPT ![s] = @ + 1]
         /\ IF health
              THEN /\ bpc[u] = "build" /\ ~Held(s)
                   /\ failed' = [failed EXCEPT ![s] = @ \cup {[commit |-> sha[u], image |-> Built(s)]}]
                   /\ tag' = [tag EXCEPT ![s][sha[u]] = None]
                   /\ UNCHANGED settled
              ELSE /\ bpc[u] = "build" \/ (bpc[u] = "wait" /\ lock = {} /\ ~PullOnly(s))
                   /\ settled' = [settled EXCEPT ![u] = head]
                   /\ UNCHANGED <<failed, tag>>
    /\ warned' = warned \cup {u}
    /\ End(u)
    /\ UNCHANGED <<repoVars, receiverVars, trigger, sha,
                   checkout, mark, latest, run, pinned, accepted>>

\* TimeoutStartSec, the OOM killer: the alert unit reports it (build-alert.sh).
Killed(u) ==
    /\ bpc[u] # "idle" /\ Event
    /\ Drop(u) /\ End(u)
    /\ UNCHANGED <<repoVars, receiverVars, trigger, sha,
                   imageVars, accepted>>

\* bay build reset.
Reset(s) ==
    /\ count[s] > 0
    /\ count' = [count EXCEPT ![s] = 0]
    /\ UNCHANGED <<repoVars, receiverVars, trigger, buildVars, checkout, mark, tag, latest,
                   run, failed, pinned, events, accepted, settled, warned>>

\* bay up pins the head, for the image too when one has the commit's tag.
BayUp(s) ==
    /\ lock = {} /\ ~PullOnly(s) /\ Event
    /\ pinned' = [pinned EXCEPT ![s] = head]
    /\ LET i == tag[s][head]
           use == i # None /\ ~Bad(s, head, i)
       IN  /\ latest' = [latest EXCEPT ![s] = IF use THEN i ELSE @]
           /\ run' = [run EXCEPT ![s] = IF use THEN i ELSE latest[s]]
    /\ UNCHANGED <<repoVars, receiverVars, trigger, buildVars, checkout, mark, tag, failed,
                   count, accepted, settled, warned>>

-----------------------------------------------------------------------------
Handle(c) ==
    \/ SkipSeen(c) \/ NotHere(c) \/ KeepWaiting(c) \/ OpenTrigger(c) \/ Write(c)
    \/ Forward(c) \/ Respond(c)
Rebuild(u) ==
    \/ Consume(u) \/ Blocked(u) \/ PullRun(u) \/ Fetch(u) \/ Build(u)
Fault ==
    \/ \E c \in Conns : OpenFails(c) \/ ForwardFails(c)
    \/ \E b \in Boxes : Restart(b)
    \/ \E u \in HomeUnits : LockTimeout(u) \/ Killed(u) \/ \E h \in BOOLEAN : BuildFails(u, h)
Outside ==
    \/ Push \/ PullImage \/ (\E p \in Pushes, s \in Hooks : Post(p, s))
    \/ \E s \in Services : Reset(s) \/ BayUp(s)
Next ==
    \/ \E c \in Conns : Handle(c)
    \/ \E u \in HomeUnits : Rebuild(u)
    \/ Fault \/ Outside

Spec == Init /\ [][Next]_vars

\* Threads of the receivers go on, and so do the units systemd starts; the flock of a
\* build that ended is free. No single thread or unit is preferred.
FairSpec ==
    /\ Spec
    /\ WF_vars(\E c \in Conns : Handle(c))
    /\ WF_vars(\E u \in HomeUnits : Rebuild(u))

-----------------------------------------------------------------------------
(* Safety.                                                                   *)

TypeOK ==
    /\ head \in 0..MaxPush /\ checkout \in Commits
    /\ answer \in [Pushes \X Hooks -> {"none", "open", "ok", "failed"}]
    /\ \A b \in Boxes : Len(cache[b]) <= CacheSize
    /\ \A c \in Conns : conn[c].fd \in {"none", "trigger", "gone"}
    /\ \A u \in Units : trigger[u] \in Texts \cup {"none", "empty"}
    /\ \A u \in HomeUnits : bpc[u] \in {"idle", "wait", "build"}
    /\ Cardinality(lock) <= 1
    /\ \A s \in Services : count[s] \in 0..MaxFailures /\ tag[s] \in [Commits -> Commits \cup {None}]

\* A delivery opens a trigger of a service once, whatever hooks, siblings, regions
\* and replays bring it there, as long as the receiver of that box remembers it
\* (app.py: "keyed by GUID alone, the second path was dropped", "a replay is a no-op").
ReplayBuildsNothing ==
    \A u \in Units, p \in Pushes : wrote[u][p] <= 1 + forgot[u[1]]

\* A push GitHub got a 200 for has a trigger in every region of every service of
\* its bay.toml, or an alert names the peer that did not take it, or the write of
\* that one trigger failed (at home, that also keeps it from the peers), or the peer
\* calls it a duplicate of a forward that outlived the receiver that sent it.
Group(h) == {h} \cup {Siblings[h][i] : i \in 1..Len(Siblings[h])}
OkMeansHeard ==
    \A p \in Pushes, h \in Hooks :
        answer[<<p, h>>] = "ok" =>
            \A s \in Group(h), b \in Boxes :
                b \in In[s] => \/ accepted[<<b, s>>] >= p \/ <<b, s>> \in warned
                               \/ {<<<<b, s>>, p>>, <<<<Home, s>>, p>>} \cap lost # {}

\* The image a commit tag names was built from this very code: config-only and
\* no-input-change pushes never name an image of other inputs, whatever failed,
\* was held or was skipped in between.
Inputs(s, files) == InputFiles(files \ (Own[s] \cup Shared[s]), s)
CommitTagHoldsItsInputs ==
    \A s \in Services, c \in Commits :
        tag[s][c] # None => Inputs(s, Diff(tag[s][c], c)) = {}

-----------------------------------------------------------------------------
(* The promise of PushPromise, for the units that build.                     *)

Owed == {u \in Units : accepted[u] > settled[u]}
BuildUnits == {u \in HomeUnits : ~PullOnly(u[2])}
Promise == INSTANCE PushPromise WITH Units <- BuildUnits, owed <- Owed \cap BuildUnits,
                                     warned <- warned \cap BuildUnits
PushPromised == Promise!Spec
=============================================================================
