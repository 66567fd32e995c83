--------------------------- MODULE ConfigProofs ---------------------------
(***************************************************************************)
(* What every accepted services.yml keeps, for all fleets, edits and       *)
(* compiles: names stay apart, and locked paths stay behind the VPN.       *)
(***************************************************************************)
EXTENDS FleetConfig, SequenceTheorems, FiniteSetTheorems, TLAPS

\* services.yml is what the compile makes of files it accepted.
Inv == Accepts(src) /\ out = Output(src)

LEMMA InvInit == Init => Inv
BY BasesCompile DEF Init, Inv

LEMMA InvStep == Inv /\ [Next]_vars => Inv'
<1> SUFFICES ASSUME Inv, [Next]_vars PROVE Inv'
  OBVIOUS
<1>1. CASE UNCHANGED <<src, out>>
  BY <1>1 DEF Inv
<1>2. CASE Compile
  BY <1>2 DEF Inv, Compile
<1>3. [Next]_vars => UNCHANGED <<src, out>> \/ Compile
  BY DEF Next, vars, Edit, EditDoc, EditLock, AddProject, RemoveProject, EditResource,
         EditRoute, EditHook, WriteByHand
<1> QED
  BY <1>1, <1>2, <1>3

(***************************************************************************)
(* Names                                                                   *)
(***************************************************************************)
LEMMA SlotFacts ==
  ASSUME NEW f, Accepts(f), NEW t \in Slots(f)
  PROVE  /\ t = <<t[1], t[2]>>
         /\ t[1] \in Units(f)
         /\ t[1] = <<t[1][1], t[1][2]>>
         /\ t[1][1] \in DOMAIN f.docs
         /\ t[1][2] \in EnvsOf(f.docs[t[1][1]])
         /\ t[2] \in DOMAIN f.docs[t[1][1]].levels
         /\ Valid(t[1][1], f.docs[t[1][1]])
         /\ t[1][1] \in Names /\ t[1][2] \in STRING /\ t[2] \in Names
<1>1. PICK u \in Units(f) : t \in {u} \X LevelsOf(f, u)
  BY DEF Slots
<1>2. t = <<u, t[2]>> /\ t[1] = u /\ t[2] \in LevelsOf(f, u)
  BY <1>1
<1>3. PICK p \in DOMAIN f.docs : u \in {p} \X EnvsOf(f.docs[p])
  BY <1>1 DEF Units
<1>4. u = <<p, u[2]>> /\ u[1] = p /\ u[2] \in EnvsOf(f.docs[p])
  BY <1>3
<1>5. Valid(p, f.docs[p])
  BY <1>3 DEF Accepts, Loads
<1>6. p \in Names /\ EnvsOf(f.docs[p]) \subseteq STRING /\ DOMAIN f.docs[p].levels \subseteq Names
  BY <1>5 DEF Valid, Schema
<1> QED
  BY <1>1, <1>2, <1>3, <1>4, <1>5, <1>6 DEF LevelsOf, Doc

LEMMA LockNames ==
  ASSUME NEW f, Accepts(f), NEW u, NEW s \in DOMAIN Lock(f, u).containers
  PROVE  Lock(f, u).containers[s] \in Names
<1>1. CASE u[1] \in DOMAIN f.locks /\ u[2] \in DOMAIN f.locks[u[1]].envs
  <2>1. LockSchema(f.locks[u[1]].envs[u[2]])
    BY <1>1 DEF Accepts, Loads
  <2> QED
    BY <1>1, <2>1 DEF Lock, LockSchema
<1>2. CASE ~(u[1] \in DOMAIN f.locks /\ u[2] \in DOMAIN f.locks[u[1]].envs)
  <2>1. Lock(f, u).containers = <<>>
    BY <1>2 DEF Lock, NoLockEnv
  <2> QED
    BY <2>1
<1> QED
  BY <1>1, <1>2

LEMMA ContainerNames ==
  ASSUME NEW f, Accepts(f), NEW t \in Slots(f)
  PROVE  ContainerName(f, t[1], t[2]) \in Names
<1>1. t[1][1] \in Names /\ t[1][2] \in STRING /\ t[2] \in Names
  BY SlotFacts
<1>2. Base(t[1]) \in Names
  BY <1>1, AppendProperties DEF Base, Names
<1>3. Base(t[1]) \o t[2] \in Names
  BY <1>1, <1>2, ConcatProperties DEF Names
<1> QED
  BY <1>2, <1>3, LockNames DEF ContainerName

\* Every entry belongs to the holder of its name.
EntryOf(f, o) == IF o[1] = <<>> THEN ResourceEntry(f, o[2]) ELSE Entry(f, o[1], o[2])

LEMMA EntryHolds ==
  ASSUME NEW f, Accepts(f), NEW e \in Output(f).entries
  PROVE  /\ e.name \in Names
         /\ \E o : <<e.name, o>> \in Held(f) /\ e = EntryOf(f, o) /\ o[1] = e.unit
                   /\ (e.unit # <<>> => o \in Slots(f))
<1>1. CASE \E t \in Slots(f) : e = Entry(f, t[1], t[2])
  <2>1. PICK t \in Slots(f) : e = Entry(f, t[1], t[2])
    BY <1>1
  <2>2. e.name = ContainerName(f, t[1], t[2]) /\ e.unit = t[1]
    BY <2>1 DEF Entry
  <2>3. t[1] # <<>>
    BY SlotFacts
  <2>4. e = EntryOf(f, t)
    BY <2>1, <2>3 DEF EntryOf
  <2>5. <<e.name, t>> \in Held(f)
    BY <2>2 DEF Held
  <2> QED
    BY <2>2, <2>4, <2>5, ContainerNames
<1>2. CASE \E r \in DOMAIN f.resources : e = ResourceEntry(f, r)
  <2>1. PICK r \in DOMAIN f.resources : e = ResourceEntry(f, r)
    BY <1>2
  <2>2. e.name = r /\ e.unit = <<>>
    BY <2>1 DEF ResourceEntry
  <2>3. r \in Names
    BY DEF Accepts, Loads
  <2>4. e = EntryOf(f, << <<>>, r>>)
    BY <2>1 DEF EntryOf
  <2>5. <<e.name, << <<>>, r>> >> \in Held(f)
    BY <2>2 DEF Held
  <2> QED
    BY <2>2, <2>3, <2>4, <2>5
<1> QED
  BY <1>1, <1>2 DEF Output

\* No two entries, entry and job, or two jobs have one name.
LEMMA EntriesApart ==
  ASSUME NEW f, Accepts(f),
         NEW e \in Output(f).entries, NEW x \in Output(f).entries, e.name = x.name
  PROVE  e = x
<1>1. PICK o : <<e.name, o>> \in Held(f) /\ e = EntryOf(f, o)
  BY EntryHolds
<1>2. PICK q : <<x.name, q>> \in Held(f) /\ x = EntryOf(f, q)
  BY EntryHolds
<1>3. Once(Held(f) \cup JobClaims(f))
  BY DEF Accepts, NamesOnce
<1>4. o = q
  BY <1>1, <1>2, <1>3 DEF Once
<1> QED
  BY <1>1, <1>2, <1>4

LEMMA DerivedApart ==
  ASSUME NEW f, Accepts(f), NEW e \in Output(f).entries, NEW x \in Output(f).entries,
         NEW w \in Suffixes
  PROVE  x.name # Append(e.name, w)
<1>1. (\E o : <<e.name, o>> \in Held(f)) /\ (\E o : <<x.name, o>> \in Held(f))
  BY EntryHolds
<1>2. DerivedFree(f)
  BY DEF Accepts
<1> QED
  BY <1>1, <1>2 DEF DerivedFree

LEMMA JobsApart ==
  ASSUME NEW f, Accepts(f), NEW j \in Output(f).jobs
  PROVE  /\ \A k \in Output(f).jobs : j.name = k.name => j = k
         /\ \A e \in Output(f).entries : j.name # e.name
<1>1. Once(Held(f) \cup JobClaims(f))
  BY DEF Accepts, NamesOnce
<1>2. PICK t \in JobsOf(f) : j = [name |-> JobName(f, t[1], t[2]),
                                  of |-> ContainerName(f, t[1], Web)]
  BY DEF Output
<1>3. <<j.name, <<t[1], <<JobWord>> \o t[2]>> >> \in JobClaims(f)
  BY <1>2 DEF JobClaims
<1>4. t[1] \in Units(f) /\ t[2] \in Doc(f, t[1]).jobs
  BY DEF JobsOf
<1>5. PICK p \in DOMAIN f.docs : t[1] \in {p} \X EnvsOf(f.docs[p])
  BY <1>4 DEF Units
<1>6. t[1][1] = p /\ t[1] # <<>> /\ Valid(p, f.docs[p]) /\ t[1][2] \in EnvsOf(f.docs[p])
  BY <1>5 DEF Accepts, Loads
<1>7. t[2] \in Names
  BY <1>4, <1>6 DEF Valid, Schema, Doc
<1>8. ASSUME NEW k \in Output(f).jobs, j.name = k.name PROVE j = k
  <2>1. PICK q \in JobsOf(f) : k = [name |-> JobName(f, q[1], q[2]),
                                    of |-> ContainerName(f, q[1], Web)]
    BY DEF Output
  <2>2. <<k.name, <<q[1], <<JobWord>> \o q[2]>> >> \in JobClaims(f)
    BY <2>1 DEF JobClaims
  <2>3. <<t[1], <<JobWord>> \o t[2]>> = <<q[1], <<JobWord>> \o q[2]>>
    BY <1>1, <1>3, <1>8, <2>2 DEF Once
  <2> QED
    BY <1>2, <1>8, <2>1, <2>3
<1>9. ASSUME NEW e \in Output(f).entries, j.name = e.name PROVE FALSE
  <2>1. PICK o : <<e.name, o>> \in Held(f) /\ o[1] = e.unit /\ (e.unit # <<>> => o \in Slots(f))
    BY EntryHolds
  <2>2. o = <<t[1], <<JobWord>> \o t[2]>>
    BY <1>1, <1>3, <1>9, <2>1 DEF Once
  <2>3. o \in Slots(f)
    BY <1>6, <2>1, <2>2
  <2>4. <<JobWord>> \o t[2] \in DOMAIN f.docs[p].levels
    BY <1>6, <2>2, <2>3, SlotFacts
  <2>5. Len(<<JobWord>> \o t[2]) > 1 /\ (<<JobWord>> \o t[2])[1] = JobWord
    BY <1>7, ConcatProperties DEF Names
  <2>6. <<JobWord>> \o t[2] # Web
    <3>1. Len(Web) = 1
      BY DEF Web
    <3> QED
      BY <2>5, <3>1, SMTT(30)
  <2>7. <<JobWord>> \o t[2] \in Services(f.docs[p])
    BY <2>4, <2>6 DEF Services
  <2>8. ~StartsWithWord(<<JobWord>> \o t[2], JobWord)
    BY <1>6, <2>7 DEF Valid, NameRules
  <2> QED
    BY <2>5, <2>8 DEF StartsWithWord
<1> QED
  BY <1>8, <1>9

LEMMA AppendApart ==
  ASSUME NEW m \in Names, NEW n \in Names, NEW v, NEW w, Append(m, v) = Append(n, w)
  PROVE  m = n /\ v = w
<1> DEFINE S == STRING \cup {v, w}
<1>1. m \in Seq(S) /\ n \in Seq(S)
  BY DEF Names
<1> QED
  BY <1>1, AppendInjective

\* The names of an entry's routers are its own or derived from it.
LEMMA RouterNames ==
  ASSUME NEW e, NEW r \in Routers(e)
  PROVE  r.name = e.name \/ \E w \in {"vpn", "public", "health"} : r.name = Append(e.name, w)
BY DEF Routers, CatchAll, SplitOff, CarveOut

LEMMA OwnRoutersApart ==
  ASSUME NEW e, e.name \in Names, NEW r \in Routers(e), NEW q \in Routers(e), r.name = q.name
  PROVE  r = q
<1>1. \A v, w : Append(e.name, v) = Append(e.name, w) => v = w
  BY AppendApart
<1>2. \A w : e.name # Append(e.name, w)
  <2> TAKE w
  <2> DEFINE S == STRING \cup {w}
  <2>1. e.name \in Seq(S) /\ w \in S
    BY DEF Names
  <2>2. Len(Append(e.name, w)) = Len(e.name) + 1 /\ Len(e.name) \in Nat
    BY <2>1, AppendProperties
  <2> QED
    BY <2>2
<1>3. CASE e.mode = "public"
  <2>1. /\ CatchAll(e).name = e.name
        /\ SplitOff(e).name = Append(e.name, "vpn")
        /\ CarveOut(e).name = Append(e.name, "health")
    BY <1>3 DEF CatchAll, SplitOff, CarveOut
  <2>2. Routers(e) \subseteq {CatchAll(e), SplitOff(e), CarveOut(e)}
    BY DEF Routers
  <2> QED
    BY <1>1, <1>2, <2>1, <2>2
<1>4. CASE e.mode # "public"
  <2>1. /\ CatchAll(e).name = Append(e.name, "vpn")
        /\ SplitOff(e).name = Append(e.name, "public")
        /\ CarveOut(e).name = Append(e.name, "health")
    BY <1>4 DEF CatchAll, SplitOff, CarveOut
  <2>2. Routers(e) \subseteq {CatchAll(e), SplitOff(e), CarveOut(e)}
    BY DEF Routers
  <2> QED
    BY <1>1, <2>1, <2>2
<1> QED
  BY <1>3, <1>4

LEMMA RoutersApart ==
  ASSUME NEW f, Accepts(f), NEW e \in Output(f).entries, NEW x \in Output(f).entries,
         NEW r \in Routers(e), NEW q \in Routers(x), r.name = q.name
  PROVE  e = x /\ r = q
<1>1. e.name \in Names /\ x.name \in Names
  BY EntryHolds
<1>2. {"vpn", "public", "health"} \subseteq Suffixes
  BY DEF Suffixes
<1>3. /\ \A w \in {"vpn", "public", "health"} : x.name # Append(e.name, w)
      /\ \A w \in {"vpn", "public", "health"} : e.name # Append(x.name, w)
  BY <1>2, DerivedApart
<1>4. e.name = x.name
  <2>1. CASE r.name = e.name
    BY <1>3, <2>1, RouterNames
  <2>2. CASE q.name = x.name
    BY <1>3, <2>2, RouterNames
  <2>3. CASE r.name # e.name /\ q.name # x.name
    <3>1. PICK w : r.name = Append(e.name, w)
      BY <2>3, RouterNames
    <3>2. PICK v : q.name = Append(x.name, v)
      BY <2>3, RouterNames
    <3>3. Append(e.name, w) = Append(x.name, v)
      BY <3>1, <3>2
    <3> QED
      BY ONLY <1>1, <3>3, AppendApart
  <2> QED
    BY <2>1, <2>2, <2>3
<1>5. e = x
  BY <1>4, EntriesApart
<1> QED
  BY <1>1, <1>5, OwnRoutersApart

\* Volumes and databases of different units are different.
LEMMA DataApart ==
  ASSUME NEW f, Accepts(f), NEW e \in Output(f).entries, NEW x \in Output(f).entries,
         e.unit # x.unit
  PROVE  e.volumes \cap x.volumes = {} /\ (e.db # <<>> => e.db # x.db)
<1> DEFINE UnitVols ==
             UNION {{<<VolumeName(f, t[1], v), t[1]>> : v \in Level(f, t[1], t[2]).volumes} :
                      t \in Slots(f)}
           ResourceVols ==
             UNION {{<<v, <<r>> >> : v \in f.resources[r].volumes} : r \in DOMAIN f.resources}
           Vols == UnitVols \cup ResourceVols
           Owner(y) == IF y.unit = <<>> THEN <<y.name>> ELSE y.unit
<1>1. ASSUME NEW y \in Output(f).entries
      PROVE  /\ \A v \in y.volumes : <<v, Owner(y)>> \in Vols
             /\ y.db # <<>> =>
                  \E t \in Slots(f) : UsesDb(f, t[1], t[2]) /\ y.unit = t[1]
                                      /\ y.db = <<DbOn(f, t[1]), DbName(f, t[1])>>
             /\ y.unit # <<>> => \E p, n : y.unit = <<p, n>>
  <2>1. CASE \E t \in Slots(f) : y = Entry(f, t[1], t[2])
    <3>1. PICK t \in Slots(f) : y = Entry(f, t[1], t[2])
      BY <2>1
    <3>2. /\ y.unit = t[1]
          /\ y.volumes = {VolumeName(f, t[1], v) : v \in Level(f, t[1], t[2]).volumes}
          /\ y.db = IF UsesDb(f, t[1], t[2]) THEN <<DbOn(f, t[1]), DbName(f, t[1])>> ELSE <<>>
      BY <3>1 DEF Entry
    <3>3. t[1] = <<t[1][1], t[1][2]>>
      BY SlotFacts
    <3>4. Owner(y) = t[1]
      BY <3>2, <3>3
    <3>5. \A v \in y.volumes : <<v, Owner(y)>> \in Vols
      <4> SUFFICES ASSUME NEW v \in y.volumes PROVE <<v, t[1]>> \in Vols
        BY <3>4
      <4>1. PICK k \in Level(f, t[1], t[2]).volumes : v = VolumeName(f, t[1], k)
        BY <3>2
      <4>2. <<v, t[1]>> \in
              {<<VolumeName(f, t[1], n), t[1]>> : n \in Level(f, t[1], t[2]).volumes}
        BY <4>1
      <4> QED
        BY <4>2
    <3> QED
      BY <3>2, <3>3, <3>5
  <2>2. CASE \E r \in DOMAIN f.resources : y = ResourceEntry(f, r)
    <3>1. PICK r \in DOMAIN f.resources : y = ResourceEntry(f, r)
      BY <2>2
    <3>2. y.unit = <<>> /\ y.name = r /\ y.volumes = f.resources[r].volumes /\ y.db = <<>>
      BY <3>1 DEF ResourceEntry
    <3>3. \A v \in y.volumes : <<v, Owner(y)>> \in Vols
      <4> SUFFICES ASSUME NEW v \in y.volumes PROVE <<v, <<r>> >> \in Vols
        BY <3>2
      <4>1. <<v, <<r>> >> \in {<<n, <<r>> >> : n \in f.resources[r].volumes}
        BY <3>2
      <4>2. <<v, <<r>> >> \in ResourceVols
        BY <4>1
      <4> HIDE DEF UnitVols, ResourceVols
      <4> QED
        BY <4>2
    <3> QED
      BY <3>2, <3>3
  <2> QED
    BY <2>1, <2>2 DEF Output
<1>2. Once(Vols)
  <2>1. VolumesOnce(f)
    BY DEF Accepts
  <2> QED
    BY <2>1 DEF VolumesOnce
<1>3. Owner(e) # Owner(x)
  <2>1. /\ e.unit # <<>> => \E p, n : e.unit = <<p, n>>
        /\ x.unit # <<>> => \E p, n : x.unit = <<p, n>>
    BY <1>1
  <2>2. \A a, p, n : <<a>> # <<p, n>>
    OBVIOUS
  <2> HIDE DEF Vols
  <2> QED
    BY <2>1, <2>2
<1>4. ASSUME NEW v \in e.volumes, v \in x.volumes PROVE FALSE
  <2>1. <<v, Owner(e)>> \in Vols /\ <<v, Owner(x)>> \in Vols
    BY <1>1, <1>4
  <2> HIDE DEF Vols, Owner
  <2> QED
    BY <1>2, <1>3, <2>1 DEF Once
<1>5. ASSUME e.db # <<>>, e.db = x.db PROVE FALSE
  <2>1. PICK t \in Slots(f) : UsesDb(f, t[1], t[2]) /\ e.unit = t[1]
                               /\ e.db = <<DbOn(f, t[1]), DbName(f, t[1])>>
    BY <1>1, <1>5
  <2>2. PICK s \in Slots(f) : UsesDb(f, s[1], s[2]) /\ x.unit = s[1]
                               /\ x.db = <<DbOn(f, s[1]), DbName(f, s[1])>>
    BY <1>1, <1>5
  <2>3. Once({<< <<DbOn(f, z[1]), DbName(f, z[1])>>, z[1]>> :
                z \in {y \in Slots(f) : UsesDb(f, y[1], y[2])}})
    BY DEF Accepts, DatabasesOnce
  <2>4. t[1] = s[1]
    <3> DEFINE Dbs == {<< <<DbOn(f, z[1]), DbName(f, z[1])>>, z[1]>> :
                         z \in {y \in Slots(f) : UsesDb(f, y[1], y[2])}}
    <3>1. <<e.db, t[1]>> \in Dbs
      BY <2>1
    <3>2. <<e.db, s[1]>> \in Dbs
      BY <1>5, <2>2
    <3>3. Once(Dbs)
      BY <2>3
    <3> HIDE DEF Dbs
    <3> QED
      BY <3>1, <3>2, <3>3 DEF Once
  <2> QED
    BY <2>1, <2>2, <2>4
<1> QED
  BY <1>4, <1>5

\* A tailnet route's router is nobody else's.
LEMMA RoutesApart ==
  ASSUME Inv, Deployable, NEW r \in out.routes, NEW e \in out.entries, NEW q \in Routers(e)
  PROVE  q.name # Append(r, "tailnet")
<1>1. r \in Names /\ e.name \in Names
  BY EntryHolds DEF Inv, Accepts, Loads, Output
<1>2. CASE q.name = e.name
  <2>1. e.routed
    BY DEF Routers
  <2>2. ~EndsWithWord(e.name, "tailnet")
    BY <2>1 DEF Deployable, RouterNameFaults, ServiceEntries, RouterWords
  <2>4. /\ Len(Append(r, "tailnet")) = Len(r) + 1
        /\ Append(r, "tailnet")[Len(r) + 1] = "tailnet"
    <3> DEFINE S == STRING \cup {"tailnet"}
    <3>1. r \in Seq(S) /\ "tailnet" \in S
      BY <1>1 DEF Names
    <3> QED
      BY <3>1, AppendProperties
  <2>5. Len(r) > 0
    BY <1>1 DEF Names
  <2> QED
    BY <1>2, <2>2, <2>4, <2>5 DEF EndsWithWord
<1>3. CASE \E w \in {"vpn", "public", "health"} : q.name = Append(e.name, w)
  BY <1>1, <1>3, AppendApart
<1> QED
  BY <1>2, <1>3, RouterNames

LEMMA InvNamesApart == Inv => NamesApart
<1> SUFFICES ASSUME Inv PROVE NamesApart
  OBVIOUS
<1>1. Accepts(src) /\ out = Output(src)
  BY DEF Inv
<1>2. \A e, x \in out.entries : e.name = x.name => e = x
  BY <1>1, EntriesApart
<1>3. \A e, x \in out.entries :
        e.unit # x.unit => e.volumes \cap x.volumes = {} /\ (e.db # <<>> => e.db # x.db)
  BY <1>1, DataApart
<1>4. \A e, x \in out.entries : \A w \in DerivedNames : x.name # Append(e.name, w)
  BY <1>1, DerivedApart DEF DerivedNames, Suffixes
<1>5. \A e, x \in out.entries : \A r \in Routers(e), q \in Routers(x) :
        r.name = q.name => r = q
  BY <1>1, RoutersApart
<1>6. /\ \A j, k \in out.jobs : j.name = k.name => j = k
      /\ \A j \in out.jobs, e \in out.entries : j.name # e.name
  BY <1>1, JobsApart
<1>7. Deployable => \A r \in out.routes, e \in out.entries :
        \A q \in Routers(e) : q.name # Append(r, "tailnet")
  BY RoutesApart
<1> QED
  BY <1>2, <1>3, <1>4, <1>5, <1>6, <1>7 DEF NamesApart

\* Whatever names, environments, adopted names and hand-written names meet in
\* the files of a fleet, no two things of an accepted services.yml share a
\* container, job or router name, nor two units a volume or a database
\* (compiler.py, _claim_container and _check_derived_names).
THEOREM NamesStayApart == Spec => []NamesApart
<1>1. Init => Inv
  BY InvInit
<1>2. Inv /\ [Next]_vars => Inv'
  BY InvStep
<1>3. Inv => NamesApart
  BY InvNamesApart
<1> QED
  BY <1>1, <1>2, <1>3, PTL DEF Spec

(***************************************************************************)
(* Access                                                                  *)
(***************************************************************************)
\* What the schema, the compile and the deploy code leave of an entry's access.
AccessOf(e) ==
  /\ e.domains \in SUBSET Hosts
  /\ e.path # None => e.path \in Paths
  /\ e.health # None => e.health \in Paths
  /\ e.open \subseteq Paths /\ e.locked \subseteq Paths
  /\ ~(e.open # {} /\ e.password)

LEMMA DomainsAreHosts ==
  ASSUME NEW f, Accepts(f), NEW t \in Slots(f), Routed(f, t[1], t[2])
  PROVE  DomainsOf(f, t[1], t[2]) \subseteq Hosts
<1> DEFINE doc == f.docs[t[1][1]]
           d == doc.deploy[t[1][2]]
           lv == doc.levels[t[2]]
<1>1. /\ t[1][2] \in EnvsOf(doc) /\ t[2] \in DOMAIN doc.levels
      /\ Valid(t[1][1], doc)
  BY SlotFacts
<1>2. DeploySchema(d) /\ LevelSchema(lv) /\ t[1][1] \in Hosts
  BY <1>1 DEF Valid, Schema
<1>3. Deploy(f, t[1]) = d /\ Level(f, t[1], t[2]) = lv /\ Doc(f, t[1]) = doc
  BY DEF Deploy, Level, Doc
<1>4. MainDomains(f, t[1]) \subseteq Hosts
  <2> HIDE DEF d
  <2> QED
    BY <1>2, <1>3 DEF MainDomains, DeploySchema
<1>5. CASE t[2] = Web \/ ByPath(f, t[1], t[2])
  BY <1>4, <1>5 DEF DomainsOf
<1>6. CASE t[2] # Web /\ ~ByPath(f, t[1], t[2])
  <2>1. lv.domain # None
    BY <1>3, <1>6 DEF Routed, RoutedLevel, ByPath
  <2>2. SvcDomain(doc, t[1][2], t[2]) \in Hosts
    BY <1>2, <2>1 DEF SvcDomain, DeploySchema, LevelSchema
  <2> QED
    BY <1>3, <1>6, <2>2 DEF DomainsOf
<1> QED
  BY <1>5, <1>6

LEMMA RoutedAccess ==
  ASSUME NEW f, Accepts(f), NEW e \in Output(f).entries, e.routed
  PROVE  AccessOf(e)
<1>1. PICK t \in Slots(f) : e = Entry(f, t[1], t[2])
  BY DEF Output, ResourceEntry
<1> DEFINE lv == Level(f, t[1], t[2])
<1>2. /\ Routed(f, t[1], t[2]) /\ e.domains = DomainsOf(f, t[1], t[2])
      /\ e.path = lv.path /\ e.health = lv.health
      /\ e.open = lv.open /\ e.locked = lv.locked /\ e.password = lv.password
  BY <1>1 DEF Entry
<1>3. LevelSchema(lv)
  BY SlotFacts DEF Valid, Schema, Level, Doc
<1>4. ~(lv.open # {} /\ lv.password)
  BY <1>2 DEF Accepts, Supported
<1> QED
  BY <1>2, <1>3, <1>4, DomainsAreHosts DEF AccessOf, LevelSchema

\* The split router outranks the router that takes the rest.
LEMMA SplitOutranks ==
  ASSUME NEW e, AccessOf(e), Split(e) # {}
  PROVE  /\ CatchAll(e).prio \in Nat /\ SplitOff(e).prio \in Nat
         /\ CatchAll(e).prio < SplitOff(e).prio
<1>1. CASE e.path # None
  <2>1. PathRuleLen(e.domains, e.path) \in Nat
    <3>1. HostRuleLen(e.domains) \in Nat /\ PathLen(e.path) \in Nat
      BY <1>1, RuleAssumption DEF AccessOf
    <3> DEFINE n == IF Cardinality(e.domains) > 1 THEN 2 ELSE 0
    <3>2. n \in Nat
      OBVIOUS
    <3>3. PathRuleLen(e.domains, e.path) = HostRuleLen(e.domains) + n + 33 + 2 * PathLen(e.path)
      BY DEF PathRuleLen
    <3> HIDE DEF n
    <3> QED
      BY <3>1, <3>2, <3>3
  <2>2. /\ CatchAll(e).prio = PathRuleLen(e.domains, e.path)
        /\ SplitOff(e).prio = PathRuleLen(e.domains, e.path) + 1
    BY <1>1 DEF CatchAll, SplitOff
  <2> QED
    BY <2>1, <2>2
<1>2. CASE e.path = None
  BY <1>2 DEF CatchAll, SplitOff, SplitCatchAll, SplitRoutes
<1> QED
  BY <1>1, <1>2

LEMMA SplitWins ==
  ASSUME NEW e, e.routed, AccessOf(e), NEW rs, Routers(e) \subseteq rs, NEW h, NEW p,
         NEW r \in Winners(rs, h, p), r \in Routers(e),
         NEW q \in Split(e), RouteMatches(SplitOff(e).how, p, q)
  PROVE  r # CatchAll(e)
<1>1. Matches(r, h, p) /\ \A x \in rs : Matches(x, h, p) => x.prio =< r.prio
  BY DEF Winners
<1>2. h \in e.domains /\ (e.path # None => Under(p, e.path))
  BY <1>1 DEF Routers, CatchAll, SplitOff, CarveOut, Matches
<1>3. Matches(SplitOff(e), h, p)
  BY <1>2 DEF Matches, SplitOff
<1>4. SplitOff(e) \in rs
  BY DEF Routers
<1>5. SplitOff(e).prio =< r.prio
  BY <1>1, <1>3, <1>4
<1> QED
  BY <1>5, SplitOutranks

LEMMA AccessKept ==
  ASSUME NEW e, e.routed, AccessOf(e), NEW rs, Routers(e) \subseteq rs, NEW h, NEW p \in Paths,
         NEW r \in Winners(rs, h, p), r \in Routers(e)
  PROVE  /\ e.mode = "public" /\ (\E q \in e.locked : Under(p, q)) => r.vpn
         /\ e.mode = "tailnet" /\ ~(\E q \in e.open : Under(p, q)) /\ ~BesideOpen(e, p) => r.vpn
         /\ e.mode = "tailnet" /\ (\E q \in e.open : Under(p, q)) => ~r.vpn
         /\ e.password /\ p # e.health => r.auth
<1>1. Matches(r, h, p)
  BY DEF Winners
<1>2. r \in {CatchAll(e), SplitOff(e), CarveOut(e)}
  BY DEF Routers
<1>3. r = CarveOut(e) => HasCarveOut(e) /\ p = e.health
  <2> SUFFICES ASSUME r = CarveOut(e) PROVE HasCarveOut(e) /\ p = e.health
    OBVIOUS
  <2>1. CarveOut(e).how = "exact" /\ CatchAll(e).how = "all" /\ SplitOff(e).how # "exact"
    BY DEF CarveOut, CatchAll, SplitOff
  <2>2. HasCarveOut(e)
    BY <2>1 DEF Routers
  <2>3. \E q \in CarveOut(e).routes : RouteMatches("exact", p, q)
    BY <1>1, <2>1 DEF Matches
  <2>4. \E q \in {e.health} : RouteMatches("exact", p, q)
    BY <2>3 DEF CarveOut
  <2>5. \A q : RouteMatches("exact", p, q) <=> p = q
    BY DEF RouteMatches
  <2> QED
    BY <2>2, <2>4, <2>5
<1>4. ASSUME e.mode = "public", NEW q \in e.locked, Under(p, q) PROVE r.vpn
  <2>1. q \in Paths /\ StartsAny(p, q)
    BY <1>4, RuleAssumption DEF AccessOf
  <2>2. q \in Split(e) /\ SplitOff(e).how = "anycase"
    BY <1>4 DEF Split, SplitOff
  <2>3. RouteMatches(SplitOff(e).how, p, q)
    BY <2>1, <2>2 DEF RouteMatches
  <2>4. r # CatchAll(e)
    BY <2>2, <2>3, SplitWins
  <2>5. SplitOff(e).vpn
    BY <1>4 DEF SplitOff
  <2>6. r = CarveOut(e) => r.vpn
    BY <1>3, <1>4, <2>1 DEF CarveOut, HealthIsVpn
  <2> QED
    BY <1>2, <2>4, <2>5, <2>6
<1>5. ASSUME e.mode = "tailnet", ~\E q \in e.open : Under(p, q), ~BesideOpen(e, p) PROVE r.vpn
  <2>0. ~\E q \in e.open : Starts(p, q)
    BY <1>5 DEF BesideOpen
  <2>1. CatchAll(e).vpn
    BY <1>5 DEF CatchAll
  <2>2. r # SplitOff(e)
    <3> SUFFICES ASSUME r = SplitOff(e) PROVE FALSE
      OBVIOUS
    <3>1. SplitOff(e).how = "prefix" /\ SplitOff(e).routes = e.open
      BY <1>5 DEF SplitOff, Split
    <3>2. \E q \in e.open : RouteMatches("prefix", p, q)
      BY <1>1, <3>1 DEF Matches
    <3>3. \A q : RouteMatches("prefix", p, q) <=> Starts(p, q)
      BY DEF RouteMatches
    <3> QED
      BY <2>0, <3>2, <3>3
  <2>3. r = CarveOut(e) => r.vpn
    <3>1. \A q \in e.open : ~Under(p, q)
      BY <1>5
    <3>2. CarveOut(e).vpn = HealthIsVpn(e)
      BY DEF CarveOut
    <3>3. p = e.health => HealthIsVpn(e)
      BY <1>5, <3>1 DEF HealthIsVpn
    <3> QED
      BY <1>3, <3>2, <3>3
  <2> QED
    BY <1>2, <2>1, <2>2, <2>3
<1>6. ASSUME e.mode = "tailnet", NEW q \in e.open, Under(p, q) PROVE ~r.vpn
  <2>1. q \in Paths /\ Starts(p, q)
    BY <1>6, RuleAssumption DEF AccessOf
  <2>2. q \in Split(e) /\ SplitOff(e).how = "prefix" /\ ~SplitOff(e).vpn
    BY <1>6 DEF Split, SplitOff
  <2>3. RouteMatches(SplitOff(e).how, p, q)
    BY <2>1, <2>2 DEF RouteMatches
  <2>4. r # CatchAll(e)
    BY <2>2, <2>3, SplitWins
  <2>5. r # CarveOut(e)
    BY <1>3, <1>6 DEF AccessOf, HasCarveOut
  <2> QED
    BY <1>2, <2>2, <2>4, <2>5
<1>7. ASSUME e.password, p # e.health PROVE r.auth
  <2>1. r \in {CatchAll(e), SplitOff(e)}
    BY <1>2, <1>3, <1>7
  <2> QED
    BY <1>7, <2>1 DEF CatchAll, SplitOff
<1> QED
  BY <1>4, <1>5, <1>6, <1>7

LEMMA InvLocked == Inv => LockedStaysIn
<1> SUFFICES ASSUME Inv, NEW b \in Boxes, NEW h \in UNION {e.domains : e \in out.entries},
                    NEW p \in Requests,
                    NEW r \in Winners(UNION {Routers(e) : e \in Serving(b, h)}, h, p),
                    NEW e \in {x \in Serving(b, h) : x.name = r.svc}
             PROVE  /\ e.mode = "public" /\ (\E q \in e.locked : Under(p, q)) => r.vpn
                    /\ e.mode = "tailnet" /\ ~(\E q \in e.open : Under(p, q)) /\ ~BesideOpen(e, p) => r.vpn
                    /\ e.mode = "tailnet" /\ (\E q \in e.open : Under(p, q)) => ~r.vpn
                    /\ e.password /\ p # e.health => r.auth
  BY DEF LockedStaysIn
<1> DEFINE rs == UNION {Routers(x) : x \in Serving(b, h)}
<1>1. PICK x \in Serving(b, h) : r \in Routers(x)
  BY DEF Winners
<1>2. r.svc = x.name /\ x.routed
  BY <1>1 DEF Routers, CatchAll, SplitOff, CarveOut
<1>3. Serving(b, h) \subseteq out.entries
  BY DEF Serving, Active
<1>4. Accepts(src) /\ e \in Output(src).entries /\ x \in Output(src).entries
  BY <1>3 DEF Inv
<1>5. e = x
  BY <1>2, <1>4, EntriesApart
<1>6. AccessOf(e)
  BY <1>2, <1>4, <1>5, RoutedAccess
<1>7. Routers(e) \subseteq rs
  OBVIOUS
<1>8. p \in Paths /\ r \in Winners(rs, h, p)
  BY RequestsArePaths
<1> HIDE DEF rs
<1> QED
  BY <1>1, <1>2, <1>5, <1>6, <1>7, <1>8, AccessKept

\* Whichever router wins on a box, a locked path of a public service and every
\* path of a tailnet service that does not start with an open one is behind the
\* VPN rule, an open path is not, and only the health path is answered without
\* the service's password (bay_filters.py, _add_router_labels and
\* _add_health_router_labels).
THEOREM LockedPathsStayIn == Spec => []LockedStaysIn
<1>1. Init => Inv
  BY InvInit
<1>2. Inv /\ [Next]_vars => Inv'
  BY InvStep
<1>3. Inv => LockedStaysIn
  BY InvLocked
<1> QED
  BY <1>1, <1>2, <1>3, PTL DEF Spec

(***************************************************************************)
(* Needs                                                                   *)
(***************************************************************************)
\* Every box has a group of its own.
GroupsNameBoxes ==
  \A b, c \in Boxes : Group[b] # None /\ (Group[b] = Group[c] => b = c)

\* The entry of a slot runs on its unit's box, and nowhere else.
LEMMA SlotEntry ==
  ASSUME GroupsNameBoxes, NEW f, Accepts(f), NEW t \in Slots(f)
  PROVE  /\ Entry(f, t[1], t[2]) \in Output(f).entries
         /\ BoxOf(f, t[1]) \in Boxes
         /\ Entry(f, t[1], t[2]).regions = {Group[BoxOf(f, t[1])]}
<1>1. BoxOf(f, t[1]) \in Boxes
  BY SlotFacts DEF Accepts, BoxesKnown
<1>2. Group[BoxOf(f, t[1])] # None
  BY <1>1 DEF GroupsNameBoxes
<1>3. Regions({BoxOf(f, t[1])}) = {Group[BoxOf(f, t[1])]}
  BY <1>2 DEF Regions
<1>4. Entry(f, t[1], t[2]).regions = Regions({BoxOf(f, t[1])})
  BY DEF Entry
<1>5. Entry(f, t[1], t[2]) \in Output(f).entries
  BY DEF Output
<1> QED
  BY <1>1, <1>3, <1>4, <1>5

LEMMA ResourceRuns ==
  ASSUME GroupsNameBoxes, Inv, NEW b \in Boxes, NEW r \in DOMAIN src.resources,
         b \in src.resources[r].boxes
  PROVE  ResourceEntry(src, r) \in Active(b)
<1>1. ResourceEntry(src, r) \in out.entries
  BY DEF Inv, Output
<1>2. src.resources[r].boxes \subseteq Boxes
  BY DEF Inv, Accepts, Loads, ResourceSchema
<1>3. Group[b] \in Regions(src.resources[r].boxes)
  BY <1>2 DEF Regions, GroupsNameBoxes
<1>4. ResourceEntry(src, r).regions = Regions(src.resources[r].boxes)
  BY DEF ResourceEntry
<1> QED
  BY <1>1, <1>3, <1>4 DEF Active

LEMMA SlotRuns ==
  ASSUME GroupsNameBoxes, Inv, NEW t \in Slots(src)
  PROVE  Entry(src, t[1], t[2]) \in Active(BoxOf(src, t[1]))
<1>1. Accepts(src) /\ out = Output(src)
  BY DEF Inv
<1> QED
  BY <1>1, SlotEntry DEF Active

LEMMA MainSlot ==
  ASSUME NEW f, Accepts(f), NEW v \in Units(f)
  PROVE  <<v, Web>> \in Slots(f)
<1>1. PICK p \in DOMAIN f.docs : v \in {p} \X EnvsOf(f.docs[p])
  BY DEF Units
<1>2. Valid(p, f.docs[p]) /\ v[1] = p
  BY <1>1 DEF Accepts, Loads
<1>3. Web \in LevelsOf(f, v)
  BY <1>2 DEF Valid, Schema, LevelsOf, Doc
<1> QED
  BY <1>3 DEF Slots

LEMMA DatabaseRuns ==
  ASSUME GroupsNameBoxes, Inv, NEW t \in Slots(src), UsesDb(src, t[1], t[2])
  PROVE  \E x \in Active(BoxOf(src, t[1])) : x.name = DbOn(src, t[1])
<1> DEFINE b == BoxOf(src, t[1])
           rs == ResourcesOn(src, "postgres", b)
<1>1. Accepts(src) /\ b \in Boxes
  BY SlotEntry DEF Inv
<1>2. NeedMet(src, t[1], Postgres)
  BY <1>1 DEF UsesDb, Accepts, NeedsMet
<1>3. Cardinality(rs) = 1
  BY <1>2 DEF NeedMet
<1>4. rs # {}
  BY <1>3, FS_EmptySet
<1>5. DbOn(src, t[1]) \in rs
  BY <1>4 DEF DbOn
<1>6. DbOn(src, t[1]) \in DOMAIN src.resources /\ b \in src.resources[DbOn(src, t[1])].boxes
  BY <1>5 DEF ResourcesOn
<1>7. ResourceEntry(src, DbOn(src, t[1])) \in Active(b)
  BY <1>1, <1>6, ResourceRuns
<1>8. ResourceEntry(src, DbOn(src, t[1])).name = DbOn(src, t[1])
  BY DEF ResourceEntry
<1> QED
  BY <1>7, <1>8

\* What answers a URL of a slot.
Answers(f, t, u) ==
  \E x \in Active(u.box) :
    /\ x.name = u.to
    /\ u.tailnet \/ u.box = BoxOf(f, t[1])
    /\ x.port
    /\ u.tailnet /\ x.routed => x.expose = "tailnet" /\ HasIp[u.box]

LEMMA SiblingAnswers ==
  ASSUME GroupsNameBoxes, Inv, NEW t \in Slots(src), NEW s \in Siblings(src, t[1], t[2])
  PROVE  Answers(src, t, [to |-> ContainerName(src, t[1], s), box |-> BoxOf(src, t[1]),
                          tailnet |-> FALSE])
<1>1. s \in LevelsOf(src, t[1]) /\ Level(src, t[1], s).port
  BY DEF Siblings
<1>2. <<t[1], s>> \in Slots(src)
  BY <1>1, SlotFacts DEF Slots, Inv
<1> DEFINE x == Entry(src, t[1], s)
<1>3. x \in Active(BoxOf(src, t[1]))
  BY <1>2, SlotRuns
<1>4. x.name = ContainerName(src, t[1], s) /\ x.port
  BY <1>1 DEF Entry
<1> HIDE DEF x
<1> QED
  BY <1>3, <1>4 DEF Answers

LEMMA ProjectAnswers ==
  ASSUME GroupsNameBoxes, Inv, NEW t \in Slots(src),
         NEW n \in Needs(src, t[1], t[2]) \ {Postgres}, n \in DOMAIN src.docs
  PROVE  Answers(src, t, Url(src, t[1], n))
<1> DEFINE v == NeedUnit(src, t[1], n)
           u == Url(src, t[1], n)
           x == Entry(src, v, Web)
<1>1. Accepts(src)
  BY DEF Inv
<1>2. NeedMet(src, t[1], n)
  BY <1>1 DEF Accepts, NeedsMet
<1>3. ProjectNeedMet(src, t[1], n)
  BY <1>2 DEF NeedMet
<1>4. /\ v \in Units(src) /\ Level(src, v, Web).port
      /\ SameBox(src, t[1], v) \/ HasIp[BoxOf(src, v)]
  BY <1>3 DEF ProjectNeedMet
<1>5. <<v, Web>> \in Slots(src)
  BY <1>1, <1>4, MainSlot
<1>6. /\ u.to = ContainerName(src, v, Web) /\ u.box = BoxOf(src, v)
      /\ u.tailnet = ~SameBox(src, t[1], v)
  BY DEF Url
<1> HIDE DEF v, u
<1>7. x \in Active(u.box)
  BY <1>5, <1>6, SlotRuns
<1>8. x.name = u.to /\ x.port
  BY <1>4, <1>6 DEF Entry
<1>9. u.tailnet \/ u.box = BoxOf(src, t[1])
  BY <1>6 DEF SameBox
<1>10. ASSUME u.tailnet, x.routed PROVE x.expose = "tailnet" /\ HasIp[u.box]
  <2>1. u \in Urls(src, t[1], t[2])
    BY DEF Urls, u
  <2>2. u.to \in Exposed(src)
    BY <2>1, <1>10 DEF Exposed
  <2>3. x.routed = Routed(src, v, Web)
        /\ x.expose = IF Routed(src, v, Web) /\ x.name \in Exposed(src) THEN "tailnet"
                      ELSE Level(src, v, Web).expose
    BY DEF Entry
  <2>4. x.expose = "tailnet"
    BY <1>8, <1>10, <2>2, <2>3
  <2> QED
    BY <1>4, <1>6, <1>10, <2>4
<1> HIDE DEF x
<1> QED
  BY <1>7, <1>8, <1>9, <1>10 DEF Answers, u

LEMMA ResourceAnswers ==
  ASSUME GroupsNameBoxes, Inv, NEW t \in Slots(src),
         NEW n \in Needs(src, t[1], t[2]) \ {Postgres}, n \notin DOMAIN src.docs
  PROVE  Answers(src, t, Url(src, t[1], n))
<1> DEFINE b == BoxOf(src, t[1])
           x == ResourceEntry(src, n)
<1>1. Accepts(src) /\ b \in Boxes
  BY SlotEntry DEF Inv
<1>2. NeedMet(src, t[1], n)
  BY <1>1 DEF Accepts, NeedsMet
<1>3. n \in DOMAIN src.resources /\ n \in ResourcesOn(src, "container", b)
  BY <1>2 DEF NeedMet, ResourceNeedMet
<1>4. x \in Active(b)
  BY <1>1, <1>3, ResourceRuns DEF ResourcesOn
<1>5. x.name = n /\ x.port
  BY DEF ResourceEntry
<1>6. Url(src, t[1], n) = [to |-> n, box |-> b, tailnet |-> FALSE]
  BY DEF Url
<1> HIDE DEF x
<1> QED
  BY <1>4, <1>5, <1>6 DEF Answers

LEMMA InvUrls == GroupsNameBoxes /\ Inv => UrlsAnswer
<1> SUFFICES ASSUME GroupsNameBoxes, Inv, NEW b \in Boxes, NEW e \in Active(b)
             PROVE  /\ e.db # <<>> => \E x \in Active(b) : x.name = e.db[1]
                    /\ \A u \in e.urls :
                         \E x \in Active(u.box) :
                           /\ x.name = u.to
                           /\ u.tailnet \/ u.box = b
                           /\ x.port
                           /\ u.tailnet /\ x.routed => x.expose = "tailnet" /\ HasIp[u.box]
  BY DEF UrlsAnswer
<1>1. Accepts(src) /\ e \in Output(src).entries /\ (e.regions = {} \/ Group[b] \in e.regions)
  BY DEF Inv, Active
<1>2. CASE \E r \in DOMAIN src.resources : e = ResourceEntry(src, r)
  BY <1>2 DEF ResourceEntry
<1>3. CASE \E t \in Slots(src) : e = Entry(src, t[1], t[2])
  <2>1. PICK t \in Slots(src) : e = Entry(src, t[1], t[2])
    BY <1>3
  <2>2. b = BoxOf(src, t[1])
    BY <1>1, <2>1, SlotEntry DEF GroupsNameBoxes
  <2>3. /\ e.db = IF UsesDb(src, t[1], t[2]) THEN <<DbOn(src, t[1]), DbName(src, t[1])>> ELSE <<>>
        /\ e.urls = Urls(src, t[1], t[2])
    BY <2>1 DEF Entry
  <2>4. e.db # <<>> => \E x \in Active(b) : x.name = e.db[1]
    BY <2>2, <2>3, DatabaseRuns
  <2>5. ASSUME NEW u \in e.urls PROVE Answers(src, t, u)
    <3>1. CASE \E n \in Needs(src, t[1], t[2]) \ {Postgres} : u = Url(src, t[1], n)
      BY <3>1, ProjectAnswers, ResourceAnswers
    <3>2. CASE \E s \in Siblings(src, t[1], t[2]) :
                 u = [to |-> ContainerName(src, t[1], s), box |-> BoxOf(src, t[1]),
                      tailnet |-> FALSE]
      BY <3>2, SiblingAnswers
    <3> QED
      BY <2>3, <3>1, <3>2 DEF Urls
  <2> QED
    BY <2>2, <2>4, <2>5 DEF Answers
<1> QED
  BY <1>1, <1>2, <1>3 DEF Output

\* Where every box has a group of its own, every URL and every database that the
\* compile writes into a container is answered by a container that runs where the
\* URL points, listens, and is exposed to the tailnet if it is on another box
\* (compiler.py, _need_url and run).
THEOREM UrlsAreAnswered == GroupsNameBoxes => (Spec => []UrlsAnswer)
<1> SUFFICES ASSUME GroupsNameBoxes PROVE Spec => []UrlsAnswer
  OBVIOUS
<1>1. Init => Inv
  BY InvInit
<1>2. Inv /\ [Next]_vars => Inv'
  BY InvStep
<1>3. Inv => UrlsAnswer
  BY InvUrls
<1> QED
  BY <1>1, <1>2, <1>3, PTL DEF Spec
=============================================================================
