-------------------------- MODULE EstimatorProofs --------------------------
(***************************************************************************)
(* Proofs about what a resource is charged, for every resource, profile    *)
(* and context (Estimators, Usage).  An estimator knows its resource and   *)
(* what it is told of its use: the hours it runs and the drivers of a      *)
(* profile.  Two estimates are compared through that knowledge.            *)
(***************************************************************************)
EXTENDS Promises, SharedProofs, SequenceTheorems, TLAPS

Instances == {"AWS::EC2::Instance", "AWS::RDS::DBInstance"}

(* All that an estimator learns of the use of r is the same in x and in y. *)
SameUse(r, x, y) ==
  /\ RuntimeHours(r, x, "ALWAYS_ON") = RuntimeHours(r, y, "ALWAYS_ON")
  /\ r.type \in Instances => RuntimeHours(r, x, "STOPPABLE") = RuntimeHours(r, y, "STOPPABLE")
  /\ \A path \in {None, r.path} : \A name : DriverAt(r, path, x, name) = DriverAt(r, path, y, name)

LEMMA SameUseSameEstimate ==
  ASSUME NEW r, NEW x, NEW y, SameUse(r, x, y)
  PROVE  Estimate(r, x) = Estimate(r, y)
<1>1. /\ RuntimeHours(r, x, "ALWAYS_ON") = RuntimeHours(r, y, "ALWAYS_ON")
      /\ r.type \in Instances => RuntimeHours(r, x, "STOPPABLE") = RuntimeHours(r, y, "STOPPABLE")
  BY DEF SameUse
<1>2. \A name : /\ Driver(r, x, name) = Driver(r, y, name)
                /\ OwnDriver(r, x, name) = OwnDriver(r, y, name)
                /\ DriverAt(r, None, x, name) = DriverAt(r, None, y, name)
  BY DEF SameUse, Driver, OwnDriver
<1>3. r.type \in Instances =>
        /\ Ec2Charges(r, x) = Ec2Charges(r, y)
        /\ RdsCharges(r, x) = RdsCharges(r, y)
  BY <1>1 DEF Ec2Charges, RdsCharges, RdsInstance
<1>4. /\ EksCharges(r, x) = EksCharges(r, y)
      /\ NatCharges(r, x) = NatCharges(r, y)
      /\ EipCharges(r, x) = EipCharges(r, y)
      /\ BalancerCharges(r, x) = BalancerCharges(r, y)
  BY <1>1, <1>2 DEF EksCharges, NatCharges, NatBytes, EipCharges, BalancerCharges, BalancerEgress
<1>5. /\ LambdaCharges(r, x) = LambdaCharges(r, y)
      /\ ApiCharges(r, x) = ApiCharges(r, y)
      /\ RestApiCharges(r, x) = RestApiCharges(r, y)
  BY <1>2 DEF LambdaCharges, LambdaDuration, LambdaMemory, ApiCharges, RestApiCharges, ApiRequests
<1>6. /\ TableCharges(r, x) = TableCharges(r, y)
      /\ BucketCharges(r, x) = BucketCharges(r, y)
      /\ LogCharges(r, x) = LogCharges(r, y)
  BY <1>1, <1>2
     DEF TableCharges, OnDemand, Provisioned, TableStorage, BucketCharges, BucketVolume, LogCharges
<1> QED  BY <1>3, <1>4, <1>5, <1>6 DEF Estimate, Instances

-----------------------------------------------------------------------------
(* Overrides nobody goes by.                                               *)

(* Numbers that are not negative have a least among them.                  *)
LEMMA MinIsLeast ==
  ASSUME NEW M \in SUBSET Nat, M # {}
  PROVE  Min(M) \in M /\ \A n \in M : Min(M) <= n
<1>1. PICK top \in M : TRUE
  OBVIOUS
<1> DEFINE B == {0 .. m : m \in {n \in M : n <= top}}
           S == 0 .. top
<1>2. B \in SUBSET SUBSET S /\ B # {} /\ IsFiniteSet(S)
  <2>1. IsFiniteSet(0 .. top)
    BY FS_Interval
  <2>2. ASSUME NEW U \in B PROVE U \subseteq 0 .. top
    OBVIOUS
  <2>3. 0 .. top \in B
    OBVIOUS
  <2> HIDE DEF B
  <2> QED  BY <2>1, <2>2, <2>3 DEF S
<1>3. PICK T \in B : \A U \in B : U \subseteq T => U = T
  <2> HIDE DEF B, S
  <2>1. \E T \in B : \A U \in B : U \subseteq T => U = T
    BY <1>2, SmallestMember
  <2> QED  BY <2>1
<1>4. PICK m \in M : m <= top /\ T = 0 .. m
  OBVIOUS
<1>5. ASSUME NEW n \in M, n < m PROVE FALSE
  <2>1. 0 .. n \in B /\ 0 .. n \subseteq T /\ m \in T /\ m \notin 0 .. n
    BY <1>4, <1>5
  <2> QED  BY <1>3, <2>1
<1>6. \A n \in M : m <= n
  BY <1>5
<1> QED  BY <1>6 DEF Min

LEMMA ShorterNames ==
  ASSUME NEW id, NEW path
  PROVE  Range(NamesOf(id, None)) \subseteq Range(NamesOf(id, path))
<1>1. Range(NamesOf(id, None)) = {id}
  BY DEF NamesOf, Distances, Range
<1>2. 0 \in DOMAIN NamesOf(id, path) /\ NamesOf(id, path)[0] = id
  BY DEF NamesOf, Distances
<1> QED  BY <1>1, <1>2 DEF Range

LEMMA DistancesAreNumbers ==
  ASSUME NEW id, NEW path, path # None => path.segments \in Seq(STRING)
  PROVE  DOMAIN NamesOf(id, path) \subseteq Nat
<1>1. CASE path = None
  BY <1>1 DEF NamesOf, Distances
<1>2. CASE path # None
  <2>1. ConstructIds(path) \subseteq 1 .. Len(path.segments) /\ Len(path.segments) \in Nat
    BY <1>2 DEF ConstructIds
  <2> QED  BY <1>2, <2>1 DEF NamesOf, Distances
<1> QED  BY <1>1, <1>2

LEMMA UnusedOverride ==
  ASSUME NEW profile, NEW name, NEW id, NEW path, NEW env, name \notin Range(NamesOf(id, path)),
         path # None => path.segments \in Seq(STRING)
  PROVE  Sources(Without(profile, name), id, path, env) = Sources(profile, id, path, env)
<1> DEFINE less == Without(profile, name)
           names == NamesOf(id, path)
           found == Overriding(profile, names)
<1>1. /\ less.environments = profile.environments /\ less.defaults = profile.defaults
      /\ DOMAIN less.overrides = DOMAIN profile.overrides \ {name}
      /\ \A o \in DOMAIN less.overrides : less.overrides[o] = profile.overrides[o]
  BY DEF Without
<1>2. \A n \in DOMAIN names : names[n] # name
  BY DEF Range
<1>3. Overriding(less, names) = found
  BY <1>1, <1>2 DEF Overriding
<1>4. ASSUME found # {}
      PROVE  less.overrides[names[Min(found)]] = profile.overrides[names[Min(found)]]
  <2>1. found \in SUBSET Nat
    BY DistancesAreNumbers DEF Overriding
  <2>2. Min(found) \in Overriding(less, names)
    BY <1>3, <1>4, <2>1, MinIsLeast
  <2> QED  BY <1>1, <2>2 DEF Overriding
<1> HIDE DEF less, names, found
<1>5. Sources(profile, id, path, env)
      = [i \in {j \in 1 .. 3 : (j = 1 => found # {}) /\ (j = 2 => env \in DOMAIN profile.environments)} |->
          CASE i = 1 -> profile.overrides[names[Min(found)]]
            [] i = 2 -> profile.environments[env]
            [] i = 3 -> profile.defaults]
  BY DEF Sources, names, found
<1>6. Sources(less, id, path, env)
      = [i \in {j \in 1 .. 3 : (j = 1 => found # {}) /\ (j = 2 => env \in DOMAIN profile.environments)} |->
          CASE i = 1 -> less.overrides[names[Min(found)]]
            [] i = 2 -> profile.environments[env]
            [] i = 3 -> profile.defaults]
  BY <1>1, <1>3 DEF Sources, names
<1> QED  BY <1>4, <1>5, <1>6 DEF less

LEMMA UnusedOverrideTellsNothing ==
  ASSUME NEW x, NEW name, NEW r, name \notin Range(NamesOf(r.id, r.path)),
         WellNamed(r)
  PROVE  Estimate(r, x) = Estimate(r, InsteadOf(x, Without(x.profile, name)))
<1> DEFINE y == InsteadOf(x, Without(x.profile, name))
<1>1. /\ y.profile = Without(x.profile, name) /\ y.hours = x.hours /\ y.context = x.context
      /\ y.profile.environments = x.profile.environments
  BY DEF InsteadOf, Without
<1>2. EnvOf(r, y) = EnvOf(r, x)
  BY <1>1 DEF EnvOf
<1>3. ASSUME NEW path \in {None, r.path}, NEW env
      PROVE  Sources(y.profile, r.id, path, env) = Sources(x.profile, r.id, path, env)
  BY <1>1, ShorterNames, UnusedOverride DEF WellNamed
<1> HIDE DEF y
<1>4. ASSUME NEW path \in {None, r.path}, NEW driver, NEW env
      PROVE  /\ ResolveDriver(y.profile, driver, r.id, path, env)
                = ResolveDriver(x.profile, driver, r.id, path, env)
             /\ MonthlyHours(y.profile, r.id, path, env, x.hours)
                = MonthlyHours(x.profile, r.id, path, env, x.hours)
  <2>1. Sources(y.profile, r.id, path, env) = Sources(x.profile, r.id, path, env)
    BY <1>3
  <2> QED  BY <2>1 DEF ResolveDriver, DriverIn, MonthlyHours, HoursIn
<1>5. \A path \in {None, r.path} : \A driver : DriverAt(r, path, x, driver) = DriverAt(r, path, y, driver)
  BY <1>2, <1>4 DEF DriverAt
<1>6. \A basis : RuntimeHours(r, x, basis) = RuntimeHours(r, y, basis)
  BY <1>1, <1>2, <1>4 DEF RuntimeHours
<1>7. SameUse(r, x, y)
  BY <1>5, <1>6 DEF SameUse
<1> QED  BY <1>7, SameUseSameEstimate DEF y

LEMMA QuestionStays == Spec => [](question \in Questions \cup {None})
<1>1. Init => question \in Questions \cup {None}
  BY DEF Init
<1>2. question \in Questions \cup {None} /\ [Next]_<<vars, question>>
      => (question \in Questions \cup {None})'
  BY DEF Next
<1> QED  BY <1>1, <1>2, PTL DEF Spec

(* An override the run warns about is one every estimate does without,     *)
(* whatever the profile, the paths and the names (usage.py:304).           *)
(* The names a lookup tries are among those the warning compares.          *)
LEMMA TriedIsCompared ==
  ASSUME NEW r, WellNamed(r)
  PROVE  Range(NamesOf(r.id, r.path)) \subseteq MatchedBy(r)
<1> DEFINE names == NamesOf(r.id, r.path)
           len == Len(r.path.segments)
<1>1. SUFFICES ASSUME NEW d \in DOMAIN names PROVE names[d] \in MatchedBy(r)
  BY DEF Range
<1>2. CASE d = 0
  BY <1>2 DEF NamesOf, Distances, MatchedBy
<1>3. CASE d = 1
  BY <1>3 DEF NamesOf, Distances, MatchedBy
<1>4. CASE d \notin {0, 1}
  <2>1. r.path # None /\ d \in {len + 2 - i : i \in ConstructIds(r.path)}
    BY <1>4 DEF NamesOf, Distances
  <2>2. PICK i \in ConstructIds(r.path) : d = len + 2 - i
    BY <2>1
  <2>3. i \in Int /\ len \in Int
    BY <2>1 DEF WellNamed, ConstructIds
  <2>4. len + 2 - d = i
    BY <2>2, <2>3
  <2>5. names[d] = r.path.segments[len + 2 - d]
    BY <1>1, <1>4 DEF NamesOf
  <2> QED  BY <2>1, <2>4, <2>5 DEF MatchedBy
<1> QED  BY <1>2, <1>3, <1>4

THEOREM WarnedOverridesDoNothing == Spec => []WarnedOverridesAreUnused
<1>1. question \in Questions \cup {None} => WarnedOverridesAreUnused
  <2> SUFFICES ASSUME question \in Questions, question.about = "profile",
                      NEW name \in UnmatchedOverrides(question.context.profile, question.resources),
                      NEW r \in question.resources
               PROVE  Estimate(r, question.context)
                      = Estimate(r, InsteadOf(question.context,
                                              Without(question.context.profile, name)))
    BY DEF WarnedOverridesAreUnused, Asked
  <2>1. WellNamed(r)
    BY QuestionAssumption
  <2>2. name \notin Range(NamesOf(r.id, r.path))
    BY <2>1, TriedIsCompared DEF UnmatchedOverrides
  <2> QED  BY <2>1, <2>2, UnusedOverrideTellsNothing
<1> QED  BY <1>1, QuestionStays, PTL

-----------------------------------------------------------------------------
(* Schedules.                                                              *)

LEMMA SourcesWithoutHours ==
  ASSUME NEW profile, NEW id, NEW path, NEW env, path # None => path.segments \in Seq(STRING)
  PROVE  LET bare == Sources(WithoutHours(profile), id, path, env)
             full == Sources(profile, id, path, env)
         IN  /\ DOMAIN bare = DOMAIN full
             /\ \A i \in DOMAIN full : bare[i].drivers = full[i].drivers
<1> DEFINE less == WithoutHours(profile)
           names == NamesOf(id, path)
           found == Overriding(profile, names)
           bare == Sources(less, id, path, env)
           full == Sources(profile, id, path, env)
           said == {i \in 1 .. 3 : (i = 1 => found # {}) /\ (i = 2 => env \in DOMAIN profile.environments)}
<1>1. /\ less.defaults.drivers = profile.defaults.drivers
      /\ DOMAIN less.environments = DOMAIN profile.environments
      /\ \A e \in DOMAIN profile.environments :
           less.environments[e].drivers = profile.environments[e].drivers
      /\ DOMAIN less.overrides = DOMAIN profile.overrides
      /\ \A o \in DOMAIN profile.overrides : less.overrides[o].drivers = profile.overrides[o].drivers
  BY DEF WithoutHours, Unscheduled
<1>2. Overriding(less, names) = found
  BY <1>1 DEF Overriding
<1>3. found # {} => names[Min(found)] \in DOMAIN profile.overrides
  <2>1. found \in SUBSET Nat
    BY DistancesAreNumbers DEF Overriding
  <2> QED  BY <2>1, MinIsLeast DEF Overriding
<1> HIDE DEF less, names, found
<1>4. full = [i \in said |-> CASE i = 1 -> profile.overrides[names[Min(found)]]
                               [] i = 2 -> profile.environments[env]
                               [] i = 3 -> profile.defaults]
  BY DEF Sources, names, found
<1>5. bare = [i \in said |-> CASE i = 1 -> less.overrides[names[Min(found)]]
                               [] i = 2 -> less.environments[env]
                               [] i = 3 -> less.defaults]
  BY <1>1, <1>2 DEF Sources, names
<1>6. DOMAIN full = said /\ DOMAIN bare = said
  BY <1>4, <1>5
<1>7. ASSUME NEW i \in said PROVE bare[i].drivers = full[i].drivers
  <2>1. CASE i = 1
    BY <1>1, <1>3, <1>4, <1>5, <2>1
  <2>2. CASE i = 2
    BY <1>1, <1>4, <1>5, <2>2
  <2>3. CASE i = 3
    BY <1>1, <1>4, <1>5, <2>3
  <2> QED  BY <2>1, <2>2, <2>3
<1> QED  BY <1>6, <1>7 DEF less

(* Hours and schedules tell an estimator nothing of a resource that cannot *)
(* be stopped.                                                             *)
LEMMA HoursTellNothing ==
  ASSUME NEW r, NEW x, r.type \notin Instances, WellNamed(r)
  PROVE  Estimate(r, x) = Estimate(r, InsteadOf(x, WithoutHours(x.profile)))
<1> DEFINE y == InsteadOf(x, WithoutHours(x.profile))
<1>1. /\ y.profile = WithoutHours(x.profile) /\ y.hours = x.hours /\ y.context = x.context
      /\ DOMAIN y.profile.environments = DOMAIN x.profile.environments
      /\ \A env \in DOMAIN x.profile.environments :
           y.profile.environments[env].lifetime = x.profile.environments[env].lifetime
  BY DEF InsteadOf, WithoutHours, Unscheduled
<1> HIDE DEF y
<1>2. EnvOf(r, y) = EnvOf(r, x)
  BY <1>1 DEF EnvOf
<1>3. RuntimeHours(r, x, "ALWAYS_ON") = RuntimeHours(r, y, "ALWAYS_ON")
  BY <1>1, <1>2 DEF RuntimeHours
<1>4. ASSUME NEW path \in {None, r.path}, NEW driver, NEW env
      PROVE  ResolveDriver(y.profile, driver, r.id, path, env)
             = ResolveDriver(x.profile, driver, r.id, path, env)
  <2> DEFINE bare == Sources(y.profile, r.id, path, env)
             full == Sources(x.profile, r.id, path, env)
             set == {i \in DOMAIN full : driver \in DOMAIN full[i].drivers}
  <2>1. DOMAIN bare = DOMAIN full /\ \A i \in DOMAIN full : bare[i].drivers = full[i].drivers
    BY <1>1, SourcesWithoutHours DEF WellNamed
  <2>2. {i \in DOMAIN bare : driver \in DOMAIN bare[i].drivers} = set
    BY <2>1
  <2>3. set # {} => Min(set) \in set
    <3>1. set \in SUBSET Nat
      BY DEF Sources
    <3> HIDE DEF set
    <3> QED  BY <3>1, MinIsLeast
  <2>4. set # {} => bare[Min(set)].drivers = full[Min(set)].drivers
    BY <2>1, <2>3
  <2> HIDE DEF bare, full, set
  <2> QED  BY <2>2, <2>4 DEF ResolveDriver, DriverIn, bare, full, set
<1>5. \A path \in {None, r.path} : \A driver : DriverAt(r, path, x, driver) = DriverAt(r, path, y, driver)
  BY <1>2, <1>4 DEF DriverAt
<1>6. SameUse(r, x, y)
  BY <1>3, <1>5 DEF SameUse
<1> QED  BY <1>6, SameUseSameEstimate DEF y

(* Only instances are charged less for the hours a profile states          *)
(* (estimators/base.py, RuntimeBasis).                                     *)
THEOREM SchedulesStopInstancesOnly == Spec => []ScheduleOnlyStopsInstances
<1>1. question \in Questions \cup {None} => ScheduleOnlyStopsInstances
  BY HoursTellNothing, QuestionAssumption DEF ScheduleOnlyStopsInstances, Asked, Instances
<1> QED  BY <1>1, QuestionStays, PTL

-----------------------------------------------------------------------------
(* Sequences of charges.                                                   *)

IsSequence(s) == s \in Seq(ToSet(s))

LEMMA ShortSequences ==
  /\ IsSequence(<<>>)
  /\ \A a : IsSequence(<<a>>)
  /\ \A a, b : IsSequence(<<a, b>>)
  /\ \A a, b, c : IsSequence(<<a, b, c>>)
BY DEF IsSequence, ToSet

LEMMA JoinedSequences ==
  ASSUME NEW s, NEW t, IsSequence(s), IsSequence(t)
  PROVE  /\ IsSequence(s \o t)
         /\ Len(s) \in Nat /\ Len(t) \in Nat /\ DOMAIN s = 1 .. Len(s) /\ DOMAIN t = 1 .. Len(t)
         /\ DOMAIN (s \o t) = 1 .. Len(s) + Len(t)
         /\ \A i \in DOMAIN s : (s \o t)[i] = s[i]
         /\ \A i \in DOMAIN t : (s \o t)[Len(s) + i] = t[i]
<1> DEFINE T == ToSet(s) \cup ToSet(t)
           j == s \o t
<1>1. s \in Seq(T) /\ t \in Seq(T)
  BY DEF IsSequence
<1>2. /\ j \in Seq(T) /\ Len(j) = Len(s) + Len(t)
      /\ \A i \in 1 .. Len(s) + Len(t) : j[i] = IF i <= Len(s) THEN s[i] ELSE t[i - Len(s)]
  BY <1>1, ConcatProperties
<1>3. Len(s) \in Nat /\ Len(t) \in Nat /\ DOMAIN s = 1 .. Len(s) /\ DOMAIN t = 1 .. Len(t)
  BY <1>1
<1>4. DOMAIN j = 1 .. Len(s) + Len(t)
  BY <1>2
<1>5. IsSequence(j)
  <2>1. j \in Seq(Range(j))
    BY <1>2, SeqOfRange
  <2> QED  BY <2>1 DEF IsSequence, ToSet, Range
<1>6. \A i \in DOMAIN s : j[i] = s[i]
  BY <1>2, <1>3
<1>7. ASSUME NEW i \in DOMAIN t PROVE j[Len(s) + i] = t[i]
  <2>1. i \in Nat /\ i >= 1 /\ i <= Len(t) /\ Len(s) \in Nat /\ Len(t) \in Nat
    BY <1>3
  <2>2. Len(s) + i \in 1 .. Len(s) + Len(t) /\ ~(Len(s) + i <= Len(s)) /\ (Len(s) + i) - Len(s) = i
    BY <2>1
  <2> QED  BY <1>2, <2>2
<1> HIDE DEF j
<1> QED  BY <1>3, <1>4, <1>5, <1>6, <1>7 DEF j

-----------------------------------------------------------------------------
(* What deployment settles.                                                *)

(* The charges f are those of e, but where e only reports an unknown.      *)
Forced(e, f) ==
  /\ DOMAIN e = DOMAIN f
  /\ \A i \in DOMAIN e : e[i] = f[i] \/ (e[i].key = None /\ e[i].dimension = f[i].dimension)

LEMMA ForcedJoin ==
  ASSUME NEW e, NEW f, NEW s, IsSequence(e), IsSequence(f), IsSequence(s), Forced(e, f)
  PROVE  Forced(e \o s, f \o s)
<1>1. /\ DOMAIN (e \o s) = 1 .. Len(e) + Len(s) /\ DOMAIN (f \o s) = 1 .. Len(f) + Len(s)
      /\ Len(e) \in Nat /\ Len(f) \in Nat /\ Len(s) \in Nat
      /\ DOMAIN e = 1 .. Len(e) /\ DOMAIN f = 1 .. Len(f) /\ DOMAIN s = 1 .. Len(s)
      /\ \A i \in DOMAIN e : (e \o s)[i] = e[i]
      /\ \A i \in DOMAIN f : (f \o s)[i] = f[i]
      /\ \A i \in DOMAIN s : (e \o s)[Len(e) + i] = s[i] /\ (f \o s)[Len(f) + i] = s[i]
  <2>1. /\ DOMAIN (e \o s) = 1 .. Len(e) + Len(s) /\ Len(e) \in Nat /\ Len(s) \in Nat
        /\ DOMAIN e = 1 .. Len(e) /\ DOMAIN s = 1 .. Len(s)
        /\ \A i \in DOMAIN e : (e \o s)[i] = e[i]
        /\ \A i \in DOMAIN s : (e \o s)[Len(e) + i] = s[i]
    BY JoinedSequences
  <2>2. /\ DOMAIN (f \o s) = 1 .. Len(f) + Len(s) /\ Len(f) \in Nat /\ Len(s) \in Nat
        /\ DOMAIN f = 1 .. Len(f) /\ DOMAIN s = 1 .. Len(s)
        /\ \A i \in DOMAIN f : (f \o s)[i] = f[i]
        /\ \A i \in DOMAIN s : (f \o s)[Len(f) + i] = s[i]
    BY JoinedSequences
  <2> QED  BY <2>1, <2>2
<1>2. Len(e) = Len(f)
  <2>1. PICK a, b \in Nat : a = Len(e) /\ b = Len(f)
    BY <1>1
  <2>2. 1 .. a = 1 .. b
    BY <1>1, <2>1 DEF Forced
  <2>3. a \in 1 .. a \/ a = 0
    BY <2>1
  <2>4. b \in 1 .. b \/ b = 0
    BY <2>1
  <2> QED  BY <2>1, <2>2, <2>3, <2>4
<1>3. ASSUME NEW i \in 1 .. Len(e) + Len(s), ~(i <= Len(e))
      PROVE  (e \o s)[i] = (f \o s)[i]
  <2>1. i - Len(e) \in DOMAIN s /\ Len(e) + (i - Len(e)) = i
    BY <1>1, <1>3
  <2> QED  BY <1>1, <1>2, <2>1
<1>4. ASSUME NEW i \in 1 .. Len(e) + Len(s), i <= Len(e)
      PROVE  (e \o s)[i] = e[i] /\ (f \o s)[i] = f[i] /\ i \in DOMAIN e
  BY <1>1, <1>2, <1>4
<1> QED  BY <1>1, <1>2, <1>3, <1>4 DEF Forced

(* c is a deployment of r: the properties r leaves open, all of them       *)
(* guarded, have values in c.                                              *)
Deploys(c, r) ==
  /\ c.type = r.type /\ c.id = r.id /\ c.path = r.path /\ c.tags = r.tags
  /\ DOMAIN c.props = DOMAIN r.props
  /\ \A p \in DOMAIN r.props :
       IF Open(r, p) THEN p \in Guarded /\ Known(c, p) ELSE c.props[p] = r.props[p]

LEMMA CompletionDeploys ==
  ASSUME NEW r, OpenProps(r) \subseteq Guarded, NEW c \in Completions(r, PropertyValues)
  PROVE  Deploys(c, r)
<1>1. PICK choice \in [OpenProps(r) -> UNION {{p} \X PropertyValues[p] : p \in OpenProps(r)}] :
        /\ \A p \in OpenProps(r) : choice[p][1] = p
        /\ c = Completed(r, choice)
  BY DEF Completions
<1>2. ASSUME NEW p \in OpenProps(r) PROVE choice[p][2] # Unresolved
  <2>1. PICK q \in OpenProps(r) : choice[p] \in {q} \X PropertyValues[q]
    BY <1>1
  <2>2. q \in Guarded /\ choice[p][2] \in PropertyValues[q]
    BY <2>1
  <2> QED  BY <2>2, ValuesAssumption
<1>3. /\ c.type = r.type /\ c.id = r.id /\ c.path = r.path /\ c.tags = r.tags
      /\ c.props = [p \in DOMAIN r.props |-> IF Open(r, p) THEN choice[p][2] ELSE r.props[p]]
  BY <1>1 DEF Completed
<1>4. \A p \in DOMAIN r.props : Open(r, p) => p \in OpenProps(r) /\ p \in Guarded
  BY DEF OpenProps
<1> QED  BY <1>2, <1>3, <1>4 DEF Deploys, Known, Set

(* A property nobody guards is the same before and after.                  *)
LEMMA UnguardedStays ==
  ASSUME NEW r, NEW c, Deploys(c, r), NEW p, p \notin Guarded
  PROVE  /\ ~Open(r, p) /\ ~Open(c, p) /\ Known(c, p) = Known(r, p) /\ AsDecimal(c, p) = AsDecimal(r, p)
         /\ Known(r, p) => c.props[p] = r.props[p]
         /\ \A default : ValueOr(c, p, default) = ValueOr(r, p, default)
BY DEF Deploys, Open, Known, Set, ValueOr, AsDecimal

(* One that was known stays as it was.                                     *)
LEMMA KnownStays ==
  ASSUME NEW r, NEW c, Deploys(c, r), NEW p, ~Open(r, p)
  PROVE  /\ ~Open(c, p) /\ Known(c, p) = Known(r, p) /\ AsDecimal(c, p) = AsDecimal(r, p)
         /\ Known(r, p) => c.props[p] = r.props[p]
         /\ \A default : ValueOr(c, p, default) = ValueOr(r, p, default)
BY DEF Deploys, Open, Known, Set, ValueOr, AsDecimal

LEMMA OpenIsNothing ==
  ASSUME NEW r, NEW p, Open(r, p)
  PROVE  ~Known(r, p) /\ AsDecimal(r, p) = None
BY DEF Open, Known, ValueOr, AsDecimal

-----------------------------------------------------------------------------
(* Deployments settle what was reported as unknown, and nothing else.      *)

LEMMA DeployedUse ==
  ASSUME NEW r, NEW c, NEW x, Deploys(c, r)
  PROVE  /\ \A basis : RuntimeHours(c, x, basis) = RuntimeHours(r, x, basis)
         /\ \A path, name : DriverAt(c, path, x, name) = DriverAt(r, path, x, name)
         /\ \A name : Driver(c, x, name) = Driver(r, x, name)
<1>1. EnvOf(c, x) = EnvOf(r, x)
  BY DEF EnvOf, ContextOf, Deploys
<1> QED  BY <1>1 DEF RuntimeHours, DriverAt, Driver, Deploys

LEMMA ForcedEc2 ==
  ASSUME NEW r, NEW c, NEW x, Deploys(c, r)
  PROVE  Forced(Ec2Charges(r, x), Ec2Charges(c, x))
<1>1. \A basis : RuntimeHours(c, x, basis) = RuntimeHours(r, x, basis)
  BY DeployedUse
<1>2. \A default : ValueOr(c, "Tenancy", default) = ValueOr(r, "Tenancy", default)
  BY UnguardedStays DEF Guarded
<1>3. CASE Open(r, "InstanceType")
  BY <1>3, OpenIsNothing DEF Ec2Charges, Forced, Fixed, UnknownCharge, Charge
<1>4. CASE ~Open(r, "InstanceType")
  BY <1>1, <1>2, <1>4, KnownStays DEF Ec2Charges, Forced
<1> QED  BY <1>3, <1>4

LEMMA ForcedEbs ==
  ASSUME NEW r, NEW c, Deploys(c, r)
  PROVE  Forced(EbsCharges(r), EbsCharges(c))
<1>1. /\ ~Open(r, "VolumeType") /\ ~Open(c, "VolumeType")
      /\ ValueOr(c, "VolumeType", "gp2") = ValueOr(r, "VolumeType", "gp2")
  BY UnguardedStays DEF Guarded
<1>2. /\ AsDecimal(c, "Iops") = AsDecimal(r, "Iops")
      /\ AsDecimal(r, "Iops") # None => c.props["Iops"] = r.props["Iops"]
      /\ AsDecimal(c, "Throughput") = AsDecimal(r, "Throughput")
      /\ AsDecimal(r, "Throughput") # None => c.props["Throughput"] = r.props["Throughput"]
  BY UnguardedStays DEF Guarded, AsDecimal, ValueOr
<1> DEFINE type == ValueOr(r, "VolumeType", "gp2")
           iops == EbsExtra(r, type, "Iops", "EBS-IOPS-Month")
           throughput == EbsExtra(r, type, "Throughput", "EBS-Throughput-Month")
           mine == EbsCapacity(r, type)
           theirs == EbsCapacity(c, type)
<1>3. /\ EbsExtra(c, type, "Iops", "EBS-IOPS-Month") = iops
      /\ EbsExtra(c, type, "Throughput", "EBS-Throughput-Month") = throughput
  BY <1>2 DEF EbsExtra
<1>4. mine = theirs \/ (mine.key = None /\ mine.dimension = theirs.dimension)
  <2>1. CASE Open(r, "Size")
    BY <2>1, OpenIsNothing DEF EbsCapacity, Fixed, UnknownCharge, Charge
  <2>2. CASE ~Open(r, "Size")
    BY <2>2, KnownStays DEF EbsCapacity, AsDecimal, ValueOr
  <2> QED  BY <2>1, <2>2
<1>5. EbsCharges(r) = <<mine>> \o iops \o throughput
  BY <1>1 DEF EbsCharges
<1>6. EbsCharges(c) = <<theirs>> \o iops \o throughput
  BY <1>1, <1>3 DEF EbsCharges
<1>7. IsSequence(iops) /\ IsSequence(throughput)
  BY ShortSequences DEF EbsExtra
<1> HIDE DEF iops, throughput, mine, theirs
<1>8. Forced(<<mine>>, <<theirs>>)
  BY <1>4 DEF Forced
<1>9. Forced(<<mine>> \o iops, <<theirs>> \o iops)
  BY <1>7, <1>8, ShortSequences, ForcedJoin
<1>10. IsSequence(<<mine>> \o iops) /\ IsSequence(<<theirs>> \o iops)
  BY <1>7, ShortSequences, JoinedSequences
<1> QED  BY <1>5, <1>6, <1>7, <1>9, <1>10, ForcedJoin

LEMMA ForcedRds ==
  ASSUME NEW r, NEW c, NEW x, Deploys(c, r)
  PROVE  Forced(RdsCharges(r, x), RdsCharges(c, x))
<1> DEFINE like(e, f) == e = f \/ (e.key = None /\ e.dimension = f.dimension)
<1>1. \A basis : RuntimeHours(c, x, basis) = RuntimeHours(r, x, basis)
  BY DeployedUse
<1>2. like(RdsInstance(r, x), RdsInstance(c, x))
  <2>1. CASE Open(r, "DBInstanceClass") \/ Open(r, "Engine") \/ Open(r, "MultiAZ")
    BY <2>1, OpenIsNothing DEF RdsInstance, Fixed, UnknownCharge, Charge
  <2>2. CASE ~Open(r, "DBInstanceClass") /\ ~Open(r, "Engine") /\ ~Open(r, "MultiAZ")
    <3>1. /\ ~Open(c, "MultiAZ")
          /\ Known(c, "MultiAZ") = Known(r, "MultiAZ")
          /\ Known(r, "MultiAZ") => c.props["MultiAZ"] = r.props["MultiAZ"]
      BY <2>2, KnownStays
    <3>2. /\ Known(c, "DBInstanceClass") = Known(r, "DBInstanceClass")
          /\ Known(r, "DBInstanceClass") => c.props["DBInstanceClass"] = r.props["DBInstanceClass"]
      BY <2>2, KnownStays
    <3>3. /\ Known(c, "Engine") = Known(r, "Engine")
          /\ Known(r, "Engine") => c.props["Engine"] = r.props["Engine"]
      BY <2>2, KnownStays
    <3> QED  BY <1>1, <2>2, <3>1, <3>2, <3>3 DEF RdsInstance, ValueOr
  <2> QED  BY <2>1, <2>2
<1>3. like(RdsStorage(r), RdsStorage(c))
  <2>1. CASE Open(r, "AllocatedStorage") \/ Open(r, "StorageType")
    BY <2>1, OpenIsNothing DEF RdsStorage, Fixed, UnknownCharge, Charge
  <2>2. CASE ~Open(r, "AllocatedStorage") /\ ~Open(r, "StorageType")
    BY <2>2, KnownStays DEF RdsStorage, AsDecimal, ValueOr
  <2> QED  BY <2>1, <2>2
<1>4. RdsBackup(c) = RdsBackup(r)
  BY UnguardedStays DEF Guarded, RdsBackup, AsDecimal, ValueOr
<1>5. IsSequence(RdsBackup(r))
  BY ShortSequences DEF RdsBackup
<1>6. Forced(<<RdsInstance(r, x), RdsStorage(r)>>, <<RdsInstance(c, x), RdsStorage(c)>>)
  BY <1>2, <1>3 DEF Forced
<1> QED  BY <1>4, <1>5, <1>6, ShortSequences, ForcedJoin DEF RdsCharges

LEMMA ForcedTable ==
  ASSUME NEW r, NEW c, NEW x, Deploys(c, r)
  PROVE  Forced(TableCharges(r, x), TableCharges(c, x))
<1> DEFINE like(e, f) == e = f \/ (e.key = None /\ e.dimension = f.dimension)
           storage == <<TableStorage(r, x)>>
<1>1. /\ ~Open(r, "BillingMode") /\ ~Open(c, "BillingMode")
      /\ ValueOr(c, "BillingMode", "PROVISIONED") = ValueOr(r, "BillingMode", "PROVISIONED")
  BY UnguardedStays DEF Guarded
<1>2. /\ \A basis : RuntimeHours(c, x, basis) = RuntimeHours(r, x, basis)
      /\ \A name : Driver(c, x, name) = Driver(r, x, name)
  BY DeployedUse
<1>3. /\ TableStorage(c, x) = TableStorage(r, x)
      /\ \A driver, d : OnDemand(c, x, driver, d) = OnDemand(r, x, driver, d)
  BY <1>2 DEF TableStorage, OnDemand
<1>4. ASSUME NEW p, NEW d PROVE like(Provisioned(r, x, p, d), Provisioned(c, x, p, d))
  <2>1. CASE Open(r, p)
    BY <2>1, OpenIsNothing DEF Provisioned, Fixed, UnknownCharge, Charge
  <2>2. CASE ~Open(r, p)
    BY <1>2, <2>2, KnownStays DEF Provisioned, AsDecimal, ValueOr
  <2> QED  BY <2>1, <2>2
<1>5. IsSequence(storage)
  BY ShortSequences
<1>6. CASE ValueOr(r, "BillingMode", "PROVISIONED") = "PAY_PER_REQUEST"
  <2> DEFINE e == <<OnDemand(r, x, "dynamodb_read_requests_per_month", "ReadRequestUnits"),
                    OnDemand(r, x, "dynamodb_write_requests_per_month", "WriteRequestUnits")>>
  <2>1. TableCharges(r, x) = e \o storage /\ TableCharges(c, x) = e \o storage
    BY <1>1, <1>3, <1>6 DEF TableCharges
  <2>2. IsSequence(e) /\ Forced(e, e)
    BY ShortSequences DEF Forced
  <2> HIDE DEF e, storage
  <2> QED  BY <1>5, <2>1, <2>2, ForcedJoin
<1>7. CASE ValueOr(r, "BillingMode", "PROVISIONED") # "PAY_PER_REQUEST"
  <2> DEFINE of(s) == <<Provisioned(s, x, "ReadCapacityUnits", "ReadCapacityUnit-Hours"),
                        Provisioned(s, x, "WriteCapacityUnits", "WriteCapacityUnit-Hours")>>
  <2>1. TableCharges(r, x) = of(r) \o storage /\ TableCharges(c, x) = of(c) \o storage
    BY <1>1, <1>3, <1>7 DEF TableCharges
  <2>2. IsSequence(of(r)) /\ IsSequence(of(c))
    BY ShortSequences
  <2>3. Forced(of(r), of(c))
    BY <1>4 DEF Forced
  <2> HIDE DEF of, storage
  <2> QED  BY <1>5, <2>1, <2>2, <2>3, ForcedJoin
<1> QED  BY <1>6, <1>7

LEMMA ForcedApi ==
  ASSUME NEW r, NEW c, NEW x, Deploys(c, r)
  PROVE  Forced(ApiCharges(r, x), ApiCharges(c, x))
<1>1. \A name : Driver(c, x, name) = Driver(r, x, name)
  BY DeployedUse
<1>2. \A api : ApiRequests(c, x, api) = ApiRequests(r, x, api)
  BY <1>1 DEF ApiRequests
<1>3. CASE Open(r, "ProtocolType")
  <2>1. ~Open(c, "ProtocolType")
    BY <1>3 DEF Deploys, Open, Known, Set
  <2>2. ApiRequests(c, x, ValueOr(c, "ProtocolType", "HTTP")).dimension = "Requests"
    BY DEF ApiRequests, Volume, ByUsage, UnknownCharge, Charge
  <2> QED  BY <1>3, <2>1, <2>2 DEF ApiCharges, Forced, UnknownCharge, Charge
<1>4. CASE ~Open(r, "ProtocolType")
  BY <1>2, <1>4, KnownStays DEF ApiCharges, Forced
<1> QED  BY <1>3, <1>4

LEMMA ForcedLog ==
  ASSUME NEW r, NEW c, NEW x, Deploys(c, r)
  PROVE  Forced(LogCharges(r, x), LogCharges(c, x))
<1> DEFINE ingestion == Driver(r, x, "log_ingestion_gb")
           ingested(s) == Volume(ingestion, "Logs-Ingestion-GB",
                                 <<"AmazonCloudWatch", "Logs-Ingestion-GB",
                                   ValueOr(s, "LogGroupClass", "STANDARD")>>, "MEDIUM")
<1>1. Driver(c, x, "log_ingestion_gb") = ingestion
  BY DeployedUse
<1>2. ingested(c) = ingested(r)
  BY UnguardedStays DEF Guarded
<1>3. \/ LogRetained(r, ingestion) = LogRetained(c, ingestion)
      \/ /\ LogRetained(r, ingestion).key = None
         /\ LogRetained(r, ingestion).dimension = LogRetained(c, ingestion).dimension
  <2>1. CASE Open(r, "RetentionInDays")
    BY <2>1, OpenIsNothing DEF LogRetained, ByUsage, UnknownCharge, Charge
  <2>2. CASE ~Open(r, "RetentionInDays")
    BY <2>2, KnownStays DEF LogRetained, AsDecimal, ValueOr
  <2> QED  BY <2>1, <2>2
<1>4. /\ LogCharges(r, x) = <<ingested(r), LogRetained(r, ingestion)>>
      /\ LogCharges(c, x) = <<ingested(c), LogRetained(c, ingestion)>>
  BY <1>1 DEF LogCharges
<1> HIDE DEF ingestion, ingested
<1> QED  BY <1>2, <1>3, <1>4 DEF Forced

(* Every other estimator reads no property that may be left open here.     *)
LEMMA SameElsewhere ==
  ASSUME NEW r, NEW c, NEW x, Deploys(c, r)
  PROVE  /\ EksCharges(c, x) = EksCharges(r, x) /\ NatCharges(c, x) = NatCharges(r, x)
         /\ EipCharges(c, x) = EipCharges(r, x) /\ BalancerCharges(c, x) = BalancerCharges(r, x)
         /\ LambdaCharges(c, x) = LambdaCharges(r, x) /\ RestApiCharges(c, x) = RestApiCharges(r, x)
         /\ BucketCharges(c, x) = BucketCharges(r, x) /\ AlarmCharges(c) = AlarmCharges(r)
         /\ Unsupported(c) = Unsupported(r)
<1>1. /\ \A basis : RuntimeHours(c, x, basis) = RuntimeHours(r, x, basis)
      /\ \A path, name : DriverAt(c, path, x, name) = DriverAt(r, path, x, name)
      /\ \A name : Driver(c, x, name) = Driver(r, x, name)
  BY DeployedUse
<1>2. EksCharges(c, x) = EksCharges(r, x) /\ EipCharges(c, x) = EipCharges(r, x)
  BY <1>1 DEF EksCharges, EipCharges
<1>3. NatCharges(c, x) = NatCharges(r, x)
  BY <1>1 DEF NatCharges, NatBytes
<1>4. BalancerCharges(c, x) = BalancerCharges(r, x)
  <2>1. /\ ~Open(c, "Type") /\ ~Open(r, "Type")
        /\ ValueOr(c, "Type", "application") = ValueOr(r, "Type", "application")
    BY UnguardedStays DEF Guarded
  <2>2. BalancerEgress(c, x) = BalancerEgress(r, x)
    BY <1>1 DEF BalancerEgress, OwnDriver
  <2> QED  BY <1>1, <2>1, <2>2 DEF BalancerCharges
<1>5. LambdaCharges(c, x) = LambdaCharges(r, x)
  <2>1. /\ ~Open(c, "Architectures/0") /\ ~Open(r, "Architectures/0")
        /\ ValueOr(c, "Architectures/0", "x86_64") = ValueOr(r, "Architectures/0", "x86_64")
    BY UnguardedStays DEF Guarded
  <2>2. LambdaMemory(c, x) = LambdaMemory(r, x)
    BY <1>1, UnguardedStays DEF Guarded, LambdaMemory, AsDecimal, ValueOr
  <2> QED  BY <1>1, <2>1, <2>2 DEF LambdaCharges, LambdaDuration
<1>6. RestApiCharges(c, x) = RestApiCharges(r, x) /\ BucketCharges(c, x) = BucketCharges(r, x)
  BY <1>1 DEF RestApiCharges, ApiRequests, BucketCharges, BucketVolume
<1>7. AlarmCharges(c) = AlarmCharges(r)
  BY UnguardedStays DEF Guarded, AlarmCharges
<1>8. Unsupported(c) = Unsupported(r)
  BY DEF Unsupported, Deploys
<1> QED  BY <1>2, <1>3, <1>4, <1>5, <1>6, <1>7, <1>8

LEMMA ForcedEstimate ==
  ASSUME NEW r, NEW c, NEW x, Deploys(c, r)
  PROVE  Forced(Estimate(r, x), Estimate(c, x))
<1>1. c.type = r.type /\ \A e : Forced(e, e)
  BY DEF Deploys, Forced
<1>2. CASE r.type \in {"AWS::EC2::Instance", "AWS::EC2::Volume", "AWS::RDS::DBInstance",
                       "AWS::ApiGatewayV2::Api", "AWS::DynamoDB::Table", "AWS::Logs::LogGroup"}
  BY <1>1, <1>2, ForcedEc2, ForcedEbs, ForcedRds, ForcedApi, ForcedTable, ForcedLog DEF Estimate
<1>3. CASE r.type \notin {"AWS::EC2::Instance", "AWS::EC2::Volume", "AWS::RDS::DBInstance",
                          "AWS::ApiGatewayV2::Api", "AWS::DynamoDB::Table", "AWS::Logs::LogGroup"}
  BY <1>1, <1>3, SameElsewhere DEF Estimate
<1> QED  BY <1>2, <1>3

(* However a deployment settles what the template leaves open, it is       *)
(* charged in the same dimensions, and as was stated (database.py:74).     *)
THEOREM StatedChargesAreForced == Spec => []EstimateIsForced
<1>1. EstimateIsForced
  <2> DEFINE r == question.resource
             x == question.context
  <2> SUFFICES ASSUME OpenProps(r) \subseteq Guarded, NEW c \in Completions(r, PropertyValues)
               PROVE  /\ Agrees(r, c, x)
                      /\ \A mine \in ChargesOf(r, x) : mine.key # None => mine \in ChargesOf(c, x)
    BY DEF EstimateIsForced
  <2>1. Forced(Estimate(r, x), Estimate(c, x))
    BY CompletionDeploys, ForcedEstimate
  <2> HIDE DEF r, x
  <2> QED  BY <2>1 DEF Forced, Agrees, ChargesOf, ToSet
<1> QED  BY <1>1, PTL

-----------------------------------------------------------------------------
(* No dimension is charged twice on one side of a resource.                *)

(* e charges each of the dimensions D at most once, and no others.         *)
Within(e, D) ==
  /\ IsSequence(e)
  /\ \A i \in DOMAIN e : e[i].dimension \in D
  /\ \A i, j \in DOMAIN e : e[i].dimension = e[j].dimension => i = j

LEMMA WithinJoin ==
  ASSUME NEW e, NEW s, NEW D, NEW E, Within(e, D), Within(s, E), D \cap E = {}
  PROVE  Within(e \o s, D \cup E)
<1> DEFINE j == e \o s
<1>1. /\ IsSequence(j)
      /\ Len(e) \in Nat /\ Len(s) \in Nat /\ DOMAIN e = 1 .. Len(e) /\ DOMAIN s = 1 .. Len(s)
      /\ DOMAIN j = 1 .. Len(e) + Len(s)
      /\ \A i \in DOMAIN e : j[i] = e[i]
      /\ \A i \in DOMAIN s : j[Len(e) + i] = s[i]
  BY JoinedSequences DEF Within
<1> HIDE DEF j
<1>2. ASSUME NEW i \in DOMAIN j, i \notin DOMAIN e
      PROVE  \E n \in DOMAIN s : i = Len(e) + n /\ j[i] = s[n] /\ j[i].dimension \in E
  <2>1. i - Len(e) \in DOMAIN s /\ i = Len(e) + (i - Len(e))
    BY <1>1, <1>2
  <2> QED  BY <1>1, <2>1 DEF Within
<1>3. \A i \in DOMAIN e : j[i] = e[i] /\ j[i].dimension \in D
  BY <1>1 DEF Within
<1>4. ASSUME NEW i \in DOMAIN j, NEW n \in DOMAIN j, j[i].dimension = j[n].dimension
      PROVE  i = n
  <2>1. CASE i \in DOMAIN e /\ n \in DOMAIN e
    BY <1>3, <1>4, <2>1 DEF Within
  <2>2. CASE i \notin DOMAIN e /\ n \notin DOMAIN e
    <3>1. PICK a \in DOMAIN s : i = Len(e) + a /\ j[i] = s[a]
      BY <1>2, <2>2
    <3>2. PICK b \in DOMAIN s : n = Len(e) + b /\ j[n] = s[b]
      BY <1>2, <2>2
    <3>3. a = b
      BY <1>4, <3>1, <3>2 DEF Within
    <3> QED  BY <3>1, <3>2, <3>3
  <2> QED  BY <1>2, <1>3, <1>4, <2>1, <2>2
<1>5. \A i \in DOMAIN j : j[i].dimension \in D \cup E
  BY <1>2, <1>3
<1> QED  BY <1>1, <1>4, <1>5 DEF Within, j

LEMMA WithinShort ==
  /\ \A D : Within(<<>>, D)
  /\ \A a : Within(<<a>>, {a.dimension})
  /\ \A a, b : a.dimension # b.dimension => Within(<<a, b>>, {a.dimension, b.dimension})
  /\ \A a, b, c : a.dimension # b.dimension /\ a.dimension # c.dimension /\ b.dimension # c.dimension
                  => Within(<<a, b, c>>, {a.dimension, b.dimension, c.dimension})
BY ShortSequences DEF Within

LEMMA DimensionOfCharge ==
  /\ \A d : UnknownCharge(d).dimension = d /\ UnknownCharge(d).key = None
  /\ \A d, key, quantity, confidence :
       /\ Fixed(d, key, quantity, confidence).dimension = d
       /\ ByUsage(d, key, quantity, confidence).dimension = d
       /\ Fixed(d, key, quantity, confidence).quantity = quantity
       /\ ByUsage(d, key, quantity, confidence).quantity = quantity
  /\ \A driver, d, key, confidence : Volume(driver, d, key, confidence).dimension = d
BY DEF UnknownCharge, Fixed, ByUsage, Charge, Volume

LEMMA ChargesDistinct ==
  ASSUME NEW r, NEW x
  PROVE  \E D : Within(Estimate(r, x), D)
<1> USE WithinShort, DimensionOfCharge
<1>1. \E D : Within(Ec2Charges(r, x), D)
  BY DEF Ec2Charges
<1>2. \E D : Within(EbsCharges(r), D)
  <2> DEFINE type == ValueOr(r, "VolumeType", "gp2")
             capacity == <<EbsCapacity(r, type)>>
             iops == EbsExtra(r, type, "Iops", "EBS-IOPS-Month")
             throughput == EbsExtra(r, type, "Throughput", "EBS-Throughput-Month")
  <2>1. CASE Open(r, "VolumeType")
    BY <2>1 DEF EbsCharges
  <2>2. CASE ~Open(r, "VolumeType")
    <3>1. Within(capacity, {"EBS-Storage-GB-Month"})
      <4>1. EbsCapacity(r, type).dimension = "EBS-Storage-GB-Month"
        BY DEF EbsCapacity
      <4> QED  BY <4>1
    <3>2. Within(iops, {"EBS-IOPS-Month"}) /\ Within(throughput, {"EBS-Throughput-Month"})
      BY DEF EbsExtra
    <3>3. EbsCharges(r) = capacity \o iops \o throughput
      BY <2>2 DEF EbsCharges
    <3> HIDE DEF capacity, iops, throughput
    <3>4. Within(capacity \o iops, {"EBS-Storage-GB-Month"} \cup {"EBS-IOPS-Month"})
      BY <3>1, <3>2, WithinJoin
    <3>5. Within(capacity \o iops \o throughput,
                 {"EBS-Storage-GB-Month"} \cup {"EBS-IOPS-Month"} \cup {"EBS-Throughput-Month"})
      BY <3>2, <3>4, WithinJoin
    <3> QED  BY <3>3, <3>5
  <2> QED  BY <2>1, <2>2
<1>3. \E D : Within(RdsCharges(r, x), D)
  <2> DEFINE e == <<RdsInstance(r, x), RdsStorage(r)>>
             s == RdsBackup(r)
  <2>1. RdsInstance(r, x).dimension = "InstanceHours"
    BY DEF RdsInstance
  <2>2. RdsStorage(r).dimension = "Storage-GB-Month"
    BY DEF RdsStorage
  <2>3. Within(e, {"InstanceHours", "Storage-GB-Month"})
    BY <2>1, <2>2
  <2>4. Within(s, {"BackupStorage-GB-Month"})
    BY DEF RdsBackup
  <2>5. RdsCharges(r, x) = e \o s
    BY DEF RdsCharges
  <2> HIDE DEF e, s
  <2>6. Within(e \o s, {"InstanceHours", "Storage-GB-Month"} \cup {"BackupStorage-GB-Month"})
    BY <2>3, <2>4, WithinJoin
  <2> QED  BY <2>5, <2>6
<1>4. \E D : Within(TableCharges(r, x), D)
  <2> DEFINE s == <<TableStorage(r, x)>>
  <2>1. Within(s, {"Storage-GB-Month"})
    <3>1. TableStorage(r, x).dimension = "Storage-GB-Month"
      BY DEF TableStorage
    <3> QED  BY <3>1
  <2>2. \A p, d : Provisioned(r, x, p, d).dimension = d /\ OnDemand(r, x, p, d).dimension = d
    BY DEF Provisioned, OnDemand
  <2>3. PICK e, D : TableCharges(r, x) = e \o s /\ Within(e, D) /\ "Storage-GB-Month" \notin D
    <3>1. CASE Open(r, "BillingMode")
      <4> WITNESS <<UnknownCharge("BillingMode")>>, {"BillingMode"}
      <4> QED  BY <3>1 DEF TableCharges
    <3>2. CASE ~Open(r, "BillingMode") /\ ValueOr(r, "BillingMode", "PROVISIONED") = "PAY_PER_REQUEST"
      <4> DEFINE e == <<OnDemand(r, x, "dynamodb_read_requests_per_month", "ReadRequestUnits"),
                        OnDemand(r, x, "dynamodb_write_requests_per_month", "WriteRequestUnits")>>
      <4>1. TableCharges(r, x) = e \o s
        BY <3>2 DEF TableCharges
      <4>2. Within(e, {"ReadRequestUnits", "WriteRequestUnits"})
        BY <2>2
      <4> HIDE DEF e, s
      <4> QED  BY <4>1, <4>2
    <3>3. CASE ~Open(r, "BillingMode") /\ ValueOr(r, "BillingMode", "PROVISIONED") # "PAY_PER_REQUEST"
      <4> DEFINE e == <<Provisioned(r, x, "ReadCapacityUnits", "ReadCapacityUnit-Hours"),
                        Provisioned(r, x, "WriteCapacityUnits", "WriteCapacityUnit-Hours")>>
      <4>1. TableCharges(r, x) = e \o s
        BY <3>3 DEF TableCharges
      <4>2. Within(e, {"ReadCapacityUnit-Hours", "WriteCapacityUnit-Hours"})
        BY <2>2
      <4> HIDE DEF e, s
      <4> QED  BY <4>1, <4>2
    <3> QED  BY <3>1, <3>2, <3>3
  <2> HIDE DEF s
  <2>4. Within(e \o s, D \cup {"Storage-GB-Month"})
    BY <2>1, <2>3, WithinJoin
  <2> QED  BY <2>3, <2>4
<1>5. \E D : Within(NatCharges(r, x), D)
  <2>1. PICK a : a = Fixed("NatGateway-Hours", <<"AmazonVPC", "NatGateway-Hours">>,
                           RuntimeHours(r, x, "ALWAYS_ON"), "MEDIUM")
    OBVIOUS
  <2>2. NatBytes(r, x).dimension = "NatGateway-Bytes"
    BY DEF NatBytes
  <2>3. NatCharges(r, x) = <<a, NatBytes(r, x)>>
    BY <2>1 DEF NatCharges
  <2>4. a.dimension = "NatGateway-Hours"
    BY <2>1
  <2>5. Within(<<a, NatBytes(r, x)>>, {a.dimension, NatBytes(r, x).dimension})
    BY <2>2, <2>4
  <2> QED  BY <2>3, <2>5
<1>6. \E D : Within(BalancerCharges(r, x), D)
  <2>1. CASE Open(r, "Type")
    BY <2>1 DEF BalancerCharges
  <2>2. CASE ~Open(r, "Type")
    <3>1. PICK a, b : /\ BalancerCharges(r, x) = <<a, b, BalancerEgress(r, x)>>
                      /\ a.dimension = "LoadBalancer-Hours" /\ b.dimension = "LCU-Hours"
      BY <2>2 DEF BalancerCharges
    <3>2. BalancerEgress(r, x).dimension = "DataTransfer-Out-GB"
      BY DEF BalancerEgress
    <3>3. Within(<<a, b, BalancerEgress(r, x)>>,
                 {a.dimension, b.dimension, BalancerEgress(r, x).dimension})
      BY <3>1, <3>2
    <3> QED  BY <3>1, <3>3
  <2> QED  BY <2>1, <2>2
<1>7. \E D : Within(LambdaCharges(r, x), D)
  <2>1. \A arch, n : LambdaDuration(r, x, arch, n).dimension = "GB-Seconds"
    BY DEF LambdaDuration
  <2>2. CASE Open(r, "Architectures/0")
    BY <2>2 DEF LambdaCharges
  <2>3. CASE ~Open(r, "Architectures/0")
    <3>1. PICK a, b : LambdaCharges(r, x) = <<a, b>> /\ a.dimension = "Requests" /\ b.dimension = "GB-Seconds"
      BY <2>1, <2>3 DEF LambdaCharges
    <3>2. Within(<<a, b>>, {a.dimension, b.dimension})
      BY <3>1
    <3> QED  BY <3>1, <3>2
  <2> QED  BY <2>2, <2>3
<1>8. \E D : Within(BucketCharges(r, x), D)
  <2>1. \A driver, d, confidence : BucketVolume(r, x, driver, d, confidence).dimension = d
    BY DEF BucketVolume
  <2>2. PICK a, b, c : /\ BucketCharges(r, x) = <<a, b, c>> /\ a.dimension = "Storage-GB-Month"
                       /\ b.dimension = "PutRequests" /\ c.dimension = "GetRequests"
    BY <2>1 DEF BucketCharges
  <2>3. Within(<<a, b, c>>, {a.dimension, b.dimension, c.dimension})
    BY <2>2
  <2> QED  BY <2>2, <2>3
<1>9. \E D : Within(LogCharges(r, x), D)
  <2>1. \A n : LogRetained(r, n).dimension = "Logs-Storage-GB-Month"
    BY DEF LogRetained
  <2>2. PICK a, b : /\ LogCharges(r, x) = <<a, b>>
                    /\ a.dimension = "Logs-Ingestion-GB" /\ b.dimension = "Logs-Storage-GB-Month"
    BY <2>1 DEF LogCharges
  <2>3. Within(<<a, b>>, {a.dimension, b.dimension})
    BY <2>2
  <2> QED  BY <2>2, <2>3
<1>10. \E D : Within(EksCharges(r, x), D)
  BY DEF EksCharges
<1>11. \E D : Within(EipCharges(r, x), D)
  BY DEF EipCharges
<1>12. \E D : Within(ApiCharges(r, x), D)
  BY DEF ApiCharges
<1>13. \E D : Within(RestApiCharges(r, x), D)
  BY DEF RestApiCharges
<1>14. \E D : Within(AlarmCharges(r), D)
  BY DEF AlarmCharges
<1>15. \E D : Within(Unsupported(r), D)
  BY DEF Unsupported
<1> QED  BY <1>1, <1>2, <1>3, <1>4, <1>5, <1>6, <1>7, <1>8, <1>9, <1>10, <1>11, <1>12, <1>13,
            <1>14, <1>15 DEF Estimate

-----------------------------------------------------------------------------
(* What is charged is a whole number of units.                             *)

LEMMA SourcesAreEntries ==
  ASSUME NEW profile, NEW id, NEW path, NEW env, path # None => path.segments \in Seq(STRING)
  PROVE  LET src == Sources(profile, id, path, env)
         IN  DOMAIN src \subseteq 1 .. 3 /\ \A i \in DOMAIN src : src[i] \in EntriesOf(profile)
<1> DEFINE names == NamesOf(id, path)
           found == Overriding(profile, names)
           src == Sources(profile, id, path, env)
           said == {j \in 1 .. 3 : (j = 1 => found # {}) /\ (j = 2 => env \in DOMAIN profile.environments)}
<1>1. src = [i \in said |-> CASE i = 1 -> profile.overrides[names[Min(found)]]
                              [] i = 2 -> profile.environments[env]
                              [] i = 3 -> profile.defaults]
  BY DEF Sources
<1>2. found # {} => names[Min(found)] \in DOMAIN profile.overrides
  <2>1. found \in SUBSET Nat
    BY DistancesAreNumbers DEF Overriding
  <2> QED  BY <2>1, MinIsLeast DEF Overriding
<1> HIDE DEF names, found, src
<1>3. ASSUME NEW i \in said PROVE src[i] \in EntriesOf(profile)
  <2>1. CASE i = 1
    BY <1>1, <1>2, <2>1 DEF EntriesOf
  <2>2. CASE i = 2
    BY <1>1, <2>2 DEF EntriesOf
  <2>3. CASE i = 3
    BY <1>1, <2>3 DEF EntriesOf
  <2> QED  BY <2>1, <2>2, <2>3
<1>4. DOMAIN src = said
  BY <1>1
<1> QED  BY <1>3, <1>4 DEF src

(* A profile as it is read and loaded.                                     *)
IsProfile(profile) == \A e \in EntriesOf(profile) : IsEntry(e) /\ EntryLoads(e)

LEMMA DriversAreNumbers ==
  ASSUME NEW profile, IsProfile(profile), NEW driver, NEW id, NEW path, NEW env,
         path # None => path.segments \in Seq(STRING)
  PROVE  LET found == ResolveDriver(profile, driver, id, path, env)
         IN  found # None => found.quantity \in Nat
<1> DEFINE src == Sources(profile, id, path, env)
           set == {i \in DOMAIN src : driver \in DOMAIN src[i].drivers}
<1>1. set # {} => Min(set) \in set
  <2>1. set \in SUBSET Nat
    BY SourcesAreEntries
  <2> HIDE DEF set
  <2> QED  BY <2>1, MinIsLeast
<1>2. ASSUME set # {} PROVE src[Min(set)].drivers[driver] \in Nat
  <2>1. Min(set) \in DOMAIN src /\ driver \in DOMAIN src[Min(set)].drivers
    BY <1>1, <1>2
  <2>2. src[Min(set)] \in EntriesOf(profile)
    BY <2>1, SourcesAreEntries
  <2>3. IsEntry(src[Min(set)])
    BY <2>2 DEF IsProfile
  <2> HIDE DEF src, set
  <2> QED  BY <2>1, <2>3 DEF IsEntry
<1>3. ResolveDriver(profile, driver, id, path, env) =
        IF set = {} THEN None ELSE [quantity |-> src[Min(set)].drivers[driver], own |-> Min(set) = 1]
  BY DEF ResolveDriver, DriverIn
<1> HIDE DEF src, set
<1> QED  BY <1>2, <1>3

LEMMA ScheduledHoursAreWhole ==
  ASSUME NEW e, IsEntry(e), EntryLoads(e), e.schedule # None, NEW convention \in Nat
  PROVE  ScheduledHours(e.schedule, convention) \in Nat
<1>1. PICK segments : segments = e.schedule
  OBVIOUS
<1>2. /\ segments \in Seq({segments[i] : i \in DOMAIN segments}) /\ Parses(segments)
      /\ \A i \in DOMAIN segments : Days(segments[i].days) \subseteq 0 .. 6
  BY <1>1 DEF IsEntry, IsSchedule, EntryLoads
<1> DEFINE f == [i \in DOMAIN segments |->
                  Cardinality(Days(segments[i].days)) * (segments[i].end - segments[i].start)]
<1>3. ASSUME NEW i \in DOMAIN segments PROVE f[i] \in Nat
  <2>1. PICK start \in Int, end \in Int :
          start = segments[i].start /\ end = segments[i].end /\ start < end
    <3>1. /\ segments[i].start \in 0 .. 24 /\ segments[i].end \in 0 .. 24
          /\ segments[i].start < segments[i].end
      BY <1>2 DEF Parses
    <3> QED  BY <3>1
  <2>2. Cardinality(Days(segments[i].days)) \in Nat
    <3>1. IsFiniteSet(0 .. 6)
      <4>1. PICK six \in Int : six = 6
        OBVIOUS
      <4>2. IsFiniteSet(0 .. six)
        BY FS_Interval
      <4> QED  BY <4>1, <4>2
    <3>2. IsFiniteSet(Days(segments[i].days))
      BY <1>2, <3>1, FS_Subset
    <3> QED  BY <3>2, FS_CardinalityType
  <2>3. PICK days \in Nat : days = Cardinality(Days(segments[i].days))
    BY <2>2
  <2>4. PICK length \in Nat : length = end - start
    BY <2>1
  <2>5. f[i] = days * length
    BY <2>1, <2>3, <2>4
  <2>6. days * length \in Nat
    OBVIOUS
  <2> QED  BY <2>5, <2>6
<1>4. IsFiniteSet(DOMAIN f)
  <2>1. PICK len \in Nat : DOMAIN segments = 1 .. len
    BY <1>2
  <2>2. IsFiniteSet(1 .. len)
    BY FS_Interval
  <2> QED  BY <2>1, <2>2
<1>5. \A i \in DOMAIN f : f[i] \in Nat
  BY <1>3
<1>6. HoursPerWeek(segments) = SumFunctionOnSet(f, DOMAIN f)
  BY DEF HoursPerWeek, SumFunction
<1> HIDE DEF f
<1>7. PICK hours \in Nat : hours = HoursPerWeek(segments)
  BY <1>4, <1>5, <1>6, SumOfNaturals
<1>8. PICK n \in Nat : n = hours * convention
  <2>1. hours * convention \in Nat
    OBVIOUS
  <2> QED  BY <2>1
<1>9. ScheduledHours(segments, convention) = (2 * n + 168) \div 336
  BY <1>7, <1>8 DEF ScheduledHours, WeekHours
<1> QED  BY <1>1, <1>8, <1>9

LEMMA MonthlyHoursAreWhole ==
  ASSUME NEW profile, IsProfile(profile), NEW id, NEW path, NEW env, NEW convention \in Nat,
         path # None => path.segments \in Seq(STRING)
  PROVE  MonthlyHours(profile, id, path, env, convention) \in Nat
<1> DEFINE src == Sources(profile, id, path, env)
           set == {i \in DOMAIN src : HasHours(src[i])}
<1>1. set # {} => Min(set) \in set
  <2>1. set \in SUBSET Nat
    BY SourcesAreEntries
  <2> HIDE DEF set
  <2> QED  BY <2>1, MinIsLeast
<1>2. ASSUME NEW e \in EntriesOf(profile) PROVE ResolvedHours(e, convention) \in Nat
  <2>1. IsEntry(e) /\ EntryLoads(e)
    BY DEF IsProfile
  <2>2. e.hours # None => e.hours \in Nat
    BY <2>1 DEF EntryLoads
  <2> QED  BY <2>1, <2>2, ScheduledHoursAreWhole DEF ResolvedHours
<1>3. set # {} => src[Min(set)] \in EntriesOf(profile)
  BY <1>1, SourcesAreEntries
<1>4. MonthlyHours(profile, id, path, env, convention) =
        IF set = {} THEN convention ELSE ResolvedHours(src[Min(set)], convention)
  BY DEF MonthlyHours, HoursIn
<1> HIDE DEF src, set
<1> QED  BY <1>2, <1>3, <1>4

(* A context as a run makes it.                                            *)
IsContext(x) == x.hours \in Nat /\ IsProfile(x.profile)

(* What follows is about all whole numbers and about those that are not     *)
(* negative: the code checks the sign of the usage of a profile, but not of *)
(* a lifetime or of a figure in a template.                                *)
LEMMA Closed ==
  ASSUME NEW W \in {Int, Nat}
  PROVE  /\ Nat \subseteq W /\ W \subseteq Int
         /\ \A a, b \in W : a * b \in W
<1>1. CASE W = Int
  BY <1>1
<1>2. CASE W = Nat
  BY <1>2
<1> QED  BY <1>1, <1>2

LifetimesIn(profile, W) == \A e \in EntriesOf(profile) : e.lifetime # None => e.lifetime \in W

FiguresIn(r, W) ==
  \A p \in Figures \cap DOMAIN r.props : r.props[p] \in {Unresolved, None} \cup W

LEMMA UseIsWhole ==
  ASSUME NEW W \in {Int, Nat}, NEW r, WellNamed(r),
         NEW x, IsContext(x), LifetimesIn(x.profile, W)
  PROVE  /\ \A basis : RuntimeHours(r, x, basis) \in W
         /\ \A path \in {None, r.path} : \A name :
              DriverAt(r, path, x, name) # None => DriverAt(r, path, x, name).quantity \in W
<1> USE Closed
<1>1. ASSUME NEW path \in {None, r.path} PROVE path # None => path.segments \in Seq(STRING)
  BY DEF WellNamed
<1>2. ASSUME NEW basis PROVE RuntimeHours(r, x, basis) \in W
  <2>1. ASSUME NEW env \in DOMAIN x.profile.environments, x.profile.environments[env].lifetime # None
        PROVE  x.profile.environments[env].lifetime \in W
    <3>1. x.profile.environments[env] \in EntriesOf(x.profile)
      BY DEF EntriesOf
    <3> QED  BY <2>1, <3>1 DEF LifetimesIn
  <2>2. \A env : MonthlyHours(x.profile, r.id, r.path, env, x.hours) \in Nat
    BY <1>1, MonthlyHoursAreWhole DEF IsContext
  <2>3. x.hours \in Nat
    BY DEF IsContext
  <2> QED  BY <2>1, <2>2, <2>3 DEF RuntimeHours
<1>3. ASSUME NEW path \in {None, r.path}, NEW name, DriverAt(r, path, x, name) # None
      PROVE  DriverAt(r, path, x, name).quantity \in W
  <2>1. DriverAt(r, path, x, name).quantity \in Nat
    BY <1>1, <1>3, DriversAreNumbers DEF DriverAt, IsContext
  <2> QED  BY <2>1
<1> QED  BY <1>2, <1>3

(* A charge is whole if it is of a level of confidence and, if it is to be  *)
(* priced, of a whole quantity.                                            *)
Levels == {"UNKNOWN", "LOW", "MEDIUM", "HIGH"}

IsWhole(W, charge) ==
  charge.confidence \in Levels /\ (charge.key # None => charge.quantity \in W)

AllWhole(W, e) == IsSequence(e) /\ \A i \in DOMAIN e : IsWhole(W, e[i])

LEMMA WholeCharges ==
  ASSUME NEW W
  PROVE  /\ \A d : IsWhole(W, UnknownCharge(d))
         /\ \A d, key : \A confidence \in Levels, quantity \in W :
              IsWhole(W, Fixed(d, key, quantity, confidence)) /\ IsWhole(W, ByUsage(d, key, quantity, confidence))
         /\ \A driver, d, key : \A confidence \in Levels :
              (driver # None => driver.quantity \in W) => IsWhole(W, Volume(driver, d, key, confidence))
BY DEF IsWhole, Levels, UnknownCharge, Fixed, ByUsage, Charge, Volume

LEMMA WholeShort ==
  ASSUME NEW W
  PROVE  /\ AllWhole(W, <<>>)
         /\ \A a : IsWhole(W, a) => AllWhole(W, <<a>>)
         /\ \A a, b : IsWhole(W, a) /\ IsWhole(W, b) => AllWhole(W, <<a, b>>)
         /\ \A a, b, c : IsWhole(W, a) /\ IsWhole(W, b) /\ IsWhole(W, c) => AllWhole(W, <<a, b, c>>)
BY ShortSequences DEF AllWhole

LEMMA WholeJoin ==
  ASSUME NEW W, NEW e, NEW s, AllWhole(W, e), AllWhole(W, s)
  PROVE  AllWhole(W, e \o s)
<1> DEFINE j == e \o s
<1>1. /\ IsSequence(j)
      /\ Len(e) \in Nat /\ Len(s) \in Nat /\ DOMAIN e = 1 .. Len(e) /\ DOMAIN s = 1 .. Len(s)
      /\ DOMAIN j = 1 .. Len(e) + Len(s)
      /\ \A i \in DOMAIN e : j[i] = e[i]
      /\ \A i \in DOMAIN s : j[Len(e) + i] = s[i]
  BY JoinedSequences DEF AllWhole
<1> HIDE DEF j
<1>2. ASSUME NEW i \in DOMAIN j, i \notin DOMAIN e PROVE IsWhole(W, j[i])
  <2>1. i - Len(e) \in DOMAIN s /\ i = Len(e) + (i - Len(e))
    BY <1>1, <1>2
  <2>2. j[i] = s[i - Len(e)]
    BY <1>1, <2>1
  <2> QED  BY <2>1, <2>2 DEF AllWhole
<1>3. \A i \in DOMAIN e : IsWhole(W, j[i])
  BY <1>1 DEF AllWhole
<1> QED  BY <1>1, <1>2, <1>3 DEF AllWhole, j

(* A figure that is known is a number.                                     *)
LEMMA FiguresAreNumbers ==
  ASSUME NEW W, NEW r, FiguresIn(r, W), NEW p \in Figures, AsDecimal(r, p) # None
  PROVE  r.props[p] \in W
BY DEF FiguresIn, AsDecimal, ValueOr, Known, Set

LEMMA EstimateIsWhole ==
  ASSUME NEW W \in {Int, Nat}, NEW r, WellNamed(r), FiguresIn(r, W),
         NEW x, IsContext(x), LifetimesIn(x.profile, W)
  PROVE  AllWhole(W, Estimate(r, x))
<1> USE WholeShort, WholeCharges, Closed DEF Levels
<1>1. \A basis : RuntimeHours(r, x, basis) \in W
  BY UseIsWhole
<1>2. \A name : Driver(r, x, name) # None => Driver(r, x, name).quantity \in W
  BY UseIsWhole DEF Driver
<1>3. \A name : DriverAt(r, None, x, name) # None => DriverAt(r, None, x, name).quantity \in W
  BY UseIsWhole
<1>4. \A p \in Figures : AsDecimal(r, p) # None => r.props[p] \in W
  BY FiguresAreNumbers
<1>5. AllWhole(W, Ec2Charges(r, x))
  BY <1>1 DEF Ec2Charges
<1>6. AllWhole(W, EbsCharges(r))
  <2> DEFINE type == ValueOr(r, "VolumeType", "gp2")
             capacity == <<EbsCapacity(r, type)>>
             iops == EbsExtra(r, type, "Iops", "EBS-IOPS-Month")
             throughput == EbsExtra(r, type, "Throughput", "EBS-Throughput-Month")
  <2>1. CASE Open(r, "VolumeType")
    BY <2>1 DEF EbsCharges
  <2>2. CASE ~Open(r, "VolumeType")
    <3>1. AllWhole(W, capacity)
      <4>1. IsWhole(W, EbsCapacity(r, type))
        BY <1>4 DEF EbsCapacity, Figures
      <4> QED  BY <4>1
    <3>2. ASSUME NEW p \in {"Iops", "Throughput"}, NEW d PROVE AllWhole(W, EbsExtra(r, type, p, d))
      <4>1. CASE EbsExtra(r, type, p, d) = <<>>
        BY <4>1
      <4>2. CASE AsDecimal(r, p) # None /\ ~(r.props[p] <= Included(type, p))
        <5>1. r.props[p] \in Int /\ Included(type, p) \in Int
          BY <1>4, <4>2 DEF Figures, Included
        <5>2. r.props[p] - Included(type, p) \in Nat
          BY <4>2, <5>1
        <5>3. EbsExtra(r, type, p, d)
              = <<Fixed(d, <<"AmazonEC2", d, type>>, r.props[p] - Included(type, p), "HIGH")>>
          BY <4>2 DEF EbsExtra
        <5> QED  BY <5>2, <5>3
      <4> QED  BY <4>1, <4>2 DEF EbsExtra
    <3>3. AllWhole(W, iops) /\ AllWhole(W, throughput)
      BY <3>2
    <3>4. EbsCharges(r) = capacity \o iops \o throughput
      BY <2>2 DEF EbsCharges
    <3> HIDE DEF capacity, iops, throughput
    <3>5. AllWhole(W, capacity \o iops)
      BY <3>1, <3>3, WholeJoin
    <3> QED  BY <3>3, <3>4, <3>5, WholeJoin
  <2> QED  BY <2>1, <2>2
<1>7. AllWhole(W, RdsCharges(r, x))
  <2> DEFINE e == <<RdsInstance(r, x), RdsStorage(r)>>
             s == RdsBackup(r)
  <2>1. IsWhole(W, RdsInstance(r, x))
    BY <1>1 DEF RdsInstance
  <2>2. IsWhole(W, RdsStorage(r))
    BY <1>4 DEF RdsStorage, Figures
  <2>3. AllWhole(W, e)
    BY <2>1, <2>2
  <2>4. AllWhole(W, s)
    BY DEF RdsBackup
  <2>5. RdsCharges(r, x) = e \o s
    BY DEF RdsCharges
  <2> HIDE DEF e, s
  <2> QED  BY <2>3, <2>4, <2>5, WholeJoin
<1>8. AllWhole(W, TableCharges(r, x))
  <2> DEFINE s == <<TableStorage(r, x)>>
  <2>1. AllWhole(W, s)
    <3>1. IsWhole(W, TableStorage(r, x))
      BY <1>2 DEF TableStorage
    <3> QED  BY <3>1
  <2>2. \A d : IsWhole(W, Provisioned(r, x, "ReadCapacityUnits", d)) /\ IsWhole(W, Provisioned(r, x, "WriteCapacityUnits", d))
    <3>1. ASSUME NEW p \in {"ReadCapacityUnits", "WriteCapacityUnits"}, NEW d
          PROVE  IsWhole(W, Provisioned(r, x, p, d))
      <4>1. CASE AsDecimal(r, p) = None
        BY <4>1 DEF Provisioned
      <4>2. CASE AsDecimal(r, p) # None
        <5>1. PICK n \in W, hours \in W : n = r.props[p] /\ hours = RuntimeHours(r, x, "ALWAYS_ON")
          BY <1>1, <1>4, <4>2 DEF Figures
        <5>2. PICK m \in W : m = n * hours
          OBVIOUS
        <5>3. Provisioned(r, x, p, d) = Fixed(d, <<"AmazonDynamoDB", d, "PROVISIONED">>, m, "MEDIUM")
          BY <4>2, <5>1, <5>2 DEF Provisioned
        <5> QED  BY <5>2, <5>3 DEF IsWhole, Fixed, Charge
      <4> QED  BY <4>1, <4>2
    <3> QED  BY <3>1
  <2>3. \A driver, d : IsWhole(W, OnDemand(r, x, driver, d))
    BY <1>2 DEF OnDemand
  <2>4. PICK e : TableCharges(r, x) = e \o s /\ AllWhole(W, e)
    BY <2>2, <2>3 DEF TableCharges
  <2> HIDE DEF s
  <2> QED  BY <2>1, <2>4, WholeJoin
<1>9. AllWhole(W, NatCharges(r, x))
  <2>1. IsWhole(W, NatBytes(r, x))
    BY <1>3 DEF NatBytes
  <2> QED  BY <1>1, <2>1 DEF NatCharges
<1>10. AllWhole(W, BalancerCharges(r, x))
  <2>1. IsWhole(W, BalancerEgress(r, x))
    BY <1>2 DEF BalancerEgress, OwnDriver
  <2> QED  BY <1>1, <2>1 DEF BalancerCharges
<1>11. AllWhole(W, LambdaCharges(r, x))
  <2>1. LambdaMemory(r, x) \in W
    BY <1>2, <1>4 DEF LambdaMemory, Figures
  <2>2. ASSUME NEW arch, NEW invocations, invocations # None => invocations.quantity \in W
        PROVE  IsWhole(W, LambdaDuration(r, x, arch, invocations))
    <3> DEFINE duration == Driver(r, x, "average_duration_ms")
    <3>1. CASE invocations = None \/ duration = None
      BY <3>1 DEF LambdaDuration
    <3>2. CASE invocations # None /\ duration # None
      <4>1. PICK a \in W, b \in W, c \in W :
              a = invocations.quantity /\ b = duration.quantity /\ c = LambdaMemory(r, x)
        BY <1>2, <2>1, <2>2, <3>2
      <4>2. PICK n \in W : n = a * b * c
        <5>1. a * b \in W
          OBVIOUS
        <5>2. (a * b) * c \in W
          BY <5>1
        <5> QED  BY <5>2
      <4>3. LambdaDuration(r, x, arch, invocations)
            = ByUsage("GB-Seconds", <<"AWSLambda", "GB-Seconds", arch>>, n, "LOW")
        BY <3>2, <4>1, <4>2 DEF LambdaDuration
      <4> QED  BY <4>2, <4>3 DEF IsWhole, ByUsage, Charge
    <3> QED  BY <3>1, <3>2
  <2> QED  BY <1>2, <2>2 DEF LambdaCharges
<1>12. AllWhole(W, ApiCharges(r, x)) /\ AllWhole(W, RestApiCharges(r, x))
  <2>1. \A api : IsWhole(W, ApiRequests(r, x, api))
    BY <1>2 DEF ApiRequests
  <2> QED  BY <2>1 DEF ApiCharges, RestApiCharges
<1>13. AllWhole(W, BucketCharges(r, x))
  <2>1. \A driver, d : \A confidence \in Levels : IsWhole(W, BucketVolume(r, x, driver, d, confidence))
    BY <1>2 DEF BucketVolume
  <2> QED  BY <2>1 DEF BucketCharges
<1>14. AllWhole(W, LogCharges(r, x))
  <2>1. ASSUME NEW ingestion, ingestion # None => ingestion.quantity \in W
        PROVE  IsWhole(W, LogRetained(r, ingestion))
    <3>1. CASE AsDecimal(r, "RetentionInDays") = None \/ ingestion = None
      BY <3>1 DEF LogRetained
    <3>2. CASE AsDecimal(r, "RetentionInDays") # None /\ ingestion # None
      <4>1. PICK a \in W, b \in W : a = ingestion.quantity /\ b = r.props["RetentionInDays"]
        BY <1>4, <2>1, <3>2 DEF Figures
      <4>2. PICK n \in W : n = a * b
        OBVIOUS
      <4>3. LogRetained(r, ingestion) = ByUsage("Logs-Storage-GB-Month",
                                                <<"AmazonCloudWatch", "Logs-Storage-GB-Month">>, n, "LOW")
        BY <3>2, <4>1, <4>2 DEF LogRetained
      <4> QED  BY <4>2, <4>3 DEF IsWhole, ByUsage, Charge
    <3> QED  BY <3>1, <3>2
  <2> QED  BY <1>2, <2>1 DEF LogCharges
<1>15. AllWhole(W, EksCharges(r, x)) /\ AllWhole(W, EipCharges(r, x))
  BY <1>1 DEF EksCharges, EipCharges
<1>16. AllWhole(W, AlarmCharges(r)) /\ AllWhole(W, Unsupported(r))
  <2>1. PICK period, resolution :
          AlarmCharges(r) = <<Fixed("Alarm-Month", <<"AmazonCloudWatch", "Alarm-Month", resolution>>, 1,
                                    IF period = None THEN "MEDIUM" ELSE "HIGH")>>
    BY DEF AlarmCharges
  <2>2. PICK confidence \in Levels : confidence = IF period = None THEN "MEDIUM" ELSE "HIGH"
    OBVIOUS
  <2>3. AllWhole(W, AlarmCharges(r))
    BY <2>1, <2>2
  <2> QED  BY <2>3 DEF Unsupported
<1> QED  BY <1>5, <1>6, <1>7, <1>8, <1>9, <1>10, <1>11, <1>12, <1>13, <1>14, <1>15, <1>16 DEF Estimate

-----------------------------------------------------------------------------
(* The hours of a schedule.                                                *)

(* The hours of the week that a window covers, and how many these are.     *)
Covers(segment, t) ==
  /\ IF segment.days.range THEN segment.days.from <= t[1] /\ t[1] <= segment.days.to
     ELSE t[1] \in segment.days.list
  /\ segment.start <= t[2] /\ t[2] < segment.end

Week == (0 .. 6) \X (0 .. 23)

(* Intervals, the week, and the hours of one window: days times hours.     *)
LEMMA IntervalSize ==
  ASSUME NEW a \in Int, NEW b \in Int, a <= b + 1
  PROVE  IsFiniteSet(a .. b) /\ Cardinality(a .. b) = b - a + 1
<1>1. IsFiniteSet(a .. b) /\ Cardinality(a .. b) = IF a > b THEN 0 ELSE b - a + 1
  BY FS_Interval
<1> QED  BY <1>1

LEMMA WeekIsFinite == IsFiniteSet(Week) /\ Cardinality(Week) = 168
<1>1. PICK zero \in Int, six \in Int, last \in Int : zero = 0 /\ six = 6 /\ last = 23
  OBVIOUS
<1>2. zero <= six + 1 /\ six - zero + 1 = 7 /\ zero <= last + 1 /\ last - zero + 1 = 24
  BY <1>1
<1>3. IsFiniteSet(zero .. six) /\ Cardinality(zero .. six) = 7
  <2>1. IsFiniteSet(zero .. six) /\ Cardinality(zero .. six) = six - zero + 1
    BY <1>2, IntervalSize
  <2> QED  BY <1>2, <2>1
<1>4. IsFiniteSet(zero .. last) /\ Cardinality(zero .. last) = 24
  <2>1. IsFiniteSet(zero .. last) /\ Cardinality(zero .. last) = last - zero + 1
    BY <1>2, IntervalSize
  <2> QED  BY <1>2, <2>1
<1> DEFINE days == zero .. six
           hours == zero .. last
<1>5. IsFiniteSet(days \X hours) /\ Cardinality(days \X hours) = Cardinality(days) * Cardinality(hours)
  <2> HIDE DEF days, hours
  <2>1. IsFiniteSet(days) /\ IsFiniteSet(hours)
    BY <1>3, <1>4 DEF days, hours
  <2> QED  BY <2>1, FS_Product
<1>6. Week = days \X hours
  BY <1>1 DEF Week
<1> HIDE DEF days, hours
<1>7. Cardinality(days) = 7 /\ Cardinality(hours) = 24
  BY <1>3, <1>4 DEF days, hours
<1> QED  BY <1>5, <1>6, <1>7

(* A window is a block of hours.                                           *)
LEMMA WindowSize ==
  ASSUME NEW segment, NEW start \in 0 .. 24, NEW end \in 0 .. 24, start < end,
         start = segment.start, end = segment.end,
         segment.days.range => segment.days.from \in Int /\ segment.days.to \in Int,
         Days(segment.days) \subseteq 0 .. 6
  PROVE  /\ {t \in Week : Covers(segment, t)} = Days(segment.days) \X (start .. (end - 1))
         /\ Cardinality({t \in Week : Covers(segment, t)})
              = Cardinality(Days(segment.days)) * (end - start)
<1> DEFINE days == Days(segment.days)
           hours == start .. (end - 1)
           window == {t \in Week : Covers(segment, t)}
<1>1. \A d \in 0 .. 6 :
        d \in days <=> (IF segment.days.range
                        THEN segment.days.from <= d /\ d <= segment.days.to
                        ELSE d \in segment.days.list)
  BY DEF Days
<1>2. \A n \in 0 .. 23 : n \in hours <=> segment.start <= n /\ n < segment.end
  OBVIOUS
<1>3. hours \subseteq 0 .. 23
  OBVIOUS
<1>4. window = days \X hours
  <2>1. ASSUME NEW d \in 0 .. 6, NEW n \in 0 .. 23
        PROVE  Covers(segment, <<d, n>>) <=> d \in days /\ n \in hours
    <3> HIDE DEF days, hours
    <3> QED  BY <1>1, <1>2 DEF Covers
  <2> HIDE DEF days, hours
  <2>2. \A t \in Week : t \in window <=> t \in days \X hours
    <3> SUFFICES ASSUME NEW t \in Week PROVE t \in window <=> t \in days \X hours
      OBVIOUS
    <3>1. PICK d \in 0 .. 6, n \in 0 .. 23 : t = <<d, n>>
      BY DEF Week
    <3> QED  BY <2>1, <3>1
  <2>3. days \subseteq 0 .. 6
    BY DEF days
  <2>4. days \X hours \subseteq Week
    BY <1>3, <2>3 DEF Week
  <2> QED  BY <2>2, <2>4
<1>5. IsFiniteSet(days)
  <2>1. PICK zero \in Int, six \in Int : zero = 0 /\ six = 6
    OBVIOUS
  <2>2. IsFiniteSet(zero .. six)
    BY FS_Interval
  <2> QED  BY <2>1, <2>2, FS_Subset
<1>6. IsFiniteSet(hours) /\ Cardinality(hours) = end - start
  <2>1. PICK a \in Int, b \in Int : a = start /\ b = end - 1 /\ a <= b + 1
    OBVIOUS
  <2>2. IsFiniteSet(a .. b) /\ Cardinality(a .. b) = b - a + 1
    BY <2>1, IntervalSize
  <2>3. b - a + 1 = end - start
    BY <2>1
  <2> QED  BY <2>1, <2>2, <2>3
<1>7. Cardinality(days \X hours) = Cardinality(days) * Cardinality(hours)
  <2> HIDE DEF days, hours
  <2> QED  BY <1>5, <1>6, FS_Product
<1> QED  BY <1>4, <1>6, <1>7

(* Never more of a month than there is of the week.                        *)
LEMMA ScheduleFits ==
  ASSUME NEW segments, NEW h \in Nat, h = HoursPerWeek(segments), h <= 168, NEW convention \in Nat
  PROVE  ScheduledHours(segments, convention) <= convention
<1>1. PICK p \in Nat : p = h * convention /\ p <= 168 * convention
  <2>1. h * convention \in Nat
    OBVIOUS
  <2>2. (168 - h) * convention >= 0
    OBVIOUS
  <2>3. (168 - h) * convention = 168 * convention - h * convention
    OBVIOUS
  <2> QED  BY <2>1, <2>2, <2>3
<1>2. 2 * h * convention + 168 = 2 * p + 168
  BY <1>1
<1>3. (2 * p + 168) \div 336 <= convention
  BY <1>1
<1>4. ScheduledHours(segments, convention) = (2 * p + 168) \div 336
  BY <1>2 DEF ScheduledHours, WeekHours
<1> QED  BY <1>3, <1>4

(* A schedule whose windows do not overlap runs for exactly the hours of   *)
(* the week it covers, and never for more than the month has               *)
(* (schedule.py:114).                                                      *)
LEMMA WindowsAddUp ==
  ASSUME NEW segments, IsSchedule(segments), Parses(segments), Apart(segments),
         NEW convention \in Nat
  PROVE  /\ HoursPerWeek(segments)
            = Cardinality({t \in Week : \E i \in DOMAIN segments : Covers(segments[i], t)})
         /\ ScheduledHours(segments, convention) <= convention
<1> DEFINE K == DOMAIN segments
           S == {t \in Week : \E i \in K : Covers(segments[i], t)}
           group == [i \in K |-> {t \in Week : Covers(segments[i], t)}]
           f == [i \in K |->
                  Cardinality(Days(segments[i].days)) * (segments[i].end - segments[i].start)]
<1>1. /\ \A i \in K : /\ segments[i].start \in 0 .. 24 /\ segments[i].end \in 0 .. 24
                      /\ segments[i].start < segments[i].end
                      /\ Days(segments[i].days) \subseteq 0 .. 6
                      /\ segments[i].days.range =>
                           segments[i].days.from \in Int /\ segments[i].days.to \in Int
  BY DEF Parses, IsSchedule
<1>2. \A i \in K :
        /\ group[i] = Days(segments[i].days) \X (segments[i].start .. (segments[i].end - 1))
        /\ f[i] = Cardinality(group[i])
  <2> SUFFICES ASSUME NEW i \in K
               PROVE  /\ group[i] = Days(segments[i].days)
                                      \X (segments[i].start .. (segments[i].end - 1))
                      /\ f[i] = Cardinality(group[i])
    OBVIOUS
  <2>1. PICK s : s = segments[i]
    OBVIOUS
  <2>2. PICK a \in 0 .. 24, b \in 0 .. 24 : a = s.start /\ b = s.end /\ a < b
    BY <1>1, <2>1
  <2>3. /\ {t \in Week : Covers(s, t)} = Days(s.days) \X (a .. (b - 1))
        /\ Cardinality({t \in Week : Covers(s, t)}) = Cardinality(Days(s.days)) * (b - a)
    <3>1. /\ s.days.range => s.days.from \in Int /\ s.days.to \in Int
          /\ Days(s.days) \subseteq 0 .. 6
      BY <1>1, <2>1
    <3> HIDE DEF group, f, S
    <3> QED  BY <2>2, <3>1, WindowSize
  <2> QED  BY <2>1, <2>2, <2>3
<1>3. IsFiniteSet(K)
  <2>1. PICK len \in Nat : DOMAIN segments = 1 .. len
    BY DEF IsSchedule
  <2>2. IsFiniteSet(1 .. len)
    BY FS_Interval
  <2> QED  BY <2>1, <2>2
<1>4. IsFiniteSet(S) /\ Cardinality(S) \in Nat /\ Cardinality(S) <= 168
  <2>1. S \in SUBSET Week
    OBVIOUS
  <2>2. IsFiniteSet(S) /\ Cardinality(S) <= Cardinality(Week)
    BY <2>1, WeekIsFinite, FS_Subset
  <2> HIDE DEF S
  <2> QED  BY <2>2, WeekIsFinite, FS_CardinalityType
<1>5. ASSUME NEW i \in K, NEW j \in K, NEW t \in S, t \in group[i], t \in group[j]
      PROVE  i = j
  <2> SUFFICES ASSUME i # j PROVE FALSE
    OBVIOUS
  <2>1. PICK d, n : t = <<d, n>>
    BY DEF Week
  <2>2. /\ d \in Days(segments[i].days) /\ d \in Days(segments[j].days)
        /\ n \in segments[i].start .. (segments[i].end - 1)
        /\ n \in segments[j].start .. (segments[j].end - 1)
    <3> HIDE DEF group, S
    <3> QED  BY <1>2, <1>5, <2>1
  <2>3. \/ Days(segments[i].days) \cap Days(segments[j].days) = {}
        \/ segments[i].end <= segments[j].start
        \/ segments[j].end <= segments[i].start
    BY DEF Apart
  <2> HIDE DEF group, S
  <2> QED  BY <1>1, <2>2, <2>3
<1>6. /\ \A i \in K : group[i] \subseteq S
      /\ \A t \in S : \E i \in K : t \in group[i]
  OBVIOUS
<1>7. HoursPerWeek(segments) = SumFunctionOnSet(f, K)
  BY DEF HoursPerWeek, SumFunction
<1> HIDE DEF group, S, f, K
<1>8. SumFunctionOnSet(f, K) = Cardinality(S)
  BY <1>2, <1>3, <1>4, <1>5, <1>6, CountByGroup
<1>9. ScheduledHours(segments, convention) <= convention
  BY <1>4, <1>7, <1>8, ScheduleFits
<1> QED  BY <1>7, <1>8, <1>9 DEF S, K

(* ScheduleMeasuresWeek: a schedule whose windows do not overlap runs for  *)
(* exactly the hours of the week it covers (schedule.py:114).              *)
THEOREM SchedulesMeasureTheWeek == Spec => []ScheduleMeasuresWeek
<1>1. question \in Questions \cup {None} => ScheduleMeasuresWeek
  <2> SUFFICES ASSUME question \in Questions, question.about = "schedule",
                      Parses(question.segments), Apart(question.segments)
               PROVE  /\ HoursPerWeek(question.segments)
                         = Cardinality({t \in Week :
                             \E i \in DOMAIN question.segments : Covers(question.segments[i], t)})
                      /\ ScheduledHours(question.segments, question.hours) <= question.hours
    BY DEF ScheduleMeasuresWeek, Asked, Week, Covers
  <2>1. IsSchedule(question.segments) /\ question.hours \in Nat
    BY QuestionAssumption
  <2> QED  BY <2>1, WindowsAddUp
<1> QED  BY <1>1, QuestionStays, PTL

-----------------------------------------------------------------------------
(* The accuracy report.                                                    *)

LEMMA BreakdownHasTotal ==
  ASSUME NEW amounts, IsBreakdown(amounts)
  PROVE  Total(amounts) \in Int
BY SumOfIntegers DEF IsBreakdown, Total, SumFunction

LEMMA PercentIsWhole ==
  ASSUME NEW predicted \in Int, NEW observed \in Int
  PROVE  Percent(predicted, observed) \in Int \cup {None}
<1>1. ASSUME NEW n \in Int, NEW d \in Int, d > 0 PROVE RoundedRatio(n, d) \in Int
  <2>1. PICK b \in Int : b = 2 * d /\ b > 0
    BY <1>1
  <2>2. \A a \in Int : a \div b \in Int
    BY <2>1
  <2>3. 2 * n + d \in Int /\ d - 2 * n \in Int
    OBVIOUS
  <2> QED  BY <2>1, <2>2, <2>3 DEF RoundedRatio
<1>2. CASE predicted > 0
  <2>1. (observed - predicted) * 1000 \in Int
    OBVIOUS
  <2> QED  BY <1>1, <1>2, <2>1 DEF Percent
<1>3. CASE predicted < 0
  <2>1. (predicted - observed) * 1000 \in Int /\ -predicted \in Int /\ -predicted > 0
    BY <1>3
  <2> QED  BY <1>1, <1>3, <2>1 DEF Percent
<1> QED  BY <1>2, <1>3 DEF Percent

(* Of finitely many sets one has no other of them as a part.               *)
LEMMA SmallestOf ==
  ASSUME NEW S, IsFiniteSet(S), NEW I, I # {}, NEW part, \A i \in I : part[i] \subseteq S
  PROVE  \E i \in I : \A j \in I : part[j] \subseteq part[i] => part[j] = part[i]
<1> DEFINE B == {part[i] : i \in I}
<1>1. B \in SUBSET SUBSET S /\ B # {}
  OBVIOUS
<1>2. PICK T \in B : \A U \in B : U \subseteq T => U = T
  <2> HIDE DEF B
  <2> QED  BY <1>1, SmallestMember
<1> QED  BY <1>2

(* Finitely many numbers have a greatest among them.                       *)
LEMMA GreatestOf ==
  ASSUME NEW S, IsFiniteSet(S), S # {}
  PROVE  S \subseteq Int => \E m \in S : \A n \in S : n <= m
<1> DEFINE from == [m \in S |-> {n \in S : n >= m}]
<1>1. \A m \in S : from[m] \subseteq S
  OBVIOUS
<1>2. PICK m \in S : \A n \in S : from[n] \subseteq from[m] => from[n] = from[m]
  <2> HIDE DEF from
  <2> QED  BY <1>1, SmallestOf
<1>3. ASSUME S \subseteq Int, NEW n \in S, n > m PROVE FALSE
  <2>1. m \in Int /\ n \in Int
    BY <1>3
  <2>2. from[n] \subseteq from[m]
    <3>1. ASSUME NEW k \in S, k >= n PROVE k >= m
      <4>1. k \in Int
        BY <1>3
      <4> QED  BY <1>3, <2>1, <3>1, <4>1
    <3> QED  BY <3>1
  <2>3. m \in from[m] /\ m \notin from[n]
    BY <1>3, <2>1
  <2> HIDE DEF from
  <2> QED  BY <1>2, <2>2, <2>3
<1> QED  BY <1>3

(* The places of what is less than a value, and of what is no more.        *)
Below(values, v) == {i \in DOMAIN values : values[i] < v}
UpTo(values, v) == {i \in DOMAIN values : values[i] <= v}

LEMMA SizesOfPlaces ==
  ASSUME NEW values, IsFiniteSet(DOMAIN values), NEW v
  PROVE  /\ IsFiniteSet(Below(values, v)) /\ Cardinality(Below(values, v)) \in Nat
         /\ IsFiniteSet(UpTo(values, v)) /\ Cardinality(UpTo(values, v)) \in Nat
<1>1. Below(values, v) \in SUBSET DOMAIN values /\ UpTo(values, v) \in SUBSET DOMAIN values
  BY DEF Below, UpTo
<1> QED  BY <1>1, FS_Subset, FS_CardinalityType

(* Every rank below their number has a value with so many before it.       *)
LEMMA RankHasValue ==
  ASSUME NEW values, IsFiniteSet(DOMAIN values), \A i \in DOMAIN values : values[i] \in Int,
         NEW rank \in Nat, rank < Cardinality(DOMAIN values)
  PROVE  \E v \in Range(values) :
           Cardinality(Below(values, v)) <= rank /\ rank < Cardinality(UpTo(values, v))
<1> DEFINE D == DOMAIN values
           found == {v \in Range(values) : rank < Cardinality(UpTo(values, v))}
           B == {UpTo(values, v) : v \in found}
<1>1. ASSUME NEW I \in SUBSET D, I # {} PROVE \E k \in I : \A i \in I : values[i] <= values[k]
  <2> DEFINE S == {values[i] : i \in I}
  <2>1. IsFiniteSet(I)
    BY FS_Subset
  <2>2. S \subseteq Int /\ IsFiniteSet(S) /\ S # {}
    BY <1>1, <2>1, FiniteImage
  <2>3. \E m \in S : \A n \in S : n <= m
    <3> HIDE DEF S
    <3> QED  BY <2>2, GreatestOf
  <2> QED  BY <2>3
<1>2. found # {}
  <2>1. D # {}
    BY FS_EmptySet
  <2>2. PICK k \in D : \A i \in D : values[i] <= values[k]
    BY <1>1, <2>1
  <2>3. UpTo(values, values[k]) = D /\ values[k] \in Range(values)
    BY <2>2 DEF UpTo, Range
  <2> QED  BY <2>3
<1>3. PICK v \in found : \A w \in found : UpTo(values, w) \subseteq UpTo(values, v)
                                          => UpTo(values, w) = UpTo(values, v)
  <2>1. B \in SUBSET SUBSET D /\ B # {}
    BY <1>2 DEF UpTo
  <2>2. \E T \in B : \A U \in B : U \subseteq T => U = T
    <3> HIDE DEF B, D
    <3>1. IsFiniteSet(D)
      BY DEF D
    <3> QED  BY <2>1, <3>1, SmallestMember
  <2> QED  BY <2>2
<1>4. PICK k \in D : v = values[k]
  BY DEF Range
<1>5. ASSUME rank < Cardinality(Below(values, v)) PROVE FALSE
  <2>1. Below(values, v) # {}
    BY <1>5, FS_EmptySet
  <2>2. PICK j \in Below(values, v) : \A i \in Below(values, v) : values[i] <= values[j]
    <3>1. Below(values, v) \in SUBSET D
      BY DEF Below
    <3> QED  BY <1>1, <2>1, <3>1
  <2>3. j \in D /\ values[j] < v /\ values[j] \in Int /\ v \in Int
    BY <1>4 DEF Below
  <2>4. UpTo(values, values[j]) = Below(values, v)
    BY <2>2, <2>3 DEF Below, UpTo
  <2>5. values[j] \in found
    BY <1>5, <2>3, <2>4 DEF Range
  <2>6. UpTo(values, values[j]) \subseteq UpTo(values, v)
    BY <2>3 DEF UpTo
  <2>7. k \in UpTo(values, v) /\ k \notin Below(values, v)
    BY <1>4, <2>3 DEF UpTo, Below
  <2> QED  BY <1>3, <2>4, <2>5, <2>6, <2>7
<1>6. Cardinality(Below(values, v)) <= rank
  <2>1. PICK n \in Nat : n = Cardinality(Below(values, v))
    BY SizesOfPlaces
  <2> QED  BY <1>5, <2>1
<1> QED  BY <1>6

LEMMA RankIsWithin ==
  ASSUME NEW n \in Nat \ {0}
  PROVE  /\ \A tenths \in {1, 5, 9} : RankOf(n, tenths) \in Nat /\ RankOf(n, tenths) < n
         /\ RankOf(n, 1) <= RankOf(n, 5) /\ RankOf(n, 5) <= RankOf(n, 9)
<1>1. /\ RankOf(n, 1) = (2 * n + 8) \div 20
      /\ RankOf(n, 5) = (10 * n) \div 20
      /\ RankOf(n, 9) = (18 * n - 8) \div 20
  <2>1. /\ 2 * 1 * (n - 1) + 10 = 2 * n + 8
        /\ 2 * 5 * (n - 1) + 10 = 10 * n
        /\ 2 * 9 * (n - 1) + 10 = 18 * n - 8
    OBVIOUS
  <2> QED  BY <2>1 DEF RankOf
<1>2. /\ (2 * n + 8) \div 20 \in Nat /\ (2 * n + 8) \div 20 < n
      /\ (10 * n) \div 20 \in Nat /\ (10 * n) \div 20 < n
      /\ (18 * n - 8) \div 20 \in Nat /\ (18 * n - 8) \div 20 < n
  OBVIOUS
<1>3. /\ (2 * n + 8) \div 20 <= (10 * n) \div 20
      /\ (10 * n) \div 20 <= (18 * n - 8) \div 20
  OBVIOUS
<1> QED  BY <1>1, <1>2, <1>3

(* A quantile is a value that occurred, of its rank.                       *)
LEMMA QuantileOccurs ==
  ASSUME NEW values, IsFiniteSet(DOMAIN values), \A i \in DOMAIN values : values[i] \in Int,
         DOMAIN values # {}, NEW tenths \in {1, 5, 9}
  PROVE  LET q == Quantile(values, tenths)
             rank == RankOf(Cardinality(DOMAIN values), tenths)
         IN  /\ q \in Range(values)
             /\ Cardinality(Below(values, q)) <= rank /\ rank < Cardinality(UpTo(values, q))
<1>1. PICK n \in Nat \ {0} : n = Cardinality(DOMAIN values)
  BY FS_CardinalityType, FS_EmptySet
<1>2. PICK rank \in Nat : rank = RankOf(n, tenths) /\ rank < n
  BY RankIsWithin
<1> DEFINE Is(v) == Cardinality(Below(values, v)) <= rank /\ rank < Cardinality(UpTo(values, v))
<1>3. \E v \in Range(values) : Is(v)
  BY <1>1, <1>2, RankHasValue
<1>4. Quantile(values, tenths) = CHOOSE v \in Range(values) : Is(v)
  BY <1>1, <1>2 DEF Quantile, Below, UpTo
<1> HIDE DEF Is
<1>5. Quantile(values, tenths) \in Range(values) /\ Is(Quantile(values, tenths))
  BY <1>3, <1>4
<1> QED  BY <1>1, <1>2, <1>5 DEF Is

(* What has the higher rank is no less.                                    *)
LEMMA ValuesRise ==
  ASSUME NEW values, IsFiniteSet(DOMAIN values), NEW v \in Int, NEW w \in Int,
         \A i \in DOMAIN values : values[i] \in Int,
         NEW m \in Nat, NEW n \in Nat, m <= n,
         Cardinality(Below(values, v)) <= m, n < Cardinality(UpTo(values, w))
  PROVE  v <= w
<1> SUFFICES ASSUME w < v PROVE FALSE
  OBVIOUS
<1>1. UpTo(values, w) \subseteq Below(values, v)
  BY DEF UpTo, Below
<1>2. IsFiniteSet(Below(values, v))
  BY SizesOfPlaces
<1>3. Cardinality(UpTo(values, w)) <= Cardinality(Below(values, v))
  BY <1>1, <1>2, FS_Subset
<1>4. PICK j \in Nat, k \in Nat :
        j = Cardinality(Below(values, v)) /\ k = Cardinality(UpTo(values, w))
  BY SizesOfPlaces
<1> QED  BY <1>3, <1>4

LEMMA QuantilesRise ==
  ASSUME NEW values, IsFiniteSet(DOMAIN values), \A i \in DOMAIN values : values[i] \in Int,
         DOMAIN values # {}
  PROVE  /\ {Quantile(values, 1), Quantile(values, 5), Quantile(values, 9)} \subseteq Range(values)
         /\ Quantile(values, 1) <= Quantile(values, 5)
         /\ Quantile(values, 5) <= Quantile(values, 9)
<1>1. PICK n \in Nat \ {0} : n = Cardinality(DOMAIN values)
  BY FS_CardinalityType, FS_EmptySet
<1>2. PICK first \in Nat, middle \in Nat, last \in Nat :
        /\ first = RankOf(n, 1) /\ middle = RankOf(n, 5) /\ last = RankOf(n, 9)
        /\ first <= middle /\ middle <= last
  BY RankIsWithin
<1>3. Range(values) \subseteq Int
  BY DEF Range
<1>4. PICK v \in Int : /\ v = Quantile(values, 1) /\ v \in Range(values)
                       /\ Cardinality(Below(values, v)) <= first /\ first < Cardinality(UpTo(values, v))
  BY <1>1, <1>2, <1>3, QuantileOccurs
<1>5. PICK w \in Int : /\ w = Quantile(values, 5) /\ w \in Range(values)
                       /\ Cardinality(Below(values, w)) <= middle /\ middle < Cardinality(UpTo(values, w))
  BY <1>1, <1>2, <1>3, QuantileOccurs
<1>6. PICK x \in Int : /\ x = Quantile(values, 9) /\ x \in Range(values)
                       /\ Cardinality(Below(values, x)) <= last /\ last < Cardinality(UpTo(values, x))
  BY <1>1, <1>2, <1>3, QuantileOccurs
<1>7. v <= w
  BY <1>2, <1>4, <1>5, ValuesRise
<1>8. w <= x
  BY <1>2, <1>5, <1>6, ValuesRise
<1> QED  BY <1>4, <1>5, <1>6, <1>7, <1>8

(* What is observed of a prediction, and how it is compared.               *)
LEMMA ObservedIsBilled ==
  ASSUME NEW r, NEW today, NEW bill, IsBreakdown(r.services),
         \A w \in DOMAIN bill : IsBreakdown(bill[w])
  PROVE  LET o == Observe(r, today, bill)
             c == Compare(o)
         IN  /\ c.comparability = o.comparability
             /\ o.comparability = "COMPARABLE" =>
                  /\ r.deployed # None /\ Window(r) \in DOMAIN bill
                  /\ c.percent = Percent(Total(r.services), Total(bill[Window(r)]))
                  /\ c.percent \in Int \cup {None}
<1>1. PICK status : status = Comparability(r, today, bill)
  OBVIOUS
<1>2. PICK o : o = Observe(r, today, bill)
  OBVIOUS
<1>3. o.record = r /\ o.comparability = status
  BY <1>1, <1>2 DEF Observe
<1>4. Compare(o).comparability = status /\ Compare(o).percent = Percent(Total(r.services), o.observed)
  BY <1>3 DEF Compare
<1>5. ASSUME status = "COMPARABLE"
      PROVE  /\ r.deployed # None /\ Window(r) \in DOMAIN bill
             /\ o.observed = Total(bill[Window(r)])
             /\ Percent(Total(r.services), o.observed) \in Int \cup {None}
  <2>1. r.deployed # None /\ Window(r) \in DOMAIN bill
    BY <1>1, <1>5 DEF Comparability, SettledWindow
  <2>2. o.observed = Total(bill[Window(r)])
    BY <1>1, <1>2, <1>5 DEF Observe
  <2>3. Total(r.services) \in Int /\ Total(bill[Window(r)]) \in Int
    BY <2>1, BreakdownHasTotal
  <2> QED  BY <2>1, <2>2, <2>3, PercentIsWhole
<1> QED  BY <1>2, <1>3, <1>4, <1>5

LEMMA SpreadIsReal ==
  ASSUME NEW records, NEW today, NEW bill, IsFiniteSet(DOMAIN records),
         \A i \in DOMAIN records : IsBreakdown(records[i].services),
         \A w \in DOMAIN bill : IsBreakdown(bill[w])
  PROVE  LET summary == Summarise(ObservationsFor(records, today, bill))
             billed == {r \in Range(records) : r.deployed # None /\ Window(r) \in DOMAIN bill}
             errors == {Percent(Total(r.services), Total(bill[Window(r)])) : r \in billed}
         IN  summary.median # None =>
               /\ {summary.p10, summary.median, summary.p90} \subseteq errors
               /\ summary.p10 <= summary.median /\ summary.median <= summary.p90
<1> DEFINE observations == ObservationsFor(records, today, bill)
           comparisons == [i \in DOMAIN observations |-> Compare(observations[i])]
           values == Percentages(comparisons)
           enough == Cardinality(Counted(comparisons)) >= MinimumComparisons
           summary == Summarise(observations)
           billed == {r \in Range(records) : r.deployed # None /\ Window(r) \in DOMAIN bill}
           errors == {Percent(Total(r.services), Total(bill[Window(r)])) : r \in billed}
<1> SUFFICES ASSUME summary.median # None
             PROVE  /\ {summary.p10, summary.median, summary.p90} \subseteq errors
                    /\ summary.p10 <= summary.median /\ summary.median <= summary.p90
  OBVIOUS
<1>1. /\ summary.p10 = IF enough THEN Quantile(values, 1) ELSE None
      /\ summary.median = IF enough THEN Quantile(values, 5) ELSE None
      /\ summary.p90 = IF enough THEN Quantile(values, 9) ELSE None
  BY DEF Summarise
<1>2. /\ DOMAIN observations \subseteq DOMAIN records
      /\ \A i \in DOMAIN observations : observations[i] = Observe(records[i], today, bill)
  BY DEF ObservationsFor
<1>3. /\ DOMAIN values = {j \in Counted(comparisons) : comparisons[j].percent # None}
      /\ \A i \in DOMAIN values : values[i] = comparisons[i].percent
  BY DEF Percentages
<1>4. /\ Counted(comparisons) = {i \in DOMAIN observations : comparisons[i].comparability = "COMPARABLE"}
      /\ \A i \in DOMAIN observations : comparisons[i] = Compare(observations[i])
  BY DEF Counted
<1>5. DOMAIN values \in SUBSET DOMAIN records
  BY <1>2, <1>3, <1>4
<1> HIDE DEF observations, comparisons, values, summary, enough
<1>6. ASSUME NEW i \in DOMAIN values PROVE values[i] \in errors /\ values[i] \in Int
  <2>1. PICK r : r = records[i] /\ i \in DOMAIN records
    BY <1>5
  <2>2. PICK o : o = Observe(r, today, bill) /\ values[i] = Compare(o).percent
                 /\ Compare(o).comparability = "COMPARABLE" /\ values[i] # None
    BY <1>2, <1>3, <1>4, <2>1
  <2>3. IsBreakdown(r.services)
    BY <2>1
  <2>4. /\ r.deployed # None /\ Window(r) \in DOMAIN bill
        /\ values[i] = Percent(Total(r.services), Total(bill[Window(r)]))
        /\ values[i] \in Int \cup {None}
    BY <2>2, <2>3, ObservedIsBilled
  <2>5. r \in billed
    BY <2>1, <2>4 DEF Range
  <2> QED  BY <2>2, <2>4, <2>5
<1>7. enough /\ DOMAIN values # {}
  BY <1>1 DEF Quantile
<1>8. IsFiniteSet(DOMAIN values)
  BY <1>5, FS_Subset
<1>9. /\ {Quantile(values, 1), Quantile(values, 5), Quantile(values, 9)} \subseteq Range(values)
      /\ Quantile(values, 1) <= Quantile(values, 5)
      /\ Quantile(values, 5) <= Quantile(values, 9)
  <2>1. \A i \in DOMAIN values : values[i] \in Int
    BY <1>6
  <2> QED  BY <1>7, <1>8, <2>1, QuantilesRise
<1>10. Range(values) \subseteq errors
  BY <1>6 DEF Range
<1> QED  BY <1>1, <1>7, <1>9, <1>10

(* SpreadOccurred: a spread that is reported is one that occurred, in its  *)
(* order: every figure of it is the error of a prediction that was         *)
(* deployed and billed (accuracy.py:202).                                  *)
THEOREM SpreadsAreReal == Spec => []SpreadOccurred
<1>1. question \in Questions \cup {None} => SpreadOccurred
  <2> SUFFICES ASSUME question \in Questions, question.about = "feedback" PROVE SpreadOccurred
    BY DEF SpreadOccurred, Asked
  <2>1. PICK records, today, bill :
          records = question.records /\ today = question.today /\ bill = question.bill
    OBVIOUS
  <2>2. /\ IsFiniteSet(DOMAIN records)
        /\ \A i \in DOMAIN records : IsBreakdown(records[i].services)
        /\ \A w \in DOMAIN bill : IsBreakdown(bill[w])
    BY <2>1, QuestionAssumption
  <2> QED  BY <2>1, <2>2, SpreadIsReal DEF SpreadOccurred, Asked, Observations
<1> QED  BY <1>1, QuestionStays, PTL

LEMMA AllAccountedFor ==
  ASSUME NEW records, NEW today, NEW bill, IsFiniteSet(DOMAIN records)
  PROVE  LET summary == Summarise(ObservationsFor(records, today, bill))
         IN  summary.counted + Total(summary.excluded)
             = Cardinality({i \in DOMAIN records : records[i].application # None})
<1> DEFINE observations == ObservationsFor(records, today, bill)
           comparisons == [i \in DOMAIN observations |-> Compare(observations[i])]
           I == {i \in DOMAIN records : records[i].application # None}
           C == Counted(comparisons)
           reason == [i \in I |-> comparisons[i].comparability]
           reasons == {reason[i] : i \in I \ C}
           group == [r \in reasons |-> {i \in I : reason[i] = r}]
           h == [r \in reasons |-> Cardinality(group[r])]
           summary == Summarise(observations)
<1>1. DOMAIN observations = I /\ DOMAIN comparisons = I
  BY DEF ObservationsFor
<1>2. C = {i \in I : reason[i] = "COMPARABLE"}
  BY <1>1 DEF Counted
<1>3. summary.counted = Cardinality(C)
  BY DEF Summarise
<1>4. summary.excluded = h
  <2>1. {comparisons[i].comparability : i \in DOMAIN comparisons \ C} = reasons
    BY <1>1
  <2>2. \A r : {i \in DOMAIN comparisons : comparisons[i].comparability = r} = {i \in I : reason[i] = r}
    BY <1>1
  <2> HIDE DEF observations, comparisons, reason, I, C
  <2>3. summary.excluded = [r \in {comparisons[i].comparability : i \in DOMAIN comparisons \ C} |->
          Cardinality({i \in DOMAIN comparisons : comparisons[i].comparability = r})]
    BY DEF Summarise, comparisons, C
  <2> QED  BY <2>1, <2>2, <2>3
<1>5. IsFiniteSet(I) /\ C \in SUBSET I
  BY <1>2, FS_Subset
<1>6. IsFiniteSet(I \ C) /\ IsFiniteSet(C) /\ IsFiniteSet(reasons)
  <2>1. IsFiniteSet(I \ C) /\ IsFiniteSet(C)
    BY <1>5, FS_Subset
  <2> HIDE DEF reason, I, C
  <2> QED  BY <2>1, FiniteImage
<1> HIDE DEF observations, comparisons, I, C, reason, summary
<1>7. /\ \A r \in reasons : group[r] \subseteq I \ C
      /\ \A i \in I \ C : \E r \in reasons : i \in group[r]
      /\ \A r, s \in reasons : \A i \in I \ C : i \in group[r] /\ i \in group[s] => r = s
  BY <1>2
<1>8. \A r \in reasons : h[r] = Cardinality(group[r])
  OBVIOUS
<1>9. SumFunctionOnSet(h, reasons) = Cardinality(I \ C)
  <2> HIDE DEF group, h, reasons
  <2> QED  BY <1>6, <1>7, <1>8, CountByGroup
<1>10. Cardinality(I) = Cardinality(C) + Cardinality(I \ C)
  <2>1. I = C \cup (I \ C) /\ C \cap (I \ C) = {}
    BY <1>5
  <2>2. Cardinality(C \cup (I \ C))
          = Cardinality(C) + Cardinality(I \ C) - Cardinality(C \cap (I \ C))
    BY <1>6, FS_Union
  <2>3. PICK m \in Nat, n \in Nat : m = Cardinality(C) /\ n = Cardinality(I \ C)
    BY <1>6, FS_CardinalityType
  <2>4. Cardinality(C \cap (I \ C)) = 0
    BY <2>1, FS_EmptySet
  <2>5. Cardinality(C \cup (I \ C)) = m + n
    BY <2>2, <2>3, <2>4
  <2> QED  BY <2>1, <2>3, <2>5
<1>11. Total(summary.excluded) = SumFunctionOnSet(h, reasons)
  BY <1>4 DEF Total, SumFunction
<1> QED  BY <1>3, <1>9, <1>10, <1>11 DEF I, summary, observations

(* PredictionsAccountedFor: whatever the predictions and the bill, those   *)
(* that are counted and those that are excluded are all that something can *)
(* be asked of (accuracy.py:257).                                          *)
THEOREM NonePredictedIsLost == Spec => []PredictionsAccountedFor
<1>1. question \in Questions \cup {None} => PredictionsAccountedFor
  <2> SUFFICES ASSUME question \in Questions, question.about = "feedback" PROVE PredictionsAccountedFor
    BY DEF PredictionsAccountedFor, Asked
  <2>1. PICK records, today, bill :
          records = question.records /\ today = question.today /\ bill = question.bill
    OBVIOUS
  <2>2. IsFiniteSet(DOMAIN records)
    BY <2>1, QuestionAssumption
  <2> QED  BY <2>1, <2>2, AllAccountedFor DEF PredictionsAccountedFor, Asked, Observations
<1> QED  BY <1>1, QuestionStays, PTL
=============================================================================
