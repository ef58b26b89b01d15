------------------------------ MODULE Promises ------------------------------
(***************************************************************************)
(* The analysis with the parts it is built from that answer in one step:   *)
(* what a template says, what a resource is charged, what a profile and a  *)
(* schedule mean, what the advice and the accuracy report add up to.  The  *)
(* run of Analysis starts from a phase of its own; in any other initial    *)
(* state a question is put to one of the parts, and no run takes place.    *)
(***************************************************************************)
EXTENDS Analysis, Templates, PriceFiles, Recommendations, Feedback

CONSTANTS
  Questions,       \* records whose field `about` tells which part is asked
  PropertyValues,  \* the values each property may be deployed with
  ParameterTexts   \* the texts a parameter may be deployed with

ASSUME QuestionAssumption ==
  \A q \in Questions :
    /\ q.about = "estimate" => WellNamed(q.resource)
    /\ q.about = "profile" => \A r \in q.resources : WellNamed(r)
    /\ q.about = "schedule" => IsSchedule(q.segments) /\ q.hours \in Nat
    /\ q.about = "feedback" =>
         /\ IsFiniteSet(DOMAIN q.records)
         /\ \A i \in DOMAIN q.records : IsBreakdown(q.records[i].services)
         /\ \A w \in DOMAIN q.bill : IsBreakdown(q.bill[w])

VARIABLE question

NoRun ==
  /\ phase = "idle"
  /\ snapshots = None /\ settings = None
  /\ lookups = {} /\ estimated = {}
  /\ report = None /\ result = None /\ exit = Running
  /\ kind = "fixtures"

Init ==
  /\ PricingInit
  /\ \/ AnalysisInit /\ question = None
     \/ NoRun /\ question \in Questions

Next == AnalysisNext /\ UNCHANGED question

Spec == Init /\ [][Next]_<<vars, question>>

(* The run is one process, and whatever it calls answers or fails.         *)
FairSpec == Spec /\ WF_<<vars, question>>(Step /\ UNCHANGED question)

Asked(topic) == question # None /\ question.about = topic

-----------------------------------------------------------------------------
(* Estimates of what is not known before deployment.                       *)

(* Properties that every estimator reading them tells apart from absence.  *)
Guarded ==
  {"InstanceType", "Size", "DBInstanceClass", "Engine", "MultiAZ", "StorageType",
   "AllocatedStorage", "ReadCapacityUnits", "WriteCapacityUnits", "ProtocolType",
   "RetentionInDays"}

ASSUME ValuesAssumption == \A p \in Guarded : Unresolved \notin PropertyValues[p]

(* PROPERTY: a price stated for a resource is forced.  However the          *)
(* deployment settles the guarded properties the template leaves open, the *)
(* resource is charged in the same dimensions, and for whatever was priced *)
(* exactly the same; the rest was reported as unknown ("not knowable        *)
(* before deployment", database.py:74).                                     *)
EstimateIsForced ==
  Asked("estimate") =>
    LET r == question.resource
        x == question.context
    IN  OpenProps(r) \subseteq Guarded =>
          \A c \in Completions(r, PropertyValues) :
            /\ Agrees(r, c, x)
            /\ \A mine \in ChargesOf(r, x) : mine.key # None => mine \in ChargesOf(c, x)

DimensionsOf(r, x) == {d.dimension : d \in ChargesOf(r, x)}

(* PROPERTY: a side of a published component that was not estimated is a    *)
(* real zero: "A side that was not estimated at all means the resource did  *)
(* not exist then, which is a real zero." (engine.py:104).  If the resource *)
(* did exist on that side, no deployment of it is charged in the dimension. *)
MissingSideIsZero ==
  report # None =>
    \A c \in report : \A side \in {n \in {1, 2} : c.sides[n] # None} :
      c.dimension \notin DimensionsOf(c.sides[side], Context(settings)) =>
        \A deployed \in Completions(c.sides[side], PropertyValues) :
          c.dimension \notin DimensionsOf(deployed, Context(settings))

InsteadOf(x, profile) == [profile |-> profile, hours |-> x.hours, context |-> x.context]

Unscheduled(entry) ==
  [hours |-> None, schedule |-> None, lifetime |-> entry.lifetime, drivers |-> entry.drivers]

WithoutHours(profile) ==
  [defaults |-> Unscheduled(profile.defaults),
   environments |-> [e \in DOMAIN profile.environments |-> Unscheduled(profile.environments[e])],
   overrides |-> [o \in DOMAIN profile.overrides |-> Unscheduled(profile.overrides[o])]]

(* PROPERTY: a schedule saves nothing on what cannot be stopped.  Whatever  *)
(* hours and schedules a profile states, for the environment or for the    *)
(* resource itself, only instances are charged less for them               *)
(* (base.py, RuntimeBasis).                                                 *)
ScheduleOnlyStopsInstances ==
  Asked("estimate") =>
    (question.resource.type \notin {"AWS::EC2::Instance", "AWS::RDS::DBInstance"} =>
      Estimate(question.resource, question.context)
      = Estimate(question.resource,
                 InsteadOf(question.context, WithoutHours(question.context.profile))))

-----------------------------------------------------------------------------
(* Profiles and schedules.                                                 *)

Without(profile, name) ==
  [defaults |-> profile.defaults, environments |-> profile.environments,
   overrides |-> [o \in DOMAIN profile.overrides \ {name} |-> profile.overrides[o]]]

(* PROPERTY: an override the run warns about is one it did without: no      *)
(* resource is estimated differently if it is deleted, whichever of the    *)
(* names of a construct it uses (usage.py:304, pipeline.py:182).            *)
WarnedOverridesAreUnused ==
  Asked("profile") =>
    \A name \in UnmatchedOverrides(question.context.profile, question.resources) :
      \A r \in question.resources :
        Estimate(r, question.context)
        = Estimate(r, InsteadOf(question.context, Without(question.context.profile, name)))

Apart(segments) ==
  \A i, j \in DOMAIN segments :
    i # j => \/ Days(segments[i].days) \cap Days(segments[j].days) = {}
             \/ segments[i].end <= segments[j].start
             \/ segments[j].end <= segments[i].start

(* PROPERTY: a schedule whose windows do not overlap runs for exactly the   *)
(* hours of the week it covers, both ends of a day range included, and     *)
(* never for more than the month has (schedule.py:114).                     *)
ScheduleMeasuresWeek ==
  Asked("schedule") =>
    LET segments == question.segments
    IN  (Parses(segments) /\ Apart(segments)) =>
          /\ HoursPerWeek(segments)
             = Cardinality({t \in (0 .. 6) \X (0 .. 23) :
                 \E i \in DOMAIN segments :
                   /\ IF segments[i].days.range
                      THEN segments[i].days.from <= t[1] /\ t[1] <= segments[i].days.to
                      ELSE t[1] \in segments[i].days.list
                   /\ segments[i].start <= t[2] /\ t[2] < segments[i].end})
          /\ ScheduledHours(segments, question.hours) <= question.hours

-----------------------------------------------------------------------------
(* The catalog.                                                            *)

(* PROPERTY: a catalog that loads has one meaning: every rate written in    *)
(* any of its files is what the key it is written for is quoted ("an        *)
(* ambiguous catalog would make lookups depend on file order",              *)
(* catalog.py:264).                                                         *)
CatalogMeansOneThing ==
  Asked("catalog") =>
    (CatalogLoads(question.catalog) =>
      \A e \in Entries(question.catalog) :
        Quote(question.catalog, KeyAt(question.catalog, e)) = RateAt(question.catalog, e).rate)

(* PROPERTY: a catalog that agrees with the lock of another prices          *)
(* everything as that one does, whichever files were added, removed or     *)
(* edited in between ("An empty list means the catalog is exactly what was  *)
(* signed off", catalog.py:182).                                            *)
LockPinsPrices ==
  Asked("catalog") =>
    (Problems(question.catalog, question.locked) = {} =>
      /\ CatalogLoads(question.catalog) <=> CatalogLoads(question.locked)
      /\ \A e \in Entries(question.catalog) :
           Quote(question.catalog, KeyAt(question.catalog, e))
           = Quote(question.locked, KeyAt(question.catalog, e)))

-----------------------------------------------------------------------------
(* Templates.                                                              *)

Deployments(given) ==
  {[p \in Parameters |-> IF p \in DOMAIN given THEN given[p] ELSE rest[p]] :
     rest \in [Parameters \ DOMAIN given -> ParameterTexts]}

Conditional == {n \in DOMAIN Expression : Expression[n].op = "if"}

(* PROPERTY: what is known of a template is final.  A text or a verdict     *)
(* established while parameters are missing is the one of every deployment *)
(* that supplies them, through any nesting of conditions, lookups, joins   *)
(* and splits (intrinsics.py:3).                                            *)
ResolutionIsFinal ==
  Asked("template") =>
    \A later \in Deployments(question.given) :
      /\ \A n \in DOMAIN Expression :
           IsText(Resolve(question.given, n)) =>
             Resolve(later, n) = Resolve(question.given, n)
      /\ \A c \in DOMAIN Conditions :
           EvaluateCondition(question.given, c) # "unknown" =>
             EvaluateCondition(later, c) = EvaluateCondition(question.given, c)

(* PROPERTY: the scenarios of an undecided Fn::If hold its outcome.  If both *)
(* branches are written out, the value of every deployment is among the     *)
(* candidates the unknown carries (intrinsics.py, _if).                     *)
ScenariosCoverOutcome ==
  Asked("template") =>
    \A later \in Deployments(question.given), n \in Conditional :
      LET now == Resolve(question.given, n)
          then == Resolve(later, n)
      IN  (/\ Literal(Expression[n].yes) /\ Literal(Expression[n].no)
           /\ now.state = "unknown" /\ IsText(then))
          => then.text \in now.candidates

-----------------------------------------------------------------------------
(* Advice and accuracy.                                                    *)

(* PROPERTY: the advice never promises more than the change costs: the      *)
(* total it states, if it states one, is at most what the proposed          *)
(* resources of the published report are known to cost                      *)
(* (domain/recommendations.py:139).                                         *)
AddressableIsReal ==
  report # None =>
    LET environment == IF "environment" \in DOMAIN Fallback THEN Fallback["environment"] ELSE None
        total == TotalAddressable(Recommend(After, report, environment))
    IN  total # None =>
          total <= SumFunction([c \in {d \in report : d.proposed # None} |-> c.proposed])

Observations == ObservationsFor(question.records, question.today, question.bill)

(* PROPERTY: no prediction drops out of the accuracy report unseen: every   *)
(* one that something is known about is counted, or is excluded for a      *)
(* reason that is reported ("an accuracy figure over a filtered population  *)
(* means nothing without the filter", accuracy.py:119).                     *)
PredictionsAccountedFor ==
  Asked("feedback") =>
    LET summary == Summarise(Observations)
    IN  summary.counted + Total(summary.excluded)
        = Cardinality({i \in DOMAIN question.records : question.records[i].application # None})

(* PROPERTY: the spread is one that occurred: below the median lies the     *)
(* tenth percentile and above it the ninetieth, and each is the error of a *)
(* prediction that was deployed and billed ("Every number this module       *)
(* reports should be one that actually happened", accuracy.py:206).         *)
SpreadOccurred ==
  Asked("feedback") =>
    LET summary == Summarise(Observations)
        billed == {r \in Range(question.records) :
                    r.deployed # None /\ Window(r) \in DOMAIN question.bill}
        errors == {Percent(Total(r.services), Total(question.bill[Window(r)])) : r \in billed}
    IN  summary.median # None =>
          /\ {summary.p10, summary.median, summary.p90} \subseteq errors
          /\ summary.p10 <= summary.median /\ summary.median <= summary.p90
=============================================================================
