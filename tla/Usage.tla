------------------------------- MODULE Usage -------------------------------
(***************************************************************************)
(* Usage profiles (config/usage.py) and weekly schedules                   *)
(* (domain/schedule.py): how much of a billing dimension a resource uses,  *)
(* and for how many hours a month it runs.                                 *)
(*                                                                         *)
(* A profile is [defaults, environments, overrides]: one entry, entries by *)
(* environment, and entries by whatever name the author of an override     *)
(* used.  An entry is [hours, schedule, lifetime, drivers], the first      *)
(* three None where they are not set, and drivers a partial function.  A   *)
(* resource has an id, a path, or None, and an environment: its own, or    *)
(* the one of the run.  A path is [whole, segments]: the text and its      *)
(* parts.                                                                  *)
(***************************************************************************)
EXTENDS Absence, Integers, FiniteSets, SequencesExt, FiniteSetsExt

NoDrivers == [d \in {} |-> 0]
NoEntry == [hours |-> None, schedule |-> None, lifetime |-> None, drivers |-> NoDrivers]

-----------------------------------------------------------------------------
(* Schedules.  A segment is [days, start, end]: days a range <<from, to>>  *)
(* of week days or a set of them, times in whole hours.                    *)

WeekHours == 168
MaxMonthlyHours == 744

(* Faulty variant: the last day of a range is left out.                    *)
DaysUpTo(spec) == IF spec.range THEN spec.from .. spec.to - 1 ELSE spec.list

Days(spec) == IF spec.range THEN spec.from .. spec.to ELSE spec.list

(* A range that wraps the week, a window that wraps the day and a schedule *)
(* without segments are refused.                                           *)
Parses(segments) ==
  /\ segments # <<>>
  /\ \A i \in DOMAIN segments :
       /\ segments[i].days.range => segments[i].days.from <= segments[i].days.to
       /\ segments[i].start \in 0 .. 24 /\ segments[i].end \in 0 .. 24
       /\ segments[i].start < segments[i].end

(* Windows are summed, whether they overlap or not.                        *)
HoursPerWeek(segments) ==
  SumFunction([i \in DOMAIN segments |->
                Cardinality(Days(segments[i].days)) * (segments[i].end - segments[i].start)])

(* A fixed number of weeks per month, rounded half up to whole hours.      *)
ScheduledHours(segments, convention) ==
  (2 * HoursPerWeek(segments) * convention + WeekHours) \div (2 * WeekHours)

(* An entry that names two sources for its hours is refused.               *)
EntryLoads(e) ==
  /\ e.hours = None \/ e.schedule = None
  /\ e.hours # None => e.hours \in 1 .. MaxMonthlyHours
  /\ e.schedule # None => Parses(e.schedule)

(* A schedule and an entry as they are read: whole numbers, days of the     *)
(* week and, of what is used, never less than nothing.                     *)
IsSchedule(segments) ==
  /\ segments \in Seq({segments[i] : i \in DOMAIN segments})
  /\ \A i \in DOMAIN segments :
       /\ segments[i].days.range => {segments[i].days.from, segments[i].days.to} \subseteq Int
       /\ Days(segments[i].days) \subseteq 0 .. 6

IsEntry(e) ==
  /\ e.lifetime # None => e.lifetime \in Int
  /\ \A d \in DOMAIN e.drivers : e.drivers[d] \in Nat
  /\ e.schedule # None => IsSchedule(e.schedule)

EntriesOf(profile) ==
  {profile.defaults}
  \cup {profile.environments[n] : n \in DOMAIN profile.environments}
  \cup {profile.overrides[o] : o \in DOMAIN profile.overrides}

HasHours(e) == e.hours # None \/ e.schedule # None

ResolvedHours(e, convention) ==
  IF e.hours # None THEN e.hours
  ELSE IF e.schedule # None THEN ScheduledHours(e.schedule, convention)
  ELSE convention

-----------------------------------------------------------------------------
(* Overrides.                                                              *)

(* Where the construct ids of a path are: not the segments CDK adds, and    *)
(* not the stack.                                                          *)
ConstructIds(path) ==
  LET own == {i \in DOMAIN path.segments : path.segments[i] \notin {"Resource", "Default"}}
  IN  IF Cardinality(own) > 1 THEN own \ {Min(own)} ELSE own

(* The names an override of a resource may go by, the most specific at the  *)
(* least distance: its id, its path, its constructs from the innermost out. *)
Distances(path) ==
  IF path = None THEN {0}
  ELSE {0, 1} \cup {Len(path.segments) + 2 - i : i \in ConstructIds(path)}

NamesOf(id, path) ==
  [distance \in Distances(path) |->
    CASE distance = 0 -> id
      [] distance = 1 -> path.whole
      [] OTHER        -> path.segments[Len(path.segments) + 2 - distance]]

(* Where the overrides of a resource are among its names.                  *)
Overriding(profile, names) == {n \in DOMAIN names : names[n] \in DOMAIN profile.overrides}

(* Faulty variant: only logical IDs count as matched.                      *)
UnmatchedIds(profile, resources) ==
  DOMAIN profile.overrides \ {r.id : r \in resources}

(* The names under which an override counts as matched by a resource: a    *)
(* computation of its own, that shares the construct ids with the lookup.  *)
MatchedBy(r) ==
  {r.id} \cup
  IF r.path = None THEN {}
  ELSE {r.path.whole} \cup {r.path.segments[i] : i \in ConstructIds(r.path)}

(* The overrides a run warns about: no resource goes by that name.         *)
UnmatchedOverrides(profile, resources) ==
  DOMAIN profile.overrides \ UNION {MatchedBy(r) : r \in resources}

(* The entries that say something, most specific first: 1 the override, if  *)
(* there is one, 2 the environment, if it has an entry, 3 the defaults.    *)
Sources(profile, id, path, env) ==
  LET names == NamesOf(id, path)
      found == Overriding(profile, names)
  IN  [i \in {j \in 1 .. 3 : /\ j = 1 => found # {}
                             /\ j = 2 => env \in DOMAIN profile.environments} |->
        CASE i = 1 -> profile.overrides[names[Min(found)]]
          [] i = 2 -> profile.environments[env]
          [] i = 3 -> profile.defaults]

(* The first entry that sets a driver, and whether that is an override;    *)
(* None if no entry does.                                                  *)
DriverIn(src, driver) ==
  LET set == {i \in DOMAIN src : driver \in DOMAIN src[i].drivers}
  IN  IF set = {} THEN None
      ELSE [quantity |-> src[Min(set)].drivers[driver], own |-> Min(set) = 1]

ResolveDriver(profile, driver, id, path, env) == DriverIn(Sources(profile, id, path, env), driver)

(* The first entry that sets the hours, with the same precedence.          *)
HoursIn(src, convention) ==
  LET set == {i \in DOMAIN src : HasHours(src[i])}
  IN  IF set = {} THEN convention ELSE ResolvedHours(src[Min(set)], convention)

MonthlyHours(profile, id, path, env, convention) ==
  HoursIn(Sources(profile, id, path, env), convention)
=============================================================================
