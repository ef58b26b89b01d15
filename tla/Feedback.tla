------------------------------ MODULE Feedback ------------------------------
(***************************************************************************)
(* The feedback loop (feedback/): predictions of past changes set against  *)
(* what was billed.  Days are counted; a month has MonthDays of them.  A   *)
(* record is [fingerprint, application, deployed, tagged, services], None  *)
(* where it does not say, services a partial function to predicted deltas. *)
(* A bill is a partial function from months and applications to what each  *)
(* service cost.                                                           *)
(***************************************************************************)
EXTENDS Absence, Integers, SequencesExt, FiniteSetsExt

CONSTANT MonthDays

MinimumComparisons == 5
BiasPercent == 5
BillingLagDays == 1

Month(day) == day \div MonthDays

(* What was billed for a record: the month it was deployed in.             *)
Window(record) == <<Month(record.deployed), record.application>>

SettledWindow(today, deployed) ==
  IF deployed = None THEN "NOT_DEPLOYED"
  ELSE IF today - deployed < BillingLagDays THEN "BILLING_INCOMPLETE"
  ELSE IF Month(today) = Month(deployed) THEN "PARTIAL_MONTH"
  ELSE "COMPARABLE"

TagsWereActive(record) ==
  record.tagged = None \/ record.deployed = None \/ record.tagged <= record.deployed

(* Amounts by service.                                                     *)
IsBreakdown(amounts) == IsFiniteSet(DOMAIN amounts) /\ \A s \in DOMAIN amounts : amounts[s] \in Int

Total(amounts) == SumFunction(amounts)

NoServices == [s \in {} |-> 0]

(* Whether what was billed can be compared with a prediction, or why not.  *)
Comparability(record, today, bill) ==
  LET status == SettledWindow(today, record.deployed)
  IN  IF status # "COMPARABLE" THEN status
      ELSE IF ~TagsWereActive(record) THEN "TAGS_NOT_ACTIVE"
      ELSE IF Window(record) \notin DOMAIN bill THEN "UNATTRIBUTED"
      ELSE "COMPARABLE"

(* What was billed for a prediction: nothing, if it is not to be compared.  *)
Observe(record, today, bill) ==
  LET status == Comparability(record, today, bill)
      services == IF status = "COMPARABLE" THEN bill[Window(record)] ELSE NoServices
  IN  [record |-> record, comparability |-> status,
       observed |-> Total(services), services |-> services]

(* Faulty variant: a pair that cannot be compared is left out.             *)
ObservationsComparable(records, today, bill) ==
  [i \in {j \in DOMAIN records : /\ records[j].application # None
                                 /\ Comparability(records[j], today, bill) = "COMPARABLE"} |->
    Observe(records[i], today, bill)]

(* The observations, by the place of the prediction: of every prediction   *)
(* that says for which application it is, since nothing can be asked of    *)
(* the others.                                                             *)
ObservationsFor(records, today, bill) ==
  [i \in {j \in DOMAIN records : records[j].application # None} |-> Observe(records[i], today, bill)]

-----------------------------------------------------------------------------

(* Halves away from zero, in tenths of a percent; the divisor positive.    *)
RoundedRatio(n, d) ==
  IF n >= 0 THEN (2 * n + d) \div (2 * d) ELSE 0 - (d - 2 * n) \div (2 * d)

Percent(predicted, observed) ==
  IF predicted = 0 THEN None
  ELSE IF predicted > 0 THEN RoundedRatio((observed - predicted) * 1000, predicted)
  ELSE RoundedRatio((predicted - observed) * 1000, -predicted)

Compare(o) ==
  LET predicted == Total(o.record.services)
  IN  [fingerprint |-> o.record.fingerprint, comparability |-> o.comparability,
       error |-> o.observed - predicted, percent |-> Percent(predicted, o.observed)]

Counted(comparisons) == {i \in DOMAIN comparisons : comparisons[i].comparability = "COMPARABLE"}

(* Where the quantile of n values is in their order, from 0: the nearest   *)
(* rank, a half rounded up.                                                *)
RankOf(n, tenths) == (2 * tenths * (n - 1) + 10) \div 20

(* Faulty variant: ranks are counted from the end.                         *)
QuantileUp(values, tenths) ==
  LET rank == RankOf(Cardinality(DOMAIN values), tenths)
  IN  IF DOMAIN values = {} THEN None
      ELSE CHOOSE v \in Range(values) :
             /\ Cardinality({i \in DOMAIN values : values[i] > v}) <= rank
             /\ rank < Cardinality({i \in DOMAIN values : values[i] >= v})

(* Nearest rank: the value that has so many before it, and not one in      *)
(* between two.                                                            *)
Quantile(values, tenths) ==
  LET rank == RankOf(Cardinality(DOMAIN values), tenths)
  IN  IF DOMAIN values = {} THEN None
      ELSE CHOOSE v \in Range(values) :
             /\ Cardinality({i \in DOMAIN values : values[i] < v}) <= rank
             /\ rank < Cardinality({i \in DOMAIN values : values[i] <= v})

Percentages(comparisons) ==
  [i \in {j \in Counted(comparisons) : comparisons[j].percent # None} |-> comparisons[i].percent]

(* A service is scored over the pairs that predicted it and were billed it. *)
ServiceErrors(observations, service) ==
  LET error(i) == Percent(observations[i].record.services[service], observations[i].services[service])
      scored == {i \in DOMAIN observations :
                  /\ observations[i].comparability = "COMPARABLE"
                  /\ service \in DOMAIN observations[i].record.services \cap DOMAIN observations[i].services}
  IN  [i \in {j \in scored : error(j) # None} |-> error(i)]

Bias(median) ==
  IF median = None THEN "unknown"
  ELSE IF median > BiasPercent * 10 THEN "underestimates"
  ELSE IF median < -BiasPercent * 10 THEN "overestimates"
  ELSE "no clear bias"

Summarise(observations) ==
  LET comparisons == [i \in DOMAIN observations |-> Compare(observations[i])]
      values == Percentages(comparisons)
      enough == Cardinality(Counted(comparisons)) >= MinimumComparisons
      reasons == {comparisons[i].comparability : i \in DOMAIN comparisons \ Counted(comparisons)}
      spread(tenths) == IF enough THEN Quantile(values, tenths) ELSE None
  IN  [counted |-> Cardinality(Counted(comparisons)),
       excluded |-> [r \in reasons |->
                      Cardinality({i \in DOMAIN comparisons : comparisons[i].comparability = r})],
       p10 |-> spread(1), median |-> spread(5), p90 |-> spread(9),
       services |-> [s \in UNION {DOMAIN o.record.services \cap DOMAIN o.services :
                                    o \in {p \in Range(observations) : p.comparability = "COMPARABLE"}}
                       |-> Bias(Quantile(ServiceErrors(observations, s), 5))]]
=============================================================================
