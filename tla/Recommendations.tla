-------------------------- MODULE Recommendations --------------------------
(***************************************************************************)
(* The advice on a proposal (recommendations/): each rule looks for a      *)
(* pattern among the proposed resources and says what it costs, from the   *)
(* components of the report.  `resources` is a partial function from keys, *)
(* as in a snapshot.  A recommendation is [rule, resource, amount]: the    *)
(* resource None where it is about several, the amount None where nothing  *)
(* could be established.                                                   *)
(***************************************************************************)
EXTENDS Absence, Integers, SequencesExt, FiniteSetsExt

MaxRecommendations == 20

OfType(resources, types) == {k \in DOMAIN resources : resources[k].type \in types}

Costs(components, key, dimensions) ==
  {c \in components : c.resource = key /\ c.dimension \in dimensions /\ c.proposed # None}

Amount(components) ==
  IF components = {} THEN None ELSE SumFunction([c \in components |-> c.proposed])

(* Faulty variant: whichever resource the components belong to.            *)
CostOfAny(components, key, dimensions) ==
  Amount({c \in components : c.dimension \in dimensions /\ c.proposed # None})

CostOf(components, key, dimensions) == Amount(Costs(components, key, dimensions))

Advice(rule, key, amount) == [rule |-> rule, resource |-> key, amount |-> amount]

(* One recommendation for each resource that shows the pattern, by key.    *)
ForEach(rule, keys, components, dimensions) ==
  LET order == SetToSeq(keys)
  IN  [i \in DOMAIN order |-> Advice(rule, order[i], CostOf(components, order[i], dimensions))]

(* One for all of them together, if there are several.                     *)
ForAll(rule, keys, components, dimensions) ==
  IF Cardinality(keys) < 2 THEN <<>>
  ELSE <<Advice(rule, None, Amount(UNION {Costs(components, k, dimensions) : k \in keys}))>>

HasProperty(r, p) == p \in DOMAIN r.props
Declares(r, p, value) == HasProperty(r, p) /\ r.props[p] = value

UnboundedLogs(resources) ==
  {k \in OfType(resources, {"AWS::Logs::LogGroup"}) : ~HasProperty(resources[k], "RetentionInDays")}

(* The rules in the order of their findings.  A mode or volume type that    *)
(* is not written is not the pattern, even where it is the default.        *)
Findings(resources, components, environment) ==
  ForEach("unbounded-log-retention", UnboundedLogs(resources), components, {})
  \o ForEach("gp2-volume-type",
             {k \in OfType(resources, {"AWS::EC2::Volume"}) : Declares(resources[k], "VolumeType", "gp2")},
             components, {"Storage-GB-Month"})
  \o ForEach("public-ipv4-address", OfType(resources, {"AWS::EC2::EIP"}), components,
             {"PublicIPv4-Hours"})
  \o ForEach("nat-gateway-endpoints", OfType(resources, {"AWS::EC2::NatGateway"}), components,
             {"NatGateway-Hours", "NatGateway-Bytes"})
  \o ForEach("dynamodb-capacity-mode",
             {k \in OfType(resources, {"AWS::DynamoDB::Table"}) :
               Declares(resources[k], "BillingMode", "PROVISIONED")},
             components, {"ReadCapacityUnit-Hours", "WriteCapacityUnit-Hours"})
  \o ForAll("redundant-load-balancers",
            OfType(resources, {"AWS::ElasticLoadBalancingV2::LoadBalancer"}), components,
            {"LoadBalancer-Hours"})
  \o ForAll("eks-control-plane-count", OfType(resources, {"AWS::EKS::Cluster"}), components,
            {"Cluster-Hours"})
  \o (IF environment \in {None, "production"} THEN <<>>
      ELSE ForEach("always-on-non-production-compute",
                   OfType(resources, {"AWS::EC2::Instance", "AWS::RDS::DBInstance"}), components,
                   {"InstanceHours"}))

Recommend(resources, components, environment) ==
  LET found == Findings(resources, components, environment)
  IN  SubSeq(found, 1, Min({Len(found), MaxRecommendations}))

(* What the advice is about in all, if no two recommendations with an      *)
(* amount, zero included, are about the same resource or both about several. *)
TotalAddressable(advice) ==
  LET sums == {i \in DOMAIN advice : advice[i].amount # None}
  IN  IF sums = {} \/ \E i, j \in sums : i # j /\ advice[i].resource = advice[j].resource
      THEN None
      ELSE SumFunction([i \in sums |-> advice[i].amount])
=============================================================================
