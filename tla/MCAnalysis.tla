----------------------------- MODULE MCAnalysis -----------------------------
(***************************************************************************)
(* Promises for TLC.  The changes add, remove, move and replace priced      *)
(* resources, free and unsupported ones among them, with and without open   *)
(* properties; two configurations do not load.  Two keys have a live       *)
(* listing of up to three pages, one more than is walked.                   *)
(***************************************************************************)
EXTENDS Promises

R(t, id, tags, props) == [type |-> t, id |-> id, path |-> None, tags |-> tags, props |-> props]
Bare == [p \in {} |-> 0]
Prod == [environment |-> "prod"]
Dev == [environment |-> "dev"]

-----------------------------------------------------------------------------
(* Prices.                                                                 *)

NatHours == <<"AmazonVPC", "NatGateway-Hours">>
NatVolume == <<"AmazonVPC", "NatGateway-Bytes">>
Micro == <<"AmazonEC2", "InstanceHours", "micro", "Linux", "Shared">>
Large == <<"AmazonEC2", "InstanceHours", "large", "Linux", "Shared">>
Gp3 == <<"AmazonEC2", "EBS-Storage-GB-Month", "gp3">>
Gp3Iops == <<"AmazonEC2", "EBS-IOPS-Month", "gp3">>

Balancing == <<"AWSELB", "LoadBalancer-Hours", "application">>
Address == <<"AmazonVPC", "PublicIPv4-Hours">>
Reading == <<"AmazonDynamoDB", "ReadCapacityUnit-Hours", "PROVISIONED">>
ControlPlane == <<"AmazonEKS", "ControlPlane-Hours">>

MCPriceKey ==
  {NatHours, NatVolume, Micro, Large, Gp3, Gp3Iops, Balancing, Address, Reading, ControlPlane}
MCCatalog ==
  [k \in MCPriceKey \ {NatVolume, Micro} |->
    CASE k = NatHours -> 3 [] k = Address -> 0 [] OTHER -> 4]
MCMapped == {NatHours, Micro}
MCListings == {<<{}>>, <<{0, 3}>>, <<{3}, {4}>>, <<{4}, {}, {5}>>}

-----------------------------------------------------------------------------
(* Changes.                                                                *)

Nat1(id, tags) == R("AWS::EC2::NatGateway", id, tags, Bare)
Box(id, tags, size) == R("AWS::EC2::Instance", id, tags, [InstanceType |-> size])
Role(id) == R("AWS::IAM::Role", id, Bare, Bare)
Disk(id, iops) ==
  R("AWS::EC2::Volume", id, Dev, [VolumeType |-> "gp3", Size |-> 1, Iops |-> iops])
Queue(id) == R("AWS::SQS::Queue", id, Dev, Bare)

Plain(t, id, props) == R(t, id, Bare, props)

Balancer(id) == Plain("AWS::ElasticLoadBalancingV2::LoadBalancer", id, Bare)
Cluster(id) == Plain("AWS::EKS::Cluster", id, Bare)

(* What is advised on, one at a time and together: with an amount, with the *)
(* amount of a part, with an amount of zero, and without.                  *)
Advised ==
  {[a |-> Plain("AWS::EC2::EIP", "a", Bare), b |-> Balancer("b"), c |-> Balancer("c"),
    d |-> Box("d", Bare, "large")],
   [a |-> Plain("AWS::DynamoDB::Table", "a",
                [BillingMode |-> "PROVISIONED", ReadCapacityUnits |-> 2,
                 WriteCapacityUnits |-> Unresolved]),
    b |-> Cluster("b"), c |-> Cluster("c")]}

Of(b, p) == [baseline |-> b, proposed |-> p]
Nothing == [k \in {} |-> 0]

MCSnapshots ==
  {Of([a |-> Nat1("a", Prod)], [a |-> Nat1("a", Prod), b |-> Nat1("b", Dev)]),
   Of([a |-> Box("a", Prod, "micro")], [a |-> Box("a", Prod, "large")]),
   Of([a |-> Nat1("a", Prod)], [a |-> Nat1("a", Dev)]),
   Of([a |-> Box("a", Prod, "large")], [a |-> Nat1("a", Prod)]),
   Of([a |-> Nat1("a", Prod), b |-> Box("b", Bare, Unresolved)], Nothing),
   Of([a |-> Disk("a", 3000), b |-> Box("b", Dev, "large")],
      [a |-> Disk("a", 3000), b |-> Box("b", Dev, "large")]),
   Of(Nothing, [a |-> Role("a"), b |-> Box("b", Dev, "micro"), c |-> Queue("c")])}
  \cup {Of(Nothing, proposed) : proposed \in Advised}

VolumeSnapshots == {Of([a |-> Disk("a", 3010)], [a |-> Disk("a", Unresolved)])}

-----------------------------------------------------------------------------
(* Configurations.                                                         *)

E(hours, schedule, lifetime, drivers) ==
  [hours |-> hours, schedule |-> schedule, lifetime |-> lifetime, drivers |-> drivers]

PlainProfile == [defaults |-> NoEntry, environments |-> Bare, overrides |-> Bare]
DevProfile ==
  [defaults |-> E(None, None, None, [nat_processed_gb |-> 10]),
   environments |-> [dev |-> E(10, None, None, NoDrivers)],
   overrides |-> Bare]

B(id, scope, limit, w, a, b, cap) ==
  [id |-> id, scope |-> scope, limit |-> limit, warning |-> w, approval |-> a, blocking |-> b,
   cap |-> cap, capAction |-> "WARN", group |-> "finance", actual |-> None]

P(id, when, action, group) ==
  [id |-> id, scope |-> Bare, when |-> when, action |-> action, group |-> group]

MCCondition ==
  [dear    |-> [predicate |-> "monthly_cost_delta_greater_than", arg |-> 20],
   unclear |-> [predicate |-> "confidence_at_most", arg |-> "LOW"],
   either  |-> [predicate |-> "any_of", of |-> {"dear", "unclear"}],
   swapped |-> [predicate |-> "replaced_resource_types", arg |-> {"AWS::EC2::Instance"}],
   tagged  |-> [predicate |-> "required_tags_missing", arg |-> {"environment"}],
   neither |-> [predicate |-> "not", of |-> {"tagged"}],
   both    |-> [predicate |-> "all_of", of |-> {"swapped", "neither"}]]

MCSettings ==
  {[profile |-> PlainProfile, hours |-> 10, failOn |-> "REQUIRE_APPROVAL",
    budgets |-> {B("prod", Prod, 35, 50, 90, None, None), B("dev", Dev, 30, None, 50, 90, 5)},
    policies |-> {P("p", "dear", "WARN", None), P("q", "both", "BLOCK", None)}],
   [profile |-> DevProfile, hours |-> 20, failOn |-> "WARN",
    budgets |-> {B("all", Bare, 120, 25, 50, 80, None),
                 [B("prod", Prod, 0, 1, None, None, 3) EXCEPT !.actual = 7]},
    policies |-> {P("p", "either", "REQUIRE_APPROVAL", "platform")}],
   [profile |-> DevProfile, hours |-> 20, failOn |-> "BLOCK",
    budgets |-> {B("all", Bare, None, None, None, None, 3)},
    policies |-> {}],
   [profile |-> PlainProfile, hours |-> 20, failOn |-> "BLOCK",
    budgets |-> {B("all", Bare, None, 50, None, None, 3)}, policies |-> {}],
   [profile |-> PlainProfile, hours |-> 745, failOn |-> "BLOCK", budgets |-> {}, policies |-> {}]}
MCFallback == Dev
MCReplacing ==
  [t \in {"AWS::EC2::NatGateway", "AWS::EC2::Instance", "AWS::EC2::Volume"} |->
    IF t = "AWS::EC2::Instance" THEN {"InstanceType"} ELSE {}]

-----------------------------------------------------------------------------
(* Questions on estimates: each type, open where it may be, under a profile *)
(* with a lifetime, one with a schedule, and one for the resource itself.   *)

Weekdays == <<[days |-> [range |-> TRUE, from |-> 0, to |-> 4], start |-> 8, end |-> 20]>>
Shifts ==
  <<[days |-> [range |-> TRUE, from |-> 0, to |-> 5], start |-> 6, end |-> 14],
    [days |-> [range |-> FALSE, list |-> {0, 2, 6}], start |-> 14, end |-> 24]>>
Overlap == <<Weekdays[1], [Weekdays[1] EXCEPT !.start = 0]>>
Backwards == <<[Weekdays[1] EXCEPT !.days.to = 0, !.days.from = 3]>>

Volumes ==
  [d \in {"nat_processed_gb", "outbound_data_gb", "requests_per_month",
          "dynamodb_read_requests_per_month", "invocations_per_month", "average_duration_ms",
          "log_ingestion_gb", "storage_gb"} |-> 7]

Profiles ==
  {[defaults |-> E(None, None, None, Volumes), environments |-> [dev |-> E(None, Weekdays, None, NoDrivers)],
    overrides |-> Bare],
   [defaults |-> NoEntry, environments |-> [dev |-> E(100, None, None, [outbound_data_gb |-> 5])],
    overrides |-> [a |-> E(None, Shifts, None, Volumes), Api |-> E(20, None, None, [requests_per_month |-> 1]),
                   gone |-> E(None, None, None, Volumes)]],
   [defaults |-> E(300, None, None, NoDrivers), environments |-> [dev |-> E(None, None, 48, Volumes)],
    overrides |-> [whole |-> E(None, Shifts, None, [storage_gb |-> 9])]]}

Asking(profile) == [profile |-> profile, hours |-> 730, context |-> Dev]

Inner(segments) == [whole |-> "whole", segments |-> segments]

Resource(t, props) == R(t, "a", Bare, props)

EstimateResources ==
  {Resource("AWS::EC2::Instance", [InstanceType |-> Unresolved]),
   Resource("AWS::EC2::Volume", [Size |-> Unresolved, VolumeType |-> "gp3", Throughput |-> 200]),
   Resource("AWS::EKS::Cluster", Bare),
   Resource("AWS::EC2::NatGateway", Bare),
   Resource("AWS::EC2::EIP", Bare),
   Resource("AWS::ElasticLoadBalancingV2::LoadBalancer", Bare),
   Resource("AWS::RDS::DBInstance",
     [DBInstanceClass |-> "db.small", Engine |-> Unresolved, AllocatedStorage |-> 20,
      StorageType |-> Unresolved, BackupRetentionPeriod |-> 7]),
   Resource("AWS::RDS::DBInstance",
     [DBInstanceClass |-> "db.small", Engine |-> "postgres", MultiAZ |-> Unresolved,
      AllocatedStorage |-> Unresolved]),
   Resource("AWS::Lambda::Function", Bare),
   Resource("AWS::ApiGatewayV2::Api", [ProtocolType |-> Unresolved]),
   Resource("AWS::ApiGateway::RestApi", Bare),
   Resource("AWS::DynamoDB::Table", [ReadCapacityUnits |-> Unresolved, WriteCapacityUnits |-> 5]),
   Resource("AWS::DynamoDB::Table", [BillingMode |-> "PAY_PER_REQUEST"]),
   Resource("AWS::S3::Bucket", Bare),
   Resource("AWS::Logs::LogGroup", [RetentionInDays |-> Unresolved]),
   Resource("AWS::CloudWatch::Alarm", [Period |-> 30]),
   Resource("AWS::SQS::Queue", Bare)}

MCPropertyValues ==
  [InstanceType |-> {"micro", "large"}, Size |-> {8, 100}, DBInstanceClass |-> {"db.small"},
   Engine |-> {"postgres", "mysql"}, MultiAZ |-> {TRUE, FALSE}, StorageType |-> {"gp2", "gp3"},
   AllocatedStorage |-> {20, 40}, ReadCapacityUnits |-> {1, 5}, WriteCapacityUnits |-> {1, 5},
   ProtocolType |-> {"HTTP", "WEBSOCKET"}, RetentionInDays |-> {1, 30}, Iops |-> {3000, 3010}]

EstimateQuestions ==
  {[about |-> "estimate", resource |-> r, context |-> Asking(p)] :
     r \in EstimateResources, p \in Profiles}

ProfileQuestions ==
  {[about |-> "profile", context |-> Asking(p),
    resources |-> {R("AWS::S3::Bucket", "b", tags, Bare),
                   [R("AWS::ApiGateway::RestApi", "c", tags, Bare) EXCEPT !.path = Inner(path)]}] :
     p \in Profiles, tags \in {Bare, Prod},
     path \in {<<"Stack", "Api", "Resource">>, <<"Stack", "Service", "Rest">>, <<"Api", "Default">>}}

ScheduleQuestions ==
  {[about |-> "schedule", segments |-> s, hours |-> h] :
     s \in {Weekdays, Shifts, Overlap, Backwards, <<>>}, h \in {672, 730, 744}}

-----------------------------------------------------------------------------
(* One document, with every intrinsic, a cyclic condition included.        *)

MCExpression ==
  [production |-> [op |-> "text", text |-> <<"prod">>],
   true       |-> [op |-> "text", text |-> <<"true">>],
   large      |-> [op |-> "text", text |-> <<"large">>],
   small      |-> [op |-> "text", text |-> <<"small">>],
   zero       |-> [op |-> "text", text |-> <<"0">>],
   one        |-> [op |-> "text", text |-> <<"1">>],
   minus      |-> [op |-> "text", text |-> <<"-1">>],
   sizes      |-> [op |-> "text", text |-> <<"sizes">>],
   class      |-> [op |-> "text", text |-> <<"class">>],
   env        |-> [op |-> "ref", name |-> "Env"],
   flag       |-> [op |-> "ref", name |-> "Flag"],
   partition  |-> [op |-> "ref", name |-> "AWS::Region"],
   bucket     |-> [op |-> "attribute", name |-> "Bucket"],
   none       |-> [op |-> "ref", name |-> "AWS::NoValue"],
   isProd     |-> [op |-> "equals", of |-> <<"env", "production">>],
   isFlag     |-> [op |-> "equals", of |-> <<"flag", "true">>],
   prodMet    |-> [op |-> "condition", name |-> "IsProd"],
   flagMet    |-> [op |-> "condition", name |-> "IsFlag"],
   notProd    |-> [op |-> "not", of |-> <<"prodMet">>],
   both       |-> [op |-> "and", of |-> <<"prodMet", "flagMet">>],
   either     |-> [op |-> "or", of |-> <<"notProd", "flagMet">>],
   loop       |-> [op |-> "and", of |-> <<"loopMet", "flagMet">>],
   loopMet    |-> [op |-> "condition", name |-> "Loop"],
   size       |-> [op |-> "if", condition |-> "IsProd", yes |-> "large", no |-> "small"],
   nested     |-> [op |-> "if", condition |-> "Both", yes |-> "size", no |-> "none"],
   other      |-> [op |-> "if", condition |-> "Either", yes |-> "small", no |-> "large"],
   parts      |-> [op |-> "list", of |-> <<"size", "env">>],
   name       |-> [op |-> "join", delimiter |-> "-", of |-> "parts"],
   label      |-> [op |-> "sub", of |-> <<"partition", "flag">>],
   byEnv      |-> [op |-> "map", of |-> <<"sizes", "env", "class">>],
   first      |-> [op |-> "select", index |-> "zero", of |-> "cut"],
   second     |-> [op |-> "select", index |-> "one", of |-> "parts"],
   last       |-> [op |-> "select", index |-> "minus", of |-> "cut"],
   letter     |-> [op |-> "select", index |-> "zero", of |-> "name"],
   beyond     |-> [op |-> "select", index |-> "one", of |-> "env"],
   cut        |-> [op |-> "split", delimiter |-> "-", of |-> "name"],
   isFirst    |-> [op |-> "equals", of |-> <<"first", "byEnv">>],
   import     |-> [op |-> "import"]]

MCConditions ==
  [IsProd |-> "isProd", IsFlag |-> "isFlag", Both |-> "both", Either |-> "either",
   Loop |-> "loop", IsFirst |-> "isFirst"]
MCMappings ==
  (<<<<"sizes">>, <<"prod">>, <<"class">>>> :> "large")
  @@ (<<<<"sizes">>, <<"dev">>, <<"class">>>> :> "size")
MCParameters == {"Env", "Flag"}
MCParameterTexts == {<<"prod">>, <<"dev">>, <<"true">>}
MCResources == {"Bucket"}
MCPseudo == ("AWS::Region" :> <<"eu">>)

TemplateQuestions ==
  {[about |-> "template", given |-> Given(supplied, [p \in d |-> <<"true">>])] :
     supplied \in UNION {[s -> MCParameterTexts] : s \in SUBSET MCParameters},
     d \in {{}, {"Flag"}}}

-----------------------------------------------------------------------------
(* Predictions: as many as the minimum, or one less, and others that cannot *)
(* be compared.                                                             *)

Prediction(n, app, day, tagged, services) ==
  [fingerprint |-> n, application |-> app, deployed |-> day, tagged |-> tagged, services |-> services]

Good ==
  <<Prediction(1, "a", 3, 2, [ec2 |-> 100]),
    Prediction(2, "b", 8, None, [ec2 |-> 40, rds |-> 60]),
    Prediction(3, "c", 9, 9, [ec2 |-> 90]),
    Prediction(4, "d", 1, 0, [rds |-> 0 - 50]),
    Prediction(5, "e", 5, 5, [rds |-> 0]),
    Prediction(6, "f", 5, 5, [ec2 |-> 80])>>
Bad ==
  <<Prediction(7, None, 3, 3, [ec2 |-> 10]),
    Prediction(8, "a", None, 3, [ec2 |-> 10]),
    Prediction(9, "a", 11, 3, [ec2 |-> 10]),
    Prediction(10, "a", 3, 4, [ec2 |-> 10]),
    Prediction(11, "z", 3, 3, [ec2 |-> 10])>>

MCBill ==
  (<<0, "a">> :> [ec2 |-> 120]) @@ (<<0, "b">> :> [ec2 |-> 40, rds |-> 70])
  @@ (<<0, "c">> :> [ec2 |-> 60, s3 |-> 5]) @@ (<<0, "d">> :> [rds |-> 30])
  @@ (<<0, "e">> :> [rds |-> 4]) @@ (<<0, "f">> :> [ec2 |-> 84]) @@ (<<1, "a">> :> [ec2 |-> 9])

FeedbackQuestions ==
  {[about |-> "feedback", records |-> SubSeq(Good, 1, n) \o SubSeq(Bad, 1, m), today |-> day,
    bill |-> MCBill] : n \in 3 .. 6, m \in 0 .. 5, day \in {9, 11, 12}}

-----------------------------------------------------------------------------
(* Catalogs: as locked, and with a file changed, added or removed.         *)

Rate(d, a, rate) == [dimension |-> d, attributes |-> a, rate |-> rate]
File(service, prices) ==
  [valid |-> TRUE, service |-> service, region |-> "us-east-1", prices |-> prices]

Locked ==
  [f \in {Manifest, "ec2.yaml", "vpc.yaml"} |->
    CASE f = Manifest   -> [valid |-> TRUE]
      [] f = "ec2.yaml" -> File("AmazonEC2", <<Rate("hours", "micro", 1), Rate("hours", "large", 4)>>)
      [] f = "vpc.yaml" -> File("AmazonVPC", <<Rate("hours", "nat", 3)>>)]

Edited ==
  {File("AmazonVPC", <<Rate("hours", "nat", 3)>>), File("AmazonVPC", <<Rate("hours", "nat", 5)>>),
   File("AmazonVPC", <<Rate("hours", "nat", 3), Rate("hours", "nat", 5)>>),
   File("AmazonEC2", <<Rate("hours", "micro", 2)>>), [valid |-> FALSE]}

CatalogQuestions ==
  {[about |-> "catalog", catalog |-> c, locked |-> Locked] :
     c \in {Locked, (Manifest :> [valid |-> FALSE]) @@ Locked}
           \cup {(f :> content) @@ Locked : f \in {"vpc.yaml", "new.yaml"}, content \in Edited}
           \cup {[f \in DOMAIN Locked \ {g} |-> Locked[f]] : g \in DOMAIN Locked}}

-----------------------------------------------------------------------------

MCQuestions ==
  EstimateQuestions \cup ProfileQuestions \cup ScheduleQuestions \cup TemplateQuestions
  \cup FeedbackQuestions \cup CatalogQuestions
=============================================================================
