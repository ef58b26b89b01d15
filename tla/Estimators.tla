----------------------------- MODULE Estimators -----------------------------
(***************************************************************************)
(* The estimators (estimators/): what a resource in one state is charged   *)
(* for.  A resource is [type, id, path, tags, props]: tags a partial       *)
(* function from tags to values, props one from property names to values,  *)
(* Unresolved where the value is not known before deployment.  A context x *)
(* is [profile, hours, context]: what the run estimates with, context the  *)
(* attribution of the run.                                                 *)
(*                                                                         *)
(* An estimate is a sequence of charges, in the order in which the code    *)
(* prices them: a dimension, the key to ask the price of, a quantity and   *)
(* a confidence.  A dimension that cannot be established has no key.       *)
(* Quantities are counted in units that keep them whole: MB-milliseconds   *)
(* for the GB-seconds of a function, GB-days for the volume of retained    *)
(* logs.                                                                   *)
(***************************************************************************)
EXTENDS Usage

CONSTANT Unresolved  \* a property that depends on the deployment

Set(r, p) == p \in DOMAIN r.props
Open(r, p) == Set(r, p) /\ r.props[p] = Unresolved
Known(r, p) == Set(r, p) /\ r.props[p] # Unresolved
ValueOr(r, p, default) == IF Known(r, p) THEN r.props[p] ELSE default

(* Absent and unresolved are the same to as_decimal; callers tell them     *)
(* apart, or do not.                                                       *)
AsDecimal(r, p) == ValueOr(r, p, None)

(* A resource as it is read: the segments of its path are texts, and a      *)
(* property whose figure is charged for is a number, or None if it cannot   *)
(* be read as one.                                                         *)
Figures ==
  {"Size", "Iops", "Throughput", "AllocatedStorage", "MemorySize", "ReadCapacityUnits",
   "WriteCapacityUnits", "RetentionInDays"}

WellNamed(r) == r.path # None => r.path.segments \in Seq(STRING)

IsResource(r) ==
  /\ WellNamed(r)
  /\ \A p \in Figures \cap DOMAIN r.props : r.props[p] \in {Unresolved, None} \cup Int

Charge(d, key, quantity, confidence, usage) ==
  [dimension |-> d, key |-> key, quantity |-> quantity, confidence |-> confidence, usage |-> usage]

Fixed(d, key, quantity, confidence) == Charge(d, key, quantity, confidence, FALSE)
ByUsage(d, key, quantity, confidence) == Charge(d, key, quantity, confidence, TRUE)
UnknownCharge(d) == Charge(d, None, None, "UNKNOWN", FALSE)

-----------------------------------------------------------------------------
(* What an estimator knows about its resource's use (estimators/base.py).  *)

Attributes == {"environment", "application", "team", "cost_centre"}

(* A tag decides before what the run was told (parsers/normalize.py).      *)
ContextOf(r, default) ==
  [d \in (DOMAIN r.tags \cap Attributes) \cup DOMAIN default |->
    IF d \in DOMAIN r.tags THEN r.tags[d] ELSE default[d]]

EnvOf(r, x) ==
  LET context == ContextOf(r, x.context)
  IN  IF "environment" \in DOMAIN context THEN context["environment"] ELSE None

(* An ephemeral environment has a lifetime; what cannot be stopped runs    *)
(* for as long as it exists, and only instances follow a schedule.         *)
RuntimeHours(r, x, basis) ==
  LET env == EnvOf(r, x)
      entries == x.profile.environments
  IN  IF env \in DOMAIN entries /\ entries[env].lifetime # None THEN entries[env].lifetime
      ELSE IF basis = "ALWAYS_ON" THEN x.hours
      ELSE MonthlyHours(x.profile, r.id, r.path, env, x.hours)

(* A driver of a resource that goes by its id and by a path.               *)
DriverAt(r, path, x, name) == ResolveDriver(x.profile, name, r.id, path, EnvOf(r, x))

Driver(r, x, name) == DriverAt(r, r.path, x, name)

(* A figure for a whole environment is nobody's in particular.             *)
OwnDriver(r, x, name) ==
  LET found == Driver(r, x, name)
  IN  IF found # None /\ found.own THEN found ELSE None

(* A charge for a volume that only the usage profile can tell.             *)
Volume(driver, d, key, confidence) ==
  IF driver = None THEN UnknownCharge(d) ELSE ByUsage(d, key, driver.quantity, confidence)

-----------------------------------------------------------------------------
(* Compute (estimators/compute.py).                                        *)

Ec2Charges(r, x) ==
  IF ~Known(r, "InstanceType") THEN <<UnknownCharge("InstanceHours")>>
  ELSE <<Fixed("InstanceHours",
               <<"AmazonEC2", "InstanceHours", r.props["InstanceType"], "Linux",
                 ValueOr(r, "Tenancy", "Shared")>>,
               RuntimeHours(r, x, "STOPPABLE"), "LOW")>>

EbsCapacity(r, type) ==
  IF AsDecimal(r, "Size") = None THEN UnknownCharge("EBS-Storage-GB-Month")
  ELSE Fixed("EBS-Storage-GB-Month", <<"AmazonEC2", "EBS-Storage-GB-Month", type>>,
             r.props["Size"], "HIGH")

Included(type, p) ==
  IF p = "Throughput" THEN 125 ELSE IF type = "gp3" THEN 3000 ELSE 0

(* A performance property that is not known adds no charge at all.         *)
EbsExtra(r, type, p, d) ==
  IF AsDecimal(r, p) = None \/ r.props[p] <= Included(type, p) THEN <<>>
  ELSE <<Fixed(d, <<"AmazonEC2", d, type>>, r.props[p] - Included(type, p), "HIGH")>>

EbsCharges(r) ==
  IF Open(r, "VolumeType") THEN <<UnknownCharge("EBS-Storage-GB-Month")>>
  ELSE LET type == ValueOr(r, "VolumeType", "gp2")
       IN  <<EbsCapacity(r, type)>>
           \o EbsExtra(r, type, "Iops", "EBS-IOPS-Month")
           \o EbsExtra(r, type, "Throughput", "EBS-Throughput-Month")

(* Faulty variant: a cluster is switched off at night.                     *)
EksScheduled(r, x) ==
  <<Fixed("ControlPlane-Hours", <<"AmazonEKS", "ControlPlane-Hours">>,
          RuntimeHours(r, x, "STOPPABLE"), "MEDIUM")>>

EksCharges(r, x) ==
  <<Fixed("ControlPlane-Hours", <<"AmazonEKS", "ControlPlane-Hours">>,
          RuntimeHours(r, x, "ALWAYS_ON"), "MEDIUM")>>

-----------------------------------------------------------------------------
(* Network (estimators/network.py).                                        *)

(* The volume is looked up by logical ID only.                             *)
NatBytes(r, x) ==
  Volume(DriverAt(r, None, x, "nat_processed_gb"), "NatGateway-Bytes",
         <<"AmazonVPC", "NatGateway-Bytes">>, "MEDIUM")

NatCharges(r, x) ==
  <<Fixed("NatGateway-Hours", <<"AmazonVPC", "NatGateway-Hours">>,
          RuntimeHours(r, x, "ALWAYS_ON"), "MEDIUM"),
    NatBytes(r, x)>>

EipCharges(r, x) ==
  <<Fixed("PublicIPv4-Hours", <<"AmazonVPC", "PublicIPv4-Hours">>,
          RuntimeHours(r, x, "ALWAYS_ON"), "MEDIUM")>>

BalancerEgress(r, x) ==
  Volume(OwnDriver(r, x, "outbound_data_gb"), "DataTransfer-Out-GB",
         <<"AWSDataTransfer", "DataTransfer-Out-GB", "internet">>, "LOW")

BalancerCharges(r, x) ==
  IF Open(r, "Type") THEN <<UnknownCharge("LoadBalancer-Hours")>>
  ELSE <<Fixed("LoadBalancer-Hours",
               <<"AWSELB", "LoadBalancer-Hours", ValueOr(r, "Type", "application")>>,
               RuntimeHours(r, x, "ALWAYS_ON"), "MEDIUM"),
         UnknownCharge("LCU-Hours"),
         BalancerEgress(r, x)>>

-----------------------------------------------------------------------------
(* Databases (estimators/database.py).                                     *)

(* Faulty variant: a deployment not known to be Multi-AZ is Single-AZ.     *)
RdsInstanceGuessed(r, x) ==
  IF ~Known(r, "DBInstanceClass") \/ ~Known(r, "Engine") THEN UnknownCharge("InstanceHours")
  ELSE Fixed("InstanceHours",
             <<"AmazonRDS", "InstanceHours", r.props["DBInstanceClass"], r.props["Engine"],
               IF ValueOr(r, "MultiAZ", FALSE) THEN "Multi-AZ" ELSE "Single-AZ">>,
             RuntimeHours(r, x, "STOPPABLE"), "MEDIUM")

RdsInstance(r, x) ==
  IF ~Known(r, "DBInstanceClass") \/ ~Known(r, "Engine") \/ Open(r, "MultiAZ")
  THEN UnknownCharge("InstanceHours")
  ELSE Fixed("InstanceHours",
             <<"AmazonRDS", "InstanceHours", r.props["DBInstanceClass"], r.props["Engine"],
               IF ValueOr(r, "MultiAZ", FALSE) THEN "Multi-AZ" ELSE "Single-AZ">>,
             RuntimeHours(r, x, "STOPPABLE"), "MEDIUM")

RdsStorage(r) ==
  IF AsDecimal(r, "AllocatedStorage") = None \/ Open(r, "StorageType")
  THEN UnknownCharge("Storage-GB-Month")
  ELSE Fixed("Storage-GB-Month",
             <<"AmazonRDS", "Storage-GB-Month", ValueOr(r, "StorageType", "gp2")>>,
             r.props["AllocatedStorage"], "HIGH")

(* Backups that are retained may exceed what is included.                  *)
RdsBackup(r) ==
  IF AsDecimal(r, "BackupRetentionPeriod") = None \/ r.props["BackupRetentionPeriod"] <= 0
  THEN <<>>
  ELSE <<UnknownCharge("BackupStorage-GB-Month")>>

RdsCharges(r, x) == <<RdsInstance(r, x), RdsStorage(r)>> \o RdsBackup(r)

-----------------------------------------------------------------------------
(* Serverless (estimators/serverless.py).                                  *)

LambdaMemory(r, x) ==
  LET profiled == Driver(r, x, "allocated_memory_mb")
  IN  IF AsDecimal(r, "MemorySize") # None THEN r.props["MemorySize"]
      ELSE IF profiled # None THEN profiled.quantity
      ELSE 128

LambdaDuration(r, x, arch, invocations) ==
  LET duration == Driver(r, x, "average_duration_ms")
  IN  IF invocations = None \/ duration = None THEN UnknownCharge("GB-Seconds")
      ELSE ByUsage("GB-Seconds", <<"AWSLambda", "GB-Seconds", arch>>,
                   invocations.quantity * duration.quantity * LambdaMemory(r, x), "LOW")

LambdaCharges(r, x) ==
  IF Open(r, "Architectures/0") THEN <<UnknownCharge("Requests")>>
  ELSE LET arch == ValueOr(r, "Architectures/0", "x86_64")
           invocations == Driver(r, x, "invocations_per_month")
       IN  <<Volume(invocations, "Requests", <<"AWSLambda", "Requests", arch>>, "MEDIUM"),
             LambdaDuration(r, x, arch, invocations)>>

ApiRequests(r, x, api) ==
  Volume(Driver(r, x, "requests_per_month"), "Requests",
         <<"AmazonApiGateway", "Requests", api>>, "MEDIUM")

ApiCharges(r, x) ==
  IF Open(r, "ProtocolType") THEN <<UnknownCharge("Requests")>>
  ELSE <<ApiRequests(r, x, ValueOr(r, "ProtocolType", "HTTP"))>>

RestApiCharges(r, x) == <<ApiRequests(r, x, "REST")>>

-----------------------------------------------------------------------------
(* Storage and observability (estimators/storage.py).                      *)

Provisioned(r, x, p, d) ==
  IF AsDecimal(r, p) = None THEN UnknownCharge(d)
  ELSE Fixed(d, <<"AmazonDynamoDB", d, "PROVISIONED">>,
             r.props[p] * RuntimeHours(r, x, "ALWAYS_ON"), "MEDIUM")

OnDemand(r, x, driver, d) ==
  Volume(Driver(r, x, driver), d, <<"AmazonDynamoDB", d, "PAY_PER_REQUEST">>, "MEDIUM")

TableStorage(r, x) ==
  Volume(Driver(r, x, "dynamodb_storage_gb"), "Storage-GB-Month",
         <<"AmazonDynamoDB", "Storage-GB-Month", "STANDARD">>, "MEDIUM")

TableCharges(r, x) ==
  (IF Open(r, "BillingMode") THEN <<UnknownCharge("BillingMode")>>
   ELSE IF ValueOr(r, "BillingMode", "PROVISIONED") = "PAY_PER_REQUEST"
   THEN <<OnDemand(r, x, "dynamodb_read_requests_per_month", "ReadRequestUnits"),
          OnDemand(r, x, "dynamodb_write_requests_per_month", "WriteRequestUnits")>>
   ELSE <<Provisioned(r, x, "ReadCapacityUnits", "ReadCapacityUnit-Hours"),
          Provisioned(r, x, "WriteCapacityUnits", "WriteCapacityUnit-Hours")>>)
  \o <<TableStorage(r, x)>>

BucketVolume(r, x, driver, d, confidence) ==
  Volume(Driver(r, x, driver), d, <<"AmazonS3", d, "STANDARD">>, confidence)

BucketCharges(r, x) ==
  <<BucketVolume(r, x, "storage_gb", "Storage-GB-Month", "LOW"),
    BucketVolume(r, x, "s3_put_requests_per_month", "PutRequests", "MEDIUM"),
    BucketVolume(r, x, "s3_get_requests_per_month", "GetRequests", "MEDIUM")>>

(* Without a retention period nothing bounds what is kept.                 *)
LogRetained(r, ingestion) ==
  IF AsDecimal(r, "RetentionInDays") = None \/ ingestion = None
  THEN UnknownCharge("Logs-Storage-GB-Month")
  ELSE ByUsage("Logs-Storage-GB-Month", <<"AmazonCloudWatch", "Logs-Storage-GB-Month">>,
               ingestion.quantity * r.props["RetentionInDays"], "LOW")

LogCharges(r, x) ==
  LET ingestion == Driver(r, x, "log_ingestion_gb")
  IN  <<Volume(ingestion, "Logs-Ingestion-GB",
               <<"AmazonCloudWatch", "Logs-Ingestion-GB", ValueOr(r, "LogGroupClass", "STANDARD")>>,
               "MEDIUM"),
        LogRetained(r, ingestion)>>

AlarmCharges(r) ==
  LET period == AsDecimal(r, "Period")
      resolution == IF period # None /\ period < 60 THEN "HIGH" ELSE "STANDARD"
  IN  <<Fixed("Alarm-Month", <<"AmazonCloudWatch", "Alarm-Month", resolution>>, 1,
              IF period = None THEN "MEDIUM" ELSE "HIGH")>>

-----------------------------------------------------------------------------
(* The registry (estimators/registry.py): types without a charge of their  *)
(* own, represented by a few, and all others, which are reported rather    *)
(* than taken to be free.                                                  *)

CostFreeTypes == {"AWS::EC2::VPC", "AWS::IAM::Role", "AWS::CDK::Metadata"}

Unsupported(r) == IF r.type \in CostFreeTypes THEN <<>> ELSE <<UnknownCharge("Unsupported")>>

Estimate(r, x) ==
  CASE r.type = "AWS::EC2::Instance"       -> Ec2Charges(r, x)
    [] r.type = "AWS::EC2::Volume"         -> EbsCharges(r)
    [] r.type = "AWS::EKS::Cluster"        -> EksCharges(r, x)
    [] r.type = "AWS::EC2::NatGateway"     -> NatCharges(r, x)
    [] r.type = "AWS::EC2::EIP"            -> EipCharges(r, x)
    [] r.type = "AWS::ElasticLoadBalancingV2::LoadBalancer" -> BalancerCharges(r, x)
    [] r.type = "AWS::RDS::DBInstance"     -> RdsCharges(r, x)
    [] r.type = "AWS::Lambda::Function"    -> LambdaCharges(r, x)
    [] r.type = "AWS::ApiGatewayV2::Api"   -> ApiCharges(r, x)
    [] r.type = "AWS::ApiGateway::RestApi" -> RestApiCharges(r, x)
    [] r.type = "AWS::DynamoDB::Table"     -> TableCharges(r, x)
    [] r.type = "AWS::S3::Bucket"          -> BucketCharges(r, x)
    [] r.type = "AWS::Logs::LogGroup"      -> LogCharges(r, x)
    [] r.type = "AWS::CloudWatch::Alarm"   -> AlarmCharges(r)
    [] OTHER                               -> Unsupported(r)

-----------------------------------------------------------------------------
(* Completions: the ways a deployment may settle what the template left    *)
(* open, given the values each property may take.  A choice gives every     *)
(* open property one of its settlements, <<property, value>>.              *)

OpenProps(r) == {p \in DOMAIN r.props : Open(r, p)}

Completed(r, choice) ==
  [type |-> r.type, id |-> r.id, path |-> r.path, tags |-> r.tags,
   props |-> [p \in DOMAIN r.props |-> IF Open(r, p) THEN choice[p][2] ELSE r.props[p]]]

Completions(r, values) ==
  {Completed(r, choice) : choice \in
    {f \in [OpenProps(r) -> UNION {{p} \X values[p] : p \in OpenProps(r)}] :
      \A p \in OpenProps(r) : f[p][1] = p}}

ChargesOf(r, x) == ToSet(Estimate(r, x))

(* The charges of r agree with those of a completion c: what c is charged  *)
(* for, r is charged the same for, or reports as unknown.                  *)
Agrees(r, c, x) ==
  \A charge \in ChargesOf(c, x) :
    \E mine \in ChargesOf(r, x) :
      /\ mine.dimension = charge.dimension
      /\ mine.key = None \/ mine = charge
=============================================================================
