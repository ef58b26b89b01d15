--------------------------- MODULE MCChangeReport ---------------------------
(***************************************************************************)
(* Snapshots of up to two resources under four keys in two stacks, two of  *)
(* them the same name with different hash suffixes.  Databases and         *)
(* tables share the dimension Storage; a topic has no estimator; a role is *)
(* free.  A large database has storage whose cost is not known.            *)
(***************************************************************************)
EXTENDS ChangeReport

K(s, i) == [stack |-> s, id |-> i]
B(t, p, s) == [type |-> t, path |-> p, state |-> s]

MCKey == {K("s1", "Web"), K("s1", "Db0"), K("s1", "Db1"), K("s2", "Web")}
MCBase == [i \in {"Web", "Db0", "Db1"} |-> IF i = "Web" THEN None ELSE "Db"]
MCOrder == [k \in Key |-> CASE k.stack = "s2" -> 4
                            [] k.stack = "s1" /\ k.id = "Db0" -> 1
                            [] k.stack = "s1" /\ k.id = "Db1" -> 2
                            [] k.stack = "s1" /\ k.id = "Web" -> 3]

MCBody == {B("database", "P", "small"), B("database", None, "small"), B("database", "P", "large"),
           B("table", "P", "small"), B("table", None, "small"), B("topic", None, "small"),
           B("role", None, "small"), B("role", None, "large")}

MCPrice ==
  [i \in {"database", "table", "topic", "role"} \X {"small", "large"} |->
    CASE i = <<"database", "small">> -> [Storage |-> 2, Instance |-> 1]
      [] i = <<"database", "large">> -> [Storage |-> None, Instance |-> 3]
      [] i[1] = "table"            -> [Storage |-> 5]
      [] i[1] = "topic"            -> [Unsupported |-> None]
      [] i[1] = "role"             -> NoPrices]

MCEffect ==
  [i \in {"database", "table", "topic", "role"} \X {"small", "large"} \X {"small", "large"} |->
    CASE i[1] = "role"    -> "NO_COST_CHANGE"
      [] i[1] = "database"  -> IF i[2] = "large" THEN "REPLACE" ELSE "MODIFY"
      [] OTHER            -> "MODIFY"]
=============================================================================
