----------------------------- MODULE Templates -----------------------------
(***************************************************************************)
(* Templates (parsers/intrinsics.py, parsers/normalize.py): what can be    *)
(* said of the properties of a resource before it is deployed.             *)
(*                                                                         *)
(* A document is a constant: its expressions by name, its conditions, its  *)
(* mappings and its resources.  A text is a sequence of atoms, characters  *)
(* or runs of them that nothing cuts, so that joining, splitting and       *)
(* indexing are concatenation, cutting and picking.  `given` assigns texts *)
(* to some of the parameters: supplied ones over declared defaults.        *)
(*                                                                         *)
(* An expression resolves to a text, a list, a reference to a resource,    *)
(* nothing at all (omitted), something unknown, or to the raw text of an   *)
(* intrinsic that was never resolved; a condition to "true", "false" or    *)
(* "unknown".                                                              *)
(***************************************************************************)
EXTENDS Absence, Integers, SequencesExt, FiniteSetsExt

CONSTANTS
  Expression,  \* [name -> [op, ...]]
  Conditions,  \* [name of a condition -> name of its expression]
  Mappings,    \* [<<map, key, key>> -> name of the expression it holds]
  Parameters,  \* the declared parameters
  Resources,   \* the logical IDs of the template
  Pseudo       \* the texts of the pseudo parameters taken as known: a region that
               \* was given, but also placeholders for the account and the stack

(* The expressions that an expression is made of.                          *)
Parts(e) ==
  CASE e.op \in {"list", "sub", "map", "equals", "not", "and", "or"} -> Range(e.of)
    [] e.op \in {"join", "split"} -> {e.of}
    [] e.op = "select" -> {e.index, e.of}
    [] e.op = "if" -> {e.yes, e.no}
    [] OTHER -> {}

(* A document is read whole: every expression it mentions is one of it.    *)
ASSUME DocumentAssumption ==
  /\ \A n \in DOMAIN Expression :
       LET e == Expression[n]
       IN  /\ Parts(e) \subseteq DOMAIN Expression
           /\ e.op = "map" => DOMAIN e.of = 1 .. 3
           /\ e.op = "equals" => DOMAIN e.of = 1 .. 2
           /\ e.op = "not" => DOMAIN e.of = {1}
  /\ Range(Conditions) \cup Range(Mappings) \subseteq DOMAIN Expression

MaxDepth == 60  \* MAX_RESOLUTION_DEPTH

Text(t) == [state |-> "text", text |-> t]
List(items) == [state |-> "list", items |-> items]
Raw(n) == [state |-> "raw", node |-> n]
Reference(id) == [state |-> "reference", id |-> id]
Omitted == [state |-> "omitted"]
Unknown(candidates) == [state |-> "unknown", candidates |-> candidates]

IsText(v) == v.state = "text"

(* The part of a document that is not resolved yet, as a value.            *)
Written(n) ==
  LET e == Expression[n]
  IN  CASE e.op = "text" -> Text(e.text)
        [] e.op = "list" -> List([i \in DOMAIN e.of |-> Raw(e.of[i])])
        [] OTHER         -> Raw(n)

(* str() of a value, as Fn::Equals compares it.                            *)
Printed(v) ==
  CASE v.state = "text" -> v.text
    [] v.state = "list" -> <<"a list">> \o FoldSeq(LAMBDA i, t : t \o IF IsText(i) THEN i.text
                                                     ELSE <<"an item">>, <<>>, v.items)
    [] v.state = "raw"  -> <<"an intrinsic", v.node>>

Ref(given, name) ==
  IF name = "AWS::NoValue" THEN Omitted
  ELSE IF name \in DOMAIN Pseudo THEN Text(Pseudo[name])
  ELSE IF name \in Resources THEN Reference(name)
  ELSE IF name \in Parameters /\ name \in DOMAIN given THEN Text(given[name])
  ELSE Unknown({})

(* Faulty variant: a condition that cannot be told is not met.             *)
ConjunctionClosed(verdicts) == IF verdicts \subseteq {"true"} THEN "true" ELSE "false"

(* Three-valued: what is known of one operand may settle the whole.        *)
Conjunction(verdicts) ==
  IF "false" \in verdicts THEN "false" ELSE IF "unknown" \in verdicts THEN "unknown" ELSE "true"

Disjunction(verdicts) ==
  IF "true" \in verdicts THEN "true" ELSE IF "unknown" \in verdicts THEN "unknown" ELSE "false"

Negation(verdict) ==
  CASE verdict = "true" -> "false" [] verdict = "false" -> "true" [] OTHER -> "unknown"

VerdictText(verdict) ==
  CASE verdict = "true" -> Text(<<"True">>)
    [] verdict = "false" -> Text(<<"False">>)
    [] OTHER -> Unknown({})

Literal(n) == Expression[n].op = "text"

(* Faulty variant: the branch taken when the condition holds.              *)
ScenariosIfTrue(e) == {Expression[n].text : n \in {m \in {e.yes} : Literal(m)}}

(* The branches of an undecided Fn::If that are written out.               *)
Scenarios(e) == {Expression[n].text : n \in {m \in {e.yes, e.no} : Literal(m)}}

(* int() of a text, None where it raises; a negative number counts from    *)
(* the end.                                                                *)
Position(t) ==
  CASE t = <<"0">> -> 0 [] t = <<"1">> -> 1 [] t = <<"2">> -> 2
    [] t = <<"-1">> -> 0 - 1 [] t = <<"-2">> -> 0 - 2
    [] OTHER -> None

ItemsOf(v) ==
  CASE v.state = "list" -> v.items
    [] v.state = "text" -> [i \in DOMAIN v.text |-> Text(<<v.text[i]>>)]
    [] OTHER            -> <<>>

(* The item of a list, as written, or of a text, which is indexed too.     *)
Item(v, position) ==
  LET items == ItemsOf(v)
      i == IF position >= 0 THEN position + 1 ELSE Len(items) + position + 1
  IN  IF position = None \/ i \notin DOMAIN items THEN Unknown({})
      ELSE IF items[i].state = "raw" THEN Written(items[i].node)
      ELSE items[i]

(* The text between two delimiters, or before the first or after the last. *)
SplitAt(t, delimiter) ==
  LET cuts(i) == Cardinality({j \in 1 .. i : t[j] = delimiter})
      piece(k) == SubSeq(t, Min({i \in 1 .. Len(t) + 1 : cuts(i - 1) = k}),
                            Max({i \in 0 .. Len(t) : cuts(i) = k}))
  IN  [i \in 1 .. cuts(Len(t)) + 1 |-> Text(piece(i - 1))]

(* Joined pieces, if all are texts.                                        *)
Joined(pieces, delimiter) ==
  IF \A i \in DOMAIN pieces : IsText(pieces[i])
  THEN Text(FlattenSeq([i \in DOMAIN pieces |->
              IF i = 1 \/ delimiter = None THEN pieces[i].text
              ELSE <<delimiter>> \o pieces[i].text]))
  ELSE Unknown({})

(***************************************************************************)
(* Resolution of a node to a value ("value") or of a condition's           *)
(* expression to a verdict ("verdict"), at a depth: <<mode, node, depth,   *)
(* the conditions being evaluated>>.  A value inside a condition starts    *)
(* anew.  `at` is what is deeper.                                          *)
(***************************************************************************)
Queries ==
  {"value", "verdict"} \X (DOMAIN Expression) \X Nat \X (SUBSET DOMAIN Conditions)

(* A condition called by its name.                                         *)
Called(at, c, d, seen) ==
  IF c \in seen \/ c \notin DOMAIN Conditions THEN "unknown"
  ELSE at[<<"verdict", Conditions[c], d + 2, seen \cup {c}>>]

VerdictOf(at, n, d, seen) ==
  LET e == Expression[n]
      value(m) == at[<<"value", m, d + 1, {}>>]
      verdict(m) == at[<<"verdict", m, d + 1, seen>>]
  IN  IF d > MaxDepth THEN "unknown"
      ELSE CASE e.op = "condition" -> Called(at, e.name, d, seen)
             [] e.op = "equals" ->
                  LET l == value(e.of[1])
                      r == value(e.of[2])
                  IN  IF {l.state, r.state} \subseteq {"text", "list", "raw"}
                      THEN IF Printed(l) = Printed(r) THEN "true" ELSE "false"
                      ELSE "unknown"
             [] e.op = "not" -> Negation(verdict(e.of[1]))
             [] e.op = "and" -> Conjunction({verdict(m) : m \in Range(e.of)})
             [] e.op = "or"  -> Disjunction({verdict(m) : m \in Range(e.of)})
             [] OTHER -> "unknown"

(* An item of a list, which may not be resolved yet.                       *)
Settled(at, item, d) == IF item.state = "raw" THEN at[<<"value", item.node, d + 1, {}>>] ELSE item

ValueOf(given, at, n, d) ==
  LET e == Expression[n]
      value(m) == at[<<"value", m, d + 1, {}>>]
  IN  IF d > MaxDepth THEN Unknown({})
      ELSE CASE e.op \in {"text", "list"} -> Written(n)
             [] e.op = "ref" -> Ref(given, e.name)
             [] e.op = "attribute" ->
                  IF e.name \in Resources THEN Reference(e.name) ELSE Unknown({})
             [] e.op = "map" ->
                  LET keys == [i \in 1 .. 3 |-> value(e.of[i])]
                      place == [i \in 1 .. 3 |-> keys[i].text]
                  IN  IF (\A i \in 1 .. 3 : IsText(keys[i])) /\ place \in DOMAIN Mappings
                      THEN Written(Mappings[place])
                      ELSE Unknown({})
             [] e.op = "if" ->
                  LET met == Called(at, e.condition, d, {})
                  IN  IF met = "true" THEN value(e.yes)
                      ELSE IF met = "false" THEN value(e.no)
                      ELSE Unknown(Scenarios(e))
             [] e.op = "join" ->
                  LET parts == value(e.of)
                  IN  IF parts.state # "list" THEN Unknown({})
                      ELSE Joined([i \in DOMAIN parts.items |-> Settled(at, parts.items[i], d)],
                                  e.delimiter)
             [] e.op = "sub" -> Joined([i \in DOMAIN e.of |-> value(e.of[i])], None)
             [] e.op = "select" ->
                  LET index == value(e.index)
                  IN  IF IsText(index) THEN Item(value(e.of), Position(index.text)) ELSE Unknown({})
             [] e.op = "split" ->
                  LET source == value(e.of)
                  IN  IF IsText(source) THEN List(SplitAt(source.text, e.delimiter)) ELSE Unknown({})
             [] e.op = "condition" -> VerdictText(Called(at, e.name, d, {}))
             [] e.op \in {"equals", "not", "and", "or"} ->
                  VerdictText(at[<<"verdict", n, d + 1, {}>>])
             [] OTHER -> Unknown({})

Answer(given, at, q) ==
  IF q[1] = "verdict" THEN VerdictOf(at, q[2], q[3], q[4]) ELSE ValueOf(given, at, q[2], q[3])

Resolution(given) == LET at[q \in Queries] == Answer(given, at, q) IN at

Resolve(given, n) == Resolution(given)[<<"value", n, 0, {}>>]
EvaluateCondition(given, c) == Resolution(given)[<<"verdict", Conditions[c], 0, {c}>>]

-----------------------------------------------------------------------------
(* Normalisation.                                                          *)

(* Supplied values win over declared defaults.                             *)
Given(supplied, defaults) ==
  [p \in DOMAIN supplied \cup DOMAIN defaults |->
    IF p \in DOMAIN supplied THEN supplied[p] ELSE defaults[p]]

(* A value that has a structure, or is omitted, is no leaf.                *)
IsLeaf(v) == v.state \in {"text", "reference", "unknown"}

(* The leaves of a property and where they are: a list has one for each    *)
(* item, at the property's path and the index.                             *)
Leaves(given, path, n) ==
  LET v == Resolve(given, n)
      item(i) == IF v.items[i].state = "raw" THEN Resolve(given, v.items[i].node) ELSE v.items[i]
  IN  IF v.state = "list"
      THEN {[path |-> <<path, i>>, value |-> item(i)] : i \in {j \in DOMAIN v.items : IsLeaf(item(j))}}
      ELSE IF IsLeaf(v) THEN {[path |-> <<path>>, value |-> v]} ELSE {}

(* The properties of a resource, given the expression of each.             *)
Flatten(given, properties) ==
  UNION {Leaves(given, p, properties[p]) : p \in DOMAIN properties}

(* Tags whose key and value are both texts; of two with one key, the last. *)
TagsOf(given, tags) ==
  LET resolved == SelectSeq(tags, LAMBDA t : IsText(Resolve(given, t.key))
                                             /\ IsText(Resolve(given, t.value)))
      key(i) == Resolve(given, resolved[i].key).text
  IN  [k \in {key(i) : i \in DOMAIN resolved} |->
        Resolve(given, resolved[Max({i \in DOMAIN resolved : key(i) = k})].value).text]
=============================================================================
