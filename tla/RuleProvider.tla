---------------------------- MODULE RuleProvider ----------------------------
(***************************************************************************)
(* The local rule provider (fraud_intel/rules/provider.py): a channel's    *)
(* rule set evaluated over the event's fields and features.                *)
(*                                                                         *)
(* A value is [kind, v] with kind "none", "bool" (v is 0 or 1), "num" or   *)
(* "str" (v tells strings apart); an operand of in and not_in is a set of  *)
(* values.  What a rule says beyond its id, category and reason code, and  *)
(* the latency, are left out.                                              *)
(***************************************************************************)
EXTENDS Integers, FiniteSets, FiniteSetsExt

NoValue   == [kind |-> "none", v |-> 0]
Bool(b)   == [kind |-> "bool", v |-> IF b THEN 1 ELSE 0]
Num(n)    == [kind |-> "num", v |-> n]
Str(n)    == [kind |-> "str", v |-> n]

Ordering    == {"gt", "gte", "lt", "lte"}
Membership  == {"in", "not_in"}
Flags       == {"is_true", "is_false"}
Operators   == {"eq", "ne"} \cup Ordering \cup Membership \cup Flags

\* Python's ==: True equals 1 and False equals 0.
Same(a, b) == /\ a.kind = b.kind \/ {a.kind, b.kind} = {"bool", "num"}
              /\ a.v = b.v

Holds(op, field, operand) ==
    CASE op = "eq"       -> Same(field, operand)
      [] op = "ne"       -> ~Same(field, operand)
      [] op = "in"       -> \E x \in operand : Same(field, x)
      [] op = "not_in"   -> ~\E x \in operand : Same(field, x)
      [] op = "is_true"  -> field.kind = "bool" /\ field.v = 1
      [] op = "is_false" -> field.kind = "bool" /\ field.v = 0
      [] op \in Ordering -> /\ field.kind # "none"
                            /\ CASE op = "gt"  -> field.v > operand.v
                                 [] op = "gte" -> field.v >= operand.v
                                 [] op = "lt"  -> field.v < operand.v
                                 [] op = "lte" -> field.v <= operand.v

\* Ordering a string against a number is a TypeError.
Raises(op, field) == op \in Ordering /\ field.kind = "str"

Lookup(context, name) == IF name \in DOMAIN context THEN context[name] ELSE NoValue

CondHolds(c, context)  == Holds(c.op, Lookup(context, c.field), c.value)
CondRaises(c, context) == Raises(c.op, Lookup(context, c.field))

\* all(...) stops at the first condition that does not hold, or that raises.
RuleMatches(rule, context) ==
    \A i \in DOMAIN rule.when : ~CondRaises(rule.when[i], context) /\ CondHolds(rule.when[i], context)
RuleRaises(rule, context) ==
    \E i \in DOMAIN rule.when :
        /\ CondRaises(rule.when[i], context)
        /\ \A j \in 1..(i - 1) : CondHolds(rule.when[j], context)

Categories == {"MANDATORY_REVIEW", "SCORE_CONTRIBUTING", "INFORMATIONAL"}

\* The operand fits the operator (a list operand is a set, by construction here).
ValidCondition(c) ==
    /\ c.op \in Operators
    /\ c.op \in Flags => c.value.kind = "none"
    /\ c.op \in Ordering => c.value.kind = "num"
    /\ c.op \in {"eq", "ne"} => c.value.kind # "none"

ValidRule(rule) ==
    /\ rule.category \in Categories
    /\ rule.when # <<>> /\ \A i \in DOMAIN rule.when : ValidCondition(rule.when[i])
    /\ IF rule.category = "SCORE_CONTRIBUTING" THEN rule.contribution >= 0 ELSE rule.contribution = -1

\* RuleSetConfig: the load fails unless every rule is valid and ids are unique.
ValidRuleSet(config) ==
    /\ \A i \in DOMAIN config.rules : ValidRule(config.rules[i])
    /\ \A i, j \in DOMAIN config.rules : config.rules[i].id = config.rules[j].id => i = j

\* _build_condition_context: features win over the payload, the event's own fields over both.
ConditionContext(payload, features, intrinsic) ==
    [n \in DOMAIN payload \cup DOMAIN features \cup DOMAIN intrinsic |->
        IF n \in DOMAIN intrinsic THEN intrinsic[n]
        ELSE IF n \in DOMAIN features THEN features[n] ELSE payload[n]]

FailedUnfloored(code) ==            \* variant: a failure asks for no floor
    [status |-> "ERROR", error |-> code, fired |-> <<>>, score |-> 0, floor |-> "none"]

FailedEvaluation(code) ==
    [status |-> "ERROR", error |-> code, fired |-> <<>>, score |-> 0, floor |-> "MEDIUM"]

\* The rules that match, under their places in the file.
Fired(config, context) ==
    [i \in {j \in DOMAIN config.rules : RuleMatches(config.rules[j], context)} |-> config.rules[i]]

(* evaluate() never raises: an unreadable or invalid file, a file of       *)
(* another channel and an evaluation error all become an ERROR result that *)
(* fires nothing and asks for a floor of MEDIUM.                           *)
Evaluate(readable, config, channel, context) ==
    IF ~readable \/ ~ValidRuleSet(config) THEN FailedEvaluation("RULE_CONFIG_LOAD_FAILED")
    ELSE IF config.channel # channel \/ \E i \in DOMAIN config.rules : RuleRaises(config.rules[i], context)
    THEN FailedEvaluation("RULE_EVALUATION_FAILED")
    ELSE LET fired  == Fired(config, context)
             scored == {i \in DOMAIN fired : fired[i].category = "SCORE_CONTRIBUTING"}
         IN  [status |-> "OK", error |-> "none", fired |-> fired,
              score |-> MapThenSumSet(LAMBDA i : fired[i].contribution, scored),
              floor |-> "none"]
=============================================================================
