---------------------------- MODULE EventRouting ----------------------------
(***************************************************************************)
(* Which trigger wants which event: internal/router/router.go without its  *)
(* reads of the storage.                                                   *)
(*                                                                         *)
(* The value of an attribute is the sequence of its "/"-separated          *)
(* segments, as strings.Split yields it; the empty string is one empty     *)
(* segment.  An event maps its attributes to values: type, source, subject *)
(* and id where they are set, datacontenttype, and the extensions.         *)
(* dataschema is left out: neither a filter nor a condition can read it.   *)
(***************************************************************************)
EXTENDS Integers, Sequences

EmptyValue == <<"">>

\* attrValue: what is not set reads as the empty string.
AttrValue(event, attr) ==
    IF attr \in DOMAIN event THEN event[attr] ELSE EmptyValue

\* matchSegs; j is in match[i] if the call with the suffix of the pattern from i
\* on and that of the value from j on returns true.
MatchSegs(pattern, value) ==
    LET match[i \in 1..(Len(pattern) + 1)] ==
            {j \in 1..(Len(value) + 1) :
                IF i > Len(pattern) THEN j > Len(value)
                ELSE IF pattern[i] = "**"
                     THEN \E l \in j..(Len(value) + 1) : l \in match[i + 1]
                     ELSE /\ j <= Len(value)
                          /\ pattern[i] \in {"*", value[j]}
                          /\ j + 1 \in match[i + 1]}
    IN  1 \in match[1]

PathOperators == {"match-path-pattern", "path_pattern"}

\* An unknown operator is an exact match.
FilterMatches(filter, event) ==
    IF filter.operator \in PathOperators
    THEN MatchSegs(filter.value, AttrValue(event, filter.attribute))
    ELSE filter.value = AttrValue(event, filter.attribute)

\* Mutant: one environment for all events, in which what is not set is "".
DeclaredOnce(event) == STRING

\* The variables of a CEL condition: the four standard attributes, and the
\* extensions of this very event.
Declared(event) ==
    {"type", "source", "subject", "id"} \cup (DOMAIN event \ {"datacontenttype"})

\* evalCELCondition, for conditions that compare one attribute with a value.  A
\* condition on an attribute the event does not have fails to compile.
ConditionHolds(condition, event) ==
    /\ condition.attribute \in Declared(event)
    /\ IF condition.operator = "=="
       THEN AttrValue(event, condition.attribute) = condition.value
       ELSE AttrValue(event, condition.attribute) # condition.value

\* triggerMatches; a trigger has a set with at most one condition, its label.
TriggerMatches(trigger, event) ==
    /\ \A f \in trigger.filters : FilterMatches(f, event)
    /\ \A c \in trigger.condition : ConditionHolds(c, event)

-----------------------------------------------------------------------------
(* What a trigger means, said without the algorithm.  A path pattern: the   *)
(* value can be cut into consecutive pieces, one for each segment of the    *)
(* pattern.                                                                 *)

\* cut[i]..(cut[i+1] - 1) is the piece of the i-th segment.
PieceFits(segment, value, first, after) ==
    CASE segment = "**" -> first <= after
      [] segment = "*"  -> after = first + 1
      [] OTHER          -> after = first + 1 /\ value[first] = segment

PatternCovers(pattern, value) ==
    \E cut \in [1..(Len(pattern) + 1) -> 1..(Len(value) + 1)] :
        /\ cut[1] = 1
        /\ cut[Len(pattern) + 1] = Len(value) + 1
        /\ \A i \in 1..Len(pattern) : PieceFits(pattern[i], value, cut[i], cut[i + 1])

Extensions(event) ==
    DOMAIN event \ {"type", "source", "subject", "id", "datacontenttype"}

\* A condition: it compares a standard attribute, set or not, or an extension
\* the event has, and the comparison holds.
ConditionMet(condition, event) ==
    /\ \/ condition.attribute \in {"type", "source", "subject", "id"}
       \/ condition.attribute \in Extensions(event)
    /\ (AttrValue(event, condition.attribute) = condition.value)
          <=> (condition.operator = "==")
=============================================================================
