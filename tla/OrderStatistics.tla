--------------------------- MODULE OrderStatistics ---------------------------
(* What the clock fit and the spike detector take from sorted values.        *)
EXTENDS Integers, FiniteSets

Abs(x) == IF x < 0 THEN -x ELSE x

\* sorted[len / 2] of a family of values: at most half of them are less, and
\* more than half are not greater.
Middle(s, Less(_, _)) ==
    LET half == Cardinality(DOMAIN s) \div 2
    IN  s[CHOOSE m \in DOMAIN s :
            /\ Cardinality({i \in DOMAIN s : Less(s[i], s[m])}) <= half
            /\ Cardinality({i \in DOMAIN s : ~Less(s[m], s[i])}) > half]
==============================================================================
