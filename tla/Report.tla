--------------------------------- MODULE Report ---------------------------------
(***************************************************************************)
(* What the programs of eval/ make of measurements: the percentile of the  *)
(* latency benchmarks, the summaries and the choice of files of            *)
(* generate_tables.py, the table of results/compute_attack_table.py.       *)
(*                                                                         *)
(* Numbers are counts; the percentages printed are quotients of them.  A   *)
(* result of an attack run has the name, as Programs gives it, and         *)
(* blocked.  The name of a result file is that of its kind and the digits  *)
(* of the second it was written in, and those alone stand for it here.     *)
(***************************************************************************)
EXTENDS Integers, Sequences, FiniteSets

None == [total |-> 0]    \* the summary of nothing

\* Faulty variant: the valid calls count as attacks.
is_attack_result_all(name) == name # ""

is_attack_result(name) == name \notin {"valid", "replay 1st"}

\* summarize_attacks: ASR and ABR are succeeded / total and blocked / total.
summarize_attacks(results) ==
    LET attacks == {i \in DOMAIN results : is_attack_result(results[i].name)}
        blocked == {i \in attacks : results[i].blocked}
    IN  IF attacks = {} THEN None
        ELSE [total |-> Cardinality(attacks),
              blocked |-> Cardinality(blocked),
              succeeded |-> Cardinality(attacks) - Cardinality(blocked)]

\* calculate_ml_metrics: the confusion matrix of an attack run and a benign test.
calculate_ml_metrics(results, benign) ==
    LET attacks == {i \in DOMAIN results : is_attack_result(results[i].name)}
        valid == DOMAIN results \ attacks
        tp == Cardinality({i \in attacks : results[i].blocked})
        fp == benign.failures
    IN  [tp |-> tp, fn |-> Cardinality(attacks) - tp, fp |-> fp,
         tn |-> Cardinality({i \in valid : ~ results[i].blocked})
                    + (benign.total_calls - fp)]
-------------------------------------------------------------------------------
\* percentile(values, p) of n >= 1 sorted values in whole units, in hundredths of
\* a unit: between the values around the position k = (n - 1) * p / 100.
percentile(sorted, p) ==
    LET n == Len(sorted)
        k == (n - 1) * p          \* in hundredths
        f == k \div 100
        c == IF f + 1 < n - 1 THEN f + 1 ELSE n - 1
    IN  sorted[f + 1] * (c * 100 - k) + sorted[c + 1] * (k - f * 100)
-------------------------------------------------------------------------------
\* The order of two names of one kind: of their digits, from the left.
Before(a, b) ==
    \/ \E i \in DOMAIN a \cap DOMAIN b :
          a[i] < b[i] /\ \A j \in 1 .. i - 1 : a[j] = b[j]
    \/ Len(a) < Len(b) /\ \A i \in DOMAIN a : a[i] = b[i]

\* find_latest and find_latest_benign: the last of the names of a kind in this order.
find_latest(names) ==
    IF names = {} THEN << >>
    ELSE CHOOSE a \in names : \A b \in names \ {a} : Before(b, a)
-------------------------------------------------------------------------------
\* summarize_after_dzt: a category is a sequence of test names, statuses a function
\* from the names in the file to their status.
summarize_after_dzt(category, statuses) ==
    LET seen == {i \in DOMAIN category : category[i] \in DOMAIN statuses}
        blocked == {i \in seen : statuses[category[i]] \in 400 .. 499}
    IN  IF seen = {} THEN [blocked |-> 0, total |-> Len(category)]
        ELSE [blocked |-> Cardinality(blocked), total |-> Cardinality(seen)]
===============================================================================
