--------------------------------- MODULE MCMenu ---------------------------------
(* An instance of Menu for TLC: menu.cfg; and the operators of Report that no    *)
(* run uses, compared with what they are for on small inputs.                    *)
EXTENDS Menu, Report, SequencesExt

Sorted(n, top) ==
    {s \in [1 .. n -> 0 .. top] : \A i \in 1 .. n - 1 : s[i] <= s[i + 1]}

\* Of two measurements or more, a percentile is between the least and the greatest,
\* does not fall as p grows, and the 50th of three is the one in the middle.
ASSUME PercentileIsBetween ==
    \A n \in 2 .. 4 : \A s \in Sorted(n, 3) :
        /\ \A p \in 0 .. 99 : percentile(s, p) \in 100 * s[1] .. 100 * s[n]
        /\ \A p \in 1 .. 99 : percentile(s, p - 1) <= percentile(s, p)
        /\ n = 3 => percentile(s, 50) = 100 * s[2]

\* A category is all blocked in the table only if each of its tests that was made
\* was answered with a status of 400 to 499.
ASSUME TableCountsRefusals ==
    \A category \in [1 .. 2 -> {"a", "b"}], made \in SUBSET {"a", "b"} :
        \A statuses \in [made -> {200, 401, 500}] :
            LET row == summarize_after_dzt(category, statuses)
                seen == {category[1], category[2]} \cap made
            IN  /\ row.blocked <= row.total /\ row.total <= 2
                /\ seen # {} =>
                       (row.blocked = row.total <=> \A t \in seen : statuses[t] = 401)

Digits(n, m) == UNION {[1 .. len -> 0 .. 2] : len \in n .. m}
Value(digits) == FoldLeft(LAMBDA v, d : 3 * v + d, 0, digits)

\* Of files whose names have equally many digits, the last name is the newest file.
\* The seconds of the epoch have ten digits until 2286.
ASSUME LastNameIsNewest ==
    \A names \in SUBSET Digits(2, 2) \ {{}} :
        \A name \in names : Value(name) <= Value(find_latest(names))

\* Of names of different lengths there is a last one too, but it may be the older.
ASSUME LengthsMislead ==
    /\ \A a, b \in Digits(1, 3) : a = b \/ (Before(a, b) <=> ~ Before(b, a))
    /\ find_latest({<< 2 >>, << 1, 0 >>}) = << 2 >>
===============================================================================
