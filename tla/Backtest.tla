------------------------------ MODULE Backtest ------------------------------
(***************************************************************************)
(* run_backtest: the rows of a governed dataset of historical outcomes,    *)
(* replayed through today's decision policy with one fixed snapshot of the *)
(* portfolio, and the report on them.                                      *)
(*                                                                         *)
(* Units are those of PitchScreening; sums of squared differences are in   *)
(* ten-thousandths, the predicted probability taken in percent.            *)
(***************************************************************************)
EXTENDS PitchScreening, FiniteSets

CONSTANTS
    Rows,       \* [absent, superiority, outcome, spread, quality, gaming, domain,
                \* compliance], the last three maybe Missing
    Datasets,   \* what an export may hold
    Snapshots,  \* what --portfolio-snapshot names: a snapshot, or
    Unset, Unreadable,
    Requested,  \* --requested-check-usd
    Missing

ASSUME DatasetsAssumption ==
    /\ Datasets \subseteq Seq(Rows)
    /\ \A row \in Rows : row.superiority \in Int /\ row.gaming \in Nat \cup {Missing}

VARIABLE
    backtest    \* the run: where it is, its rows, how many of them it has read and
                \* how many skipped, the results of the others and the report

NoRun == [at |-> "idle", rows |-> <<>>, snapshot |-> Unset, read |-> 0, skipped |-> 0,
          results |-> <<>>, report |-> "none", exit |-> 0]

BacktestError == [NoRun EXCEPT !.at = "error", !.exit = 2]

BacktestInit == backtest = NoRun

\* load_portfolio_snapshot without a file: a snapshot of nothing.
EmptySnapshot == [nav |-> 0, reserve |-> 0, drawdown |-> 0, regime |-> "normal", invested |-> <<>>]

\* What _normalize_record cannot do without; n_contradictions has a default.
RequiredField == {"superiority", "outcome", "n_propositions", "transcript_quality", "layer_scores"}

Normalizes(row) == row.absent \cap RequiredField = {}

\* validate_historical_outcomes_export: the export as a whole.
ExportOk(rows) == \A i \in DOMAIN rows : Normalizes(rows[i])

\* The version is checked, then the dataset, then the snapshot: one row that
\* cannot be normalized refuses them all.  (A snapshot whose values do not convert
\* ends the command with a ValueError or TypeError instead of its exit code 2:
\* there is no report either way.)
StartBacktest(rows, file, pinned) ==
    /\ backtest.at = "idle"
    /\ backtest' =
          IF pinned /\ ExportOk(rows) /\ file # Unreadable
          THEN [NoRun EXCEPT !.at = "replay", !.rows = rows,
                             !.snapshot = IF file = Unset THEN EmptySnapshot ELSE file]
          ELSE BacktestError

\* Python's "x or default" takes a zero for a missing value.
OrElse(x, default) == IF x \in {Missing, 0} THEN default ELSE x

RowApplication(row) ==
    [requested  |-> Requested,
     domain     |-> IF row.domain = Missing THEN "market_economics" ELSE row.domain,
     compliance |-> IF row.compliance = Missing THEN "clear" ELSE row.compliance]

\* Mutant: a row without a gaming score is given the policy's idea of a clean one.
RowScore_CleanIsZero(row) ==
    LET ci == Interval(row.superiority, row.spread)
    IN  [quality |-> MaxOf(85, MinOf(100, OrElse(row.quality, 100))), gaming |-> OrElse(row.gaming, 0),
         lower |-> ci.lower, upper |-> ci.upper]

\* Quality no less than 0.85, and the gaming score the detector's clean 1.0.  A
\* gaming score is missing or a number here; NaN, which no comparison of the
\* gaming gate would stop, and what float() refuses are not among the rows.
RowScore(row) ==
    LET ci == Interval(row.superiority, row.spread)
    IN  [quality |-> MaxOf(85, MinOf(100, OrElse(row.quality, 100))), gaming |-> OrElse(row.gaming, 100),
         lower |-> ci.lower, upper |-> ci.upper]

\* The superiority as a probability, in percent, and what came of the row.
Predicted(superiority) == Clamp((1000000 + superiority) \div 20000)
Realized(outcome)      == Term(outcome > 0, 1)

ReplayRow ==
    /\ backtest.at = "replay" /\ backtest.read < Len(backtest.rows)
    /\ LET next == backtest.read + 1
           row  == backtest.rows[next]
           a    == RowApplication(row)
           ps   == SnapshotToPortfolioState(backtest.snapshot, a.domain)
           result == [index     |-> next,
                      decision  |-> Evaluate(a, RowScore(row), ps).decision,
                      domain    |-> a.domain,
                      predicted |-> Predicted(row.superiority),
                      realized  |-> Realized(row.outcome)]
       IN  backtest' = [backtest EXCEPT
               !.read    = next,
               !.skipped = @ + Term(~Normalizes(row), 1),
               !.results = IF Normalizes(row) THEN Append(@, result) ELSE @]

-----------------------------------------------------------------------------
(* The report.  A bucket is the indices of the results in it.              *)

\* Ten bins of equal width; the last one has its upper edge.
Bin(predicted) == MinOf(9, predicted \div 10)

Share(count, n) == IF n = 0 THEN 0 ELSE (100 * count) \div n

\* _aggregate: counts, their rates, the Brier score and the mean difference.
Aggregate(results, bucket) ==
    LET n       == Cardinality(bucket)
        Of(d)   == Cardinality({i \in bucket : results[i].decision = d})
        off     == [i \in bucket |-> results[i].predicted - 100 * results[i].realized]
        Mean(f) == IF n = 0 THEN 0 ELSE SumFunction(f) \div n
    IN  [n |-> n, pass |-> Of("pass"), reject |-> Of("fail"), review |-> Of("manual_review"),
         passRate |-> Share(Of("pass"), n),
         brier |-> Mean([i \in bucket |-> off[i] ^ 2]),
         delta |-> Mean(off)]

ReliabilityCurve(results) ==
    [k \in 0..9 |-> Cardinality({i \in DOMAIN results : Bin(results[i].predicted) = k})]

DomainBreakdown(results) ==
    [d \in {results[i].domain : i \in DOMAIN results} |->
        Aggregate(results, {i \in DOMAIN results : results[i].domain = d})]

EndBacktest ==
    /\ backtest.at = "replay" /\ backtest.read = Len(backtest.rows)
    /\ backtest' = [backtest EXCEPT
           !.at = "done",
           !.report = [total   |-> Aggregate(backtest.results, DOMAIN backtest.results),
                       curve   |-> ReliabilityCurve(backtest.results),
                       domains |-> DomainBreakdown(backtest.results)]]

BacktestNext ==
    \/ \E rows \in Datasets, file \in Snapshots, pinned \in BOOLEAN : StartBacktest(rows, file, pinned)
    \/ ReplayRow
    \/ EndBacktest

BacktestSpec == BacktestInit /\ [][BacktestNext]_backtest

-----------------------------------------------------------------------------
(* Properties.                                                             *)

\* The backtest passes no row but one that came with a gaming score, not zero,
\* that the policy takes for clean; and what it began with a valid export it ends
\* with a report on every row, none of them skipped.
RowsAccounted ==
    /\ \A i \in DOMAIN backtest.results :
           LET r == backtest.results[i]
           IN  r.decision = "pass" => OrElse(backtest.rows[r.index].gaming, 100) < 25
    /\ backtest.at = "done" =>
           LET r == backtest.report
               n == Len(backtest.rows)
           IN  /\ backtest.skipped = 0 /\ r.total.n = n /\ r.total.pass + r.total.reject + r.total.review = n
               /\ SumFunction(r.curve) = n
               /\ SumFunction([d \in DOMAIN r.domains |-> r.domains[d].n]) = n

\* What the detector calls clean the policy calls gamed: neither suite admits a
\* pitch that was screened by the detector as the service runs it.
ScreenedRefused == AllRejected /\ RowsAccounted

=============================================================================
