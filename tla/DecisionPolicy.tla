--------------------------- MODULE DecisionPolicy ---------------------------
(***************************************************************************)
(* DecisionPolicyService.evaluate: the gates an application passes through, *)
(* with the portfolio's part in them, and the two ways a portfolio reaches  *)
(* it (the mapping the repository builds, the snapshot a provider holds).   *)
(*                                                                         *)
(* Money is in thousands of USD (the least capacity, 1 USD, is 1 here),     *)
(* shares and quality scores are in percent, coherence in millionths.       *)
(***************************************************************************)
EXTENDS Integers, Functions

DEFAULT_CAPACITY == 12000

\* COHERENCE_LIQUIDITY_RESERVE_FRACTION unset, or not a number: 5 %.
LiquidityFloor(capacity) == (capacity * 5) \div 100

MaxOf(a, b) == IF a >= b THEN a ELSE b
Clamp(x) == IF x < 0 THEN 0 ELSE IF x > 100 THEN 100 ELSE x

-----------------------------------------------------------------------------
(* The portfolio state.                                                     *)

PersistedRegime == [normal |-> "neutral", recovery |-> "expansion", stress |-> "stress"]

\* What snapshot_to_portfolio_state makes of a snapshot: a mapping without
\* counts, without the founder, and without a floor when no reserve is set.
SnapshotToPortfolioState(s, domain) ==
    LET total    == SumFunction(s.invested)
        capacity == IF s.nav > 0 THEN s.nav ELSE DEFAULT_CAPACITY
        fields   == {"capacity", "committed", "domainUsd", "drawdown", "regime", "dry"}
                        \cup (IF s.reserve > 0 THEN {"floor"} ELSE {})
    IN  [f \in fields |->
            CASE f = "capacity"  -> capacity
              [] f = "committed" -> total
              [] f = "domainUsd" -> IF domain \in DOMAIN s.invested THEN s.invested[domain] ELSE 0
              [] f = "drawdown"  -> Clamp(s.drawdown)
              [] f = "regime"    -> IF s.regime \in DOMAIN PersistedRegime
                                    THEN PersistedRegime[s.regime] ELSE "neutral"
              [] f = "dry"       -> MaxOf(0, capacity - total)
              [] f = "floor"     -> s.reserve]

Get(ps, key, default) == IF key \in DOMAIN ps THEN ps[key] ELSE default

\* _normalize_portfolio_state; no mapping at all is the empty one.
NormalizePortfolioState(ps) ==
    LET capacity  == MaxOf(Get(ps, "capacity", DEFAULT_CAPACITY), 1)
        committed == Get(ps, "committed", 0)
        regime    == Get(ps, "regime", "neutral")
    IN  [capacity    |-> capacity,
         committed   |-> committed,
         founderUsd  |-> Get(ps, "founderUsd", 0),
         pipeline    |-> Get(ps, "pipeline", 0),
         domainCount |-> Get(ps, "domainCount", 0),
         domainUsd   |-> MaxOf(0, Get(ps, "domainUsd", 0)),
         dry         |-> MaxOf(0, Get(ps, "dry", capacity - committed)),
         floor       |-> MaxOf(0, Get(ps, "floor", LiquidityFloor(capacity))),
         regime      |-> IF regime \in {"neutral", "stress", "defensive", "expansion"}
                         THEN regime ELSE "neutral",
         drawdown    |-> Clamp(Get(ps, "drawdown", 0))]

\* Whether the portfolio says anything an empty one does not.  (The number of
\* the founder's passes is positive only if their sum is.)
ContextActive(ps) ==
    \/ ps.committed > 0 \/ ps.founderUsd > 0 \/ ps.pipeline > 0
    \/ ps.domainCount > 0 \/ ps.domainUsd > 0
    \/ ps.regime # "neutral" \/ ps.drawdown > 0
    \/ ps.dry < ps.capacity \/ ps.floor # LiquidityFloor(ps.capacity)

-----------------------------------------------------------------------------
(* The threshold.                                                           *)

\* a >= p % of the capacity.
AtLeast(a, p, ps) == 100 * a >= p * ps.capacity

Term(holds, step) == IF holds THEN step ELSE 0

\* _portfolio_cs_delta: what the portfolio adds to the required superiority.
PortfolioCsDelta(ps, requested) ==
    LET used == ps.committed + requested
        left == ps.capacity - used
        held == ps.domainUsd + requested
    IN  Term(AtLeast(used, 88, ps), 10000) + Term(AtLeast(used, 93, ps), 10000)
          + Term(AtLeast(used, 97, ps), 10000)
          + Term(ps.domainCount >= 25, 15000) + Term(ps.pipeline >= 40, 10000)
          + Term(AtLeast(held, 28, ps), 5000) + Term(AtLeast(held, 36, ps), 5000)
          + Term(~AtLeast(left, 8, ps) /\ left >= 0, 5000)
          + Term(~AtLeast(left, 5, ps) /\ left >= 0, 5000)
          + Term(ps.drawdown >= 12, 10000) + Term(ps.drawdown >= 22, 10000)
          + Term(ps.regime = "stress", 15000) + Term(ps.regime = "defensive", 10000)

Params ==
    [market_economics |-> [base |-> 180000, alpha |-> 250000],
     governance       |-> [base |-> 200000, alpha |-> 227273],
     public_health    |-> [base |-> 220000, alpha |-> 208333]]
ParamsForDomain(d) == IF d \in DOMAIN Params THEN Params[d] ELSE Params.market_economics

\* log2(max(requested, 50) / 50), the requests being such that it is whole.
Doublings(requested) == CHOOSE n \in 0..8 : 50 * 2^n = MaxOf(requested, 50)

CsRequired(domain, requested, ps) ==
    LET p == ParamsForDomain(domain)
    IN  p.base + p.alpha * Doublings(requested) + PortfolioCsDelta(ps, requested)

-----------------------------------------------------------------------------
(* The gates.                                                               *)

HardFail == {"QUALITY_BELOW_MIN", "COMPLIANCE_BLOCKED", "ANTI_GAMING_HIGH",
             "PORTFOLIO_HARD_CAP_BREACH", "PORTFOLIO_FUND_CAPACITY_EXCEEDED",
             "COHERENCE_BELOW_THRESHOLD"}
ManualReviewCodes ==
            {"COMPLIANCE_REVIEW_REQUIRED", "ANTI_GAMING_WARNING_BAND",
             "CONFIDENCE_INTERVAL_TOO_WIDE", "PORTFOLIO_FOUNDER_CONCENTRATION",
             "PORTFOLIO_LIQUIDITY_RESERVE_PRESSURE",
             "PORTFOLIO_DOMAIN_USD_CONCENTRATION_HIGH", "PORTFOLIO_DRAWDOWN_PROXY_ELEVATED"}

When(condition, code) == IF condition THEN {code} ELSE {}

\* 12 000 000 * 0.05, whatever the capacity is.
MAX_SINGLE_CHECK == 600

\* Mutant: nothing is held back.
PortfolioGates_NoFloor(a, ps) ==
    LET used == ps.committed + a.requested
    IN  When(a.requested > MAX_SINGLE_CHECK, "PORTFOLIO_HARD_CAP_BREACH")
          \cup When(used > ps.capacity, "PORTFOLIO_FUND_CAPACITY_EXCEEDED")
          \cup When(100 * (ps.founderUsd + a.requested) > 12 * ps.capacity,
                    "PORTFOLIO_FOUNDER_CONCENTRATION")
          \cup When(100 * (ps.domainUsd + a.requested) > 42 * ps.capacity,
                    "PORTFOLIO_DOMAIN_USD_CONCENTRATION_HIGH")
          \cup When(ps.drawdown >= 30, "PORTFOLIO_DRAWDOWN_PROXY_ELEVATED")

PortfolioGates(a, ps) ==
    LET used == ps.committed + a.requested
    IN  When(a.requested > MAX_SINGLE_CHECK, "PORTFOLIO_HARD_CAP_BREACH")
          \cup When(used > ps.capacity, "PORTFOLIO_FUND_CAPACITY_EXCEEDED")
          \cup When(100 * (ps.founderUsd + a.requested) > 12 * ps.capacity,
                    "PORTFOLIO_FOUNDER_CONCENTRATION")
          \cup When(ps.capacity - used < ps.floor, "PORTFOLIO_LIQUIDITY_RESERVE_PRESSURE")
          \cup When(100 * (ps.domainUsd + a.requested) > 42 * ps.capacity,
                    "PORTFOLIO_DOMAIN_USD_CONCENTRATION_HIGH")
          \cup When(ps.drawdown >= 30, "PORTFOLIO_DRAWDOWN_PROXY_ELEVATED")

FailedGates(a, score, ps) ==
    When(score.quality < 80, "QUALITY_BELOW_MIN")
      \cup When(a.compliance = "blocked", "COMPLIANCE_BLOCKED")
      \cup When(a.compliance = "review_required", "COMPLIANCE_REVIEW_REQUIRED")
      \cup When(score.gaming > 35, "ANTI_GAMING_HIGH")
      \cup When(score.gaming \in 25..35, "ANTI_GAMING_WARNING_BAND")
      \cup PortfolioGates(a, ps)
      \cup When(score.lower < CsRequired(a.domain, a.requested, ps), "COHERENCE_BELOW_THRESHOLD")
      \cup When(score.upper - score.lower > 200000, "CONFIDENCE_INTERVAL_TOO_WIDE")

Verdict(codes) ==
    IF codes \cap HardFail # {} THEN "fail"
    ELSE IF codes \cap ManualReviewCodes # {} THEN "manual_review"
    ELSE "pass"

\* evaluate, the portfolio as it came; "v1.1.0" when it had a say.
Evaluate(a, score, state) ==
    LET ps    == NormalizePortfolioState(state)
        codes == FailedGates(a, score, ps)
    IN  [decision |-> Verdict(codes),
         codes    |-> codes,
         version  |-> IF \/ ContextActive(ps) \/ PortfolioCsDelta(ps, a.requested) > 0
                         \/ PortfolioGates(a, ps) \ {"PORTFOLIO_HARD_CAP_BREACH"} # {}
                      THEN "v1.1.0" ELSE "v1.0.0"]

=============================================================================
