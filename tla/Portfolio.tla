----------------------------- MODULE Portfolio -----------------------------
(***************************************************************************)
(* The fund's commitments: scoring workers that evaluate applications      *)
(* against the passes they can see.  get_portfolio_state_snapshot asks one *)
(* question of the database after another, and at READ COMMITTED each sees *)
(* what is committed when it is asked; the decision commits much later.    *)
(* (ScoringQueue models the claim that keeps two workers from one job.)    *)
(***************************************************************************)
EXTENDS DecisionPolicy, FiniteSets

CONSTANTS
    Candidate,    \* applications with a job, each scored once
    Evaluator,    \* scoring workers
    CheckOf,      \* requested_check_usd of each
    FounderOf, DomainOf,
    Capacity,     \* COHERENCE_NOTIONAL_CAPACITY_USD
    Funded,       \* domain |-> what passed before, all of it of other founders
    NoCandidate

\* What passed before is within the limits: no worker is to blame for it.
ASSUME PortfolioAssumption ==
    /\ NoCandidate \notin Candidate
    /\ CheckOf \in [Candidate -> Nat]
    /\ Capacity \in Nat \ {0}
    /\ IsFiniteSet(Candidate) /\ Candidate # {}
    /\ IsFiniteSet(Evaluator) /\ Evaluator # {}
    /\ IsFiniteSet(DOMAIN Funded) /\ Funded \in [DOMAIN Funded -> Nat]
    /\ SumFunction(Funded) <= Capacity - LiquidityFloor(Capacity)
    /\ \A a \in Candidate : /\ DomainOf[a] \in DOMAIN Funded
                            /\ 100 * Funded[DomainOf[a]] <= 42 * Capacity

VARIABLES
    decided,   \* the committed decision of each application, "none" before
    turn,      \* turn[w]: the application w evaluates and its next question
    seen       \* seen[w]: the answers so far

portfolioVars == <<decided, turn, seen>>

Question == <<"committed", "founder", "domainCount", "domainUsd", "pipeline", "evaluate">>
Rest     == [a |-> NoCandidate, at |-> 1]
NoAnswer == [committed |-> 0, founder |-> 0, domainCount |-> 0, domainUsd |-> 0, pipeline |-> 0]

PortfolioInit ==
    /\ decided = [a \in Candidate |-> "none"]
    /\ turn = [w \in Evaluator |-> Rest]
    /\ seen = [w \in Evaluator |-> NoAnswer]

Passed == {a \in Candidate : decided[a] = "pass"}
Usd(S) == SumFunctionOnSet(CheckOf, S)
Committed == Usd(Passed) + SumFunction(Funded)
FounderUsd(f) == Usd({a \in Passed : FounderOf[a] = f})
DomainUsd(d)  == Usd({a \in Passed : DomainOf[a] = d}) + Funded[d]

\* What the database answers, the application itself left out.
Answer(a, q) ==
    CASE q = "committed"   -> Committed
      [] q = "founder"     -> FounderUsd(FounderOf[a])
      [] q = "domainCount" -> Cardinality({b \in Passed : DomainOf[b] = DomainOf[a]})
      [] q = "domainUsd"   -> DomainUsd(DomainOf[a])
      [] q = "pipeline"    -> Cardinality({b \in Candidate : decided[b] = "none"} \ {a})

StartEvaluation(w, a) ==
    /\ turn[w] = Rest
    /\ decided[a] = "none"
    /\ \A v \in Evaluator : turn[v].a # a
    /\ turn' = [turn EXCEPT ![w] = [a |-> a, at |-> 1]]
    /\ seen' = [seen EXCEPT ![w] = NoAnswer]
    /\ UNCHANGED decided

AskPortfolio(w) ==
    /\ turn[w].a # NoCandidate
    /\ LET q == Question[turn[w].at]
       IN  /\ q # "evaluate"
           /\ seen' = [seen EXCEPT ![w][q] = Answer(turn[w].a, q)]
    /\ turn' = [turn EXCEPT ![w].at = @ + 1]
    /\ UNCHANGED decided

\* The mapping the repository returns: all of it, the reserve the default part
\* of the capacity, regime and drawdown from the environment (unset here).
RepositoryState(s) ==
    [capacity    |-> Capacity,
     committed   |-> s.committed,
     founderUsd  |-> s.founder,
     domainCount |-> s.domainCount,
     domainUsd   |-> s.domainUsd,
     pipeline    |-> s.pipeline,
     dry         |-> MaxOf(0, Capacity - s.committed),
     floor       |-> LiquidityFloor(Capacity),
     regime      |-> "neutral",
     drawdown    |-> 0]

\* Scores as the policy means them: gaming 0.05 is next to none.  (The detector
\* means 1.0 by that, so that the service's own scores never pass: PitchScreening.)
GoodScore == [quality |-> 95, gaming |-> 5, lower |-> 950000, upper |-> 1000000]
PoorScore == [GoodScore EXCEPT !.quality = 60]

ApplicationOf(a) ==
    [requested |-> CheckOf[a], domain |-> DomainOf[a], compliance |-> "clear"]

\* evaluate, upsert_decision and, at the end of the job, the commit.
CommitEvaluation(w) ==
    /\ turn[w].a # NoCandidate
    /\ Question[turn[w].at] = "evaluate"
    /\ \E score \in {GoodScore, PoorScore} :
           decided' = [decided EXCEPT ![turn[w].a] =
               Evaluate(ApplicationOf(turn[w].a), score, RepositoryState(seen[w])).decision]
    /\ turn' = [turn EXCEPT ![w] = Rest]
    /\ seen' = [seen EXCEPT ![w] = NoAnswer]

\* The worker dies: its transaction is rolled back, another will claim the job.
AbandonEvaluation(w) ==
    /\ turn[w].a # NoCandidate
    /\ turn' = [turn EXCEPT ![w] = Rest]
    /\ seen' = [seen EXCEPT ![w] = NoAnswer]
    /\ UNCHANGED decided

PortfolioNext ==
    \E w \in Evaluator :
        \/ \E a \in Candidate : StartEvaluation(w, a)
        \/ AskPortfolio(w) \/ CommitEvaluation(w) \/ AbandonEvaluation(w)

PortfolioSpec == PortfolioInit /\ [][PortfolioNext]_portfolioVars

-----------------------------------------------------------------------------
(* Properties.                                                              *)

LargestCheck == CHOOSE c \in {CheckOf[a] : a \in Candidate} :
                    \A a \in Candidate : CheckOf[a] <= c

\* Workers evaluate side by side and none locks what it reads, so the limits of
\* the fund can be passed: but by no more than one check for each worker but one.
\* Of the reserve, of a founder's 12 % and of a domain's 42 % alike.
OvershootBounded ==
    LET slack == (Cardinality(Evaluator) - 1) * LargestCheck
    IN  /\ Committed <= Capacity - LiquidityFloor(Capacity) + slack
        /\ \A a \in Candidate :
            /\ 100 * (FounderUsd(FounderOf[a]) - slack) <= 12 * Capacity
            /\ 100 * (DomainUsd(DomainOf[a]) - slack) <= 42 * Capacity

=============================================================================
