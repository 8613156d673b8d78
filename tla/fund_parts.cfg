SPECIFICATION MCSpec
CHECK_DEADLOCK FALSE
CONSTANTS
    \* Portfolio
    a1 = a1
    a2 = a2
    a3 = a3
    a4 = a4
    Candidate = {a1, a2, a3, a4}
    Evaluator = {w1, w2}
    CheckOf <- MCCheckOf
    FounderOf <- MCFounderOf
    DomainOf <- MCDomainOf
    Capacity = 2400
    Funded <- MCFunded
    NoCandidate = NoCandidate
    \* FundApi
    Call = {c1, c2, c3}
    RequestKey = {k}
    \* ApiKeys
    ApiKey = {k1, k2}
    FirstKey = k1
    Operator = {o1, o2}
    BootToken = b
    NoToken = n
    CacheTtl = 2
    FetchTicks = 1
    Lifetime = 1
    \* TrackerHandoff
    MaxReruns = 1
    Setup <- MCSetup
    \* ReleaseGate
    LastTick = 2
    MaxGates = 1
    MaxActs = 4
    DrillAge <- MCDrillAge
    SnoozePolicy <- MCSnoozePolicy
    Exceptions <- MCExceptions
    RoutePolicies <- MCRoutePolicies
    \* ProfileRegistry
    Clerk = {u1, u2}
    Profiles <- MCProfiles
    HealthReport <- MCHealthReport
    GatePolicy <- MCGatePolicy
    StageInUse = {"shadow", "prod"}
    MaxHistory = 3
    MaxOverlaps = 1
    MaxWrites = 1
    \* AlertRouting
    OpsWorker = {p1}
    Cooldown = 2
    DeliveryTicks = 1
    RouterConfigs <- MCRouterConfigs
    Metrics <- MCMetrics
    \* Attestation
    Baseline = {"prod"}
    LastDay = 4
    MaxAge = 2
    Window = 1
    Cadence = 2
    MaxEdits = 1
    MaxPromotions = 1
    RoutingSetup <- MCRoutingSetup
    \* PitchScreening and Backtest
    Fixtures <- MCFixtures
    Suites <- MCSuites
    Rows <- MCRows
    Datasets <- MCDatasets
    Snapshots <- MCSnapshots
    Requested = 50
    Missing = Missing
    Unset = Unset
    Unreadable = Unreadable
INVARIANTS
    OvershootBounded
    RepeatNotApplied
    SecretNeverBehind
    AdmissionCurrent
    OneIssue
    FilingBounded
    NoBlindRelease
    ApprovalNotStretched
    HistoryReplays
    OnlyApproved
    AuditTellsHistory
    SilenceJustified
    PagedOncePerCooldown
    VerifiedReachable
    StaleForewarned
    SlaLagBounded
    
    ScreenedRefused
