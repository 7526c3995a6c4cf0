SPECIFICATION PartSpec
CONSTANTS
    Part = {"recorder"}
    Starting = 400
    Quantum = 10
    Fee <- MCFee
    Price = {805, 3000}
    Quantity = {1, 2}
    MaxTime = 5
    MaxPositions = 2
    CandleCount = 4
    Shapes <- MCShapes
    Strengths = {1, 9}
    Horizons = {2, 4}
    Issues <- MCIssues
    MaxRank = 2
    Workers = {w1, w2}
    Maintenance = maintenance
    Lifecycles = {1, 2, 3}
    PortfolioOf <- MCPortfolioOf
    PositionOf <- MCPositionOf
    MaxAttempts = 2
SYMMETRY Symmetry
INVARIANT PositionsReachable
CHECK_DEADLOCK FALSE
