CONSTANTS
    Absent = Absent
    MaxChain = 3
    MaxForge = 4
    ProbedCerts <- MCProbedCerts
    Files <- MCFiles
    Inputs <- MCInputs
SPECIFICATION Spec
INVARIANTS
    ForgeComplete
