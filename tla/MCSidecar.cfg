SPECIFICATION FairSpec
CONSTANT Modes = {"docker", "shell"}
INVARIANTS
    AgentReaped
PROPERTY CallsReturn
