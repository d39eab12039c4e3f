CONSTANT Words <- MCWords
CONSTANT Pipelines <- MCPipelines
SPECIFICATION Spec
INVARIANTS
    ExactAndPrompt
CHECK_DEADLOCK FALSE
