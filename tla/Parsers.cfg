SPECIFICATION Spec
INVARIANTS MachineMatchesGrammar ReportsExact KeptExact UriExact
CHECK_DEADLOCK FALSE
