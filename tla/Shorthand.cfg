SPECIFICATION AwaitSpec
CONSTANT MaxStatements = 3
INVARIANT NoGroupedStatementUsesAnother
CHECK_DEADLOCK FALSE
