SPECIFICATION PartSpec
INVARIANTS ViewsExact HistoryKept RunsAsDeclared
PROPERTIES NodesServed AttributesExact EventsFaithful FiltersFaithful AggregateExact
CHECK_DEADLOCK FALSE
