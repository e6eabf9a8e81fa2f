CONSTANT Programs <- Linked
CONSTANT Selectors = {"a", "b"}
CONSTANT SelectorLists <- Lists
CONSTANT Namespaces = {"", "ns"}
CONSTANT None = None
SPECIFICATION Spec
INVARIANT PanicsIfIncomplete
INVARIANT GetsItsOwn
INVARIANT EachIsStarted
CHECK_DEADLOCK FALSE
