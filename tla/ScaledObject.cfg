CONSTANT Inputs <- AllInputs
CONSTANT Edits <- OneEdit
CONSTANT Unlimited = 99
SPECIFICATION Spec
INVARIANT ResourceNeverAtZero
INVARIANT DefaultTriggerIsLegal
INVARIANT TrafficOnlyMovesMin
INVARIANT DirectionsAreApart
INVARIANT ScalesAsHPA
