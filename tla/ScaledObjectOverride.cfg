CONSTANT Inputs <- OverrideInputs
CONSTANT Edits <- OneEdit
CONSTANT Unlimited = 99
SPECIFICATION Spec
INVARIANT OverrideSucceeds
