-------------------------- MODULE MCConditionManager --------------------------
\* The pod autoscaler's condition set, checked over every stored state.
EXTENDS ConditionManager

\* podCondSet of pa_lifecycle.go, and one dependent a later release would add
PodDependents == {"Active", "ScaleTargetInitialized", "SKSReady", "Added"}
===============================================================================
