-------------------------- MODULE MCBootLifecycle --------------------------
EXTENDS BootLifecycle

\* Two units whose reports come in either order; a hook that reports a state
\* of its own after the last of the units.
TwoUnits == {GrubStates + 1, LastState}
UnitAndHook == {LastState, Custom}

=============================================================================
