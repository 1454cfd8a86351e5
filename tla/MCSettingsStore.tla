-------------------------- MODULE MCSettingsStore --------------------------
EXTENDS SettingsStore, TLC

CONSTANTS Light, Dark, Greater, Containing

\* The operator "Contains" is written in the language of the program; a text that is
\* not the English one comes back as the default operator.
MCReadBack == [f \in Filters |-> IF f = Containing THEN Greater ELSE f]

MCDefault == [theme |-> Light, filter |-> Greater]

Symmetry == Permutations(Instances)
=============================================================================
