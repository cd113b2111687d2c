---------------------------- MODULE SensorPanelMC ----------------------------
EXTENDS SensorPanel

Text(neg, whole, frac) == [neg |-> neg, whole |-> whole, frac |-> frac]

\* Milli-degrees: far below zero, just below it and just above it, close together.
MCTemps  == {Text(TRUE, 31985, <<>>), Text(TRUE, 40, <<>>), Text(FALSE, 190, <<>>)}
MCHums   == {Text(FALSE, 24, <<0, 2, 3>>)}
MCPress  == {Text(FALSE, 225, <<9, 8, 1>>)}
MCScales == {Text(FALSE, 0, <<0, 0, 0, 5, 9, 8, 6, 2, 4>>), Text(FALSE, 0, <<0>>)}
MCRaws   == {Text(TRUE, 7, <<>>)}
=============================================================================
