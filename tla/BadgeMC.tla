------------------------------- MODULE BadgeMC ------------------------------
EXTENDS Badge

MCKeys == {"fn", "esc", "enter", "up", "down"}
=============================================================================
