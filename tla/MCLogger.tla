------------------------------ MODULE MCLogger ------------------------------
EXTENDS Logger, TLC

CONSTANTS w1, w2
TwoWriters == {w1, w2}
=============================================================================
