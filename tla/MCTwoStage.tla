------------------------------ MODULE MCTwoStage ------------------------------
EXTENDS TwoStageServer

MCGroupOf == [c \in Call |-> IF c \in {1, 2, 3} THEN "g" ELSE "h"]
MCBeamOf == [c \in Call |-> c - 1]
===============================================================================
