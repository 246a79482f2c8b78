--------------------------- MODULE MCScenarioForms ---------------------------
EXTENDS ScenarioForms

MCTyped == {-10000, 250, 999999900}
MCEntered == {-10000, 250}
MCCarrier == [l \in Lidars |-> CHOOSE c \in Cars : TRUE]
=============================================================================
