--------------------------- MODULE MCDeepSeekBridge ---------------------------
(* TLC instance of the bridge: see README for the bounds.                     *)
EXTENDS DeepSeekBridge, TLC

CONSTANTS c1, c2, shell

SameTool  == [c \in {c1, c2} |-> shell]
TwoRules  == [c \in {c1, c2} |-> IF c = c1 THEN "Ask" ELSE "ExplicitAsk"]
AllowBoth == [c \in {c1, c2} |-> "Allow"]
=============================================================================
