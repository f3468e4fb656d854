------------------------------ MODULE MCRunLoop ------------------------------
(***************************************************************************)
(* Instances of RunLoop for TLC: the consumers s, y and b spin, yield and  *)
(* block, as in the demo; d is a second blocking consumer.                 *)
(***************************************************************************)
EXTENDS RunLoop

CONSTANTS s, y, b, d

StrategyOf ==
  [c \in Consumers |->
     CASE c = s -> "spin" [] c = y -> "yield" [] OTHER -> "block"]

\* Stop after kTotalMessages messages, as the demo and main.cpp do.
AllMessages == [c \in Consumers |-> N]

\* Run until shutdown.
Unlimited == [c \in Consumers |-> 0]

\* The yielding consumer leaves early, the others run until shutdown.
YielderLeavesEarly == [c \in Consumers |-> IF c = y THEN N - 1 ELSE 0]

\* Everybody leaves one message short of the total.
OneLess == [c \in Consumers |-> N - 1]

=============================================================================
