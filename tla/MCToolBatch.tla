---------------------------- MODULE MCToolBatch ----------------------------
(* Two shell calls that must not overlap.                                   *)
EXTENDS ToolBatch

MCTool == [c \in 1..N |-> [kind |-> "shell", arg |-> NoArg]]
=============================================================================
