------------------------------ MODULE MCToolCalls ------------------------------
(* ToolCalls for an operator with all file tools, an operator who may only  *)
(* read, and somebody else.                                                 *)
EXTENDS ToolCalls, TLC

Some == [allowed |-> {"file_read", "file_list"}, role |-> "operator", workspace |-> TRUE]

SomeLaunches ==
  {[Some EXCEPT !.allowed = FileTools], Some, [Some EXCEPT !.allowed = FileTools, !.role = "user"],
   [Some EXCEPT !.workspace = FALSE]}

(* No name is special.                                                     *)
NameSymmetry == Permutations(Names)
=============================================================================
