------------------------------ MODULE MCProcess ------------------------------
(* Main and three processes: a child, a grandchild and a sibling of either. *)
EXTENDS Process

FourProcs == 1 .. 4

=============================================================================
