---------------------------- MODULE MCWorkflowStore ----------------------------
(* Small instances of WorkflowStore. *)
EXTENDS WorkflowStore, TLC

CONSTANTS h1, h2

Symmetry == Permutations(Handlers)

MCBlocks == {"a", "b", "c"}

UnknownOp(b) == [type |-> "add", block |-> b, refs |-> {}, known |-> FALSE, valid |-> TRUE]
AddOp(b, refs) == [type |-> "add", block |-> b, refs |-> refs, known |-> TRUE, valid |-> TRUE]
EditOp(b, refs, valid) ==
  [type |-> "edit", block |-> b, refs |-> refs, known |-> TRUE, valid |-> valid]
DeleteOp(b) == [type |-> "delete", block |-> b]
ConnectOp(s, h, t) == [type |-> "connect", block |-> s, target |-> t, handle |-> h]
DisconnectOp(s, t) == [type |-> "disconnect", block |-> s, target |-> t]

\* Two blocks, a third that refers to the first, ways to close a cycle, and ways
\* to take away what they rest on.
MCPatches ==
  {<<AddOp("a", {}), AddOp("b", {"a"}), ConnectOp("a", NoHandle, "b")>>,
   <<AddOp("c", {"a"}), ConnectOp("b", "true", "c"), ConnectOp("b", "", "c")>>,
   <<ConnectOp("b", DefaultHandle, "a")>>,
   <<ConnectOp("c", NoHandle, "a"), EditOp("c", {}, FALSE)>>,
   <<DeleteOp("b"), AddOp("b", {})>>,
   <<UnknownOp("c"), DisconnectOp("b", "c"), EditOp("a", {}, TRUE)>>}
===============================================================================
