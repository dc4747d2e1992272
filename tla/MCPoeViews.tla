----------------------------- MODULE MCPoeViews -----------------------------
(* PoeViews on small instances.  Requests are alike, and so are ports.     *)
EXTENDS PoeViews, TLC

Alike == Permutations(Request) \cup Permutations(Port)
=============================================================================
