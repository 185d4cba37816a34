--------------------------- MODULE MCMemoryWorker ---------------------------
(* Two notes; the model adds a note and links one, or updates one.         *)
EXTENDS MemoryWorker, TLC

CONSTANTS n1, n2

Add    == [action |-> "add", target |-> NoResult, link |-> NoResult]
Update == [action |-> "update", target |-> n1, link |-> NoResult]
Link   == [action |-> "link", target |-> n1, link |-> n2]

SmallChanges == {<<Add, Link>>, <<Update>>}
AnyWorker    == Permutations(Workers)
=============================================================================
