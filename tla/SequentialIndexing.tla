------------------------- MODULE SequentialIndexing -------------------------
(***************************************************************************)
(* What the indexer promises its node, with no queue, worker or retry in   *)
(* sight: items are saved one at a time, in the order they were submitted, *)
(* each once, and every submitted item is saved as long as nobody closes   *)
(* the indexer.  It states the contract of NewDataDispatcher ("capable of  *)
(* saving sequentially data in elasticsearch database"); the module        *)
(* Dispatcher is the implementation.                                       *)
(***************************************************************************)
EXTENDS Naturals, Sequences

CONSTANT Items      \* the work items a node may submit

VARIABLES
  submitted,        \* the items submitted, in order
  saved,            \* the items saved in the database, in order
  closed            \* whether the indexer was closed

vars == <<submitted, saved, closed>>

Init ==
  /\ submitted = <<>>
  /\ saved = <<>>
  /\ closed = FALSE

Submit ==
  /\ \E item \in Items : submitted' = Append(submitted, item)
  /\ UNCHANGED <<saved, closed>>

SaveNext ==
  /\ Len(saved) < Len(submitted)
  /\ saved' = Append(saved, submitted[Len(saved) + 1])
  /\ UNCHANGED <<submitted, closed>>

Close ==
  /\ closed' = TRUE
  /\ UNCHANGED <<submitted, saved>>

Next == Submit \/ SaveNext \/ Close

Spec == Init /\ [][Next]_vars

\* A closed indexer may go on saving what was submitted, but need not.
FairSpec == Spec /\ WF_vars(SaveNext /\ ~closed)
=============================================================================
