--------------------------- MODULE ChainDBMostWork ---------------------------
(***************************************************************************)
(* ChainDB as an implementation of MostWork: the refinement mapping.       *)
(***************************************************************************)
EXTENDS ChainDB

\* The state of MostWork: what is known while the node runs, and the last batch.
AbsWork ==
    [h \in (IF phase \in {"up", "poisoned"} THEN Known ELSE {}) |-> headers[h].log2work]
AbsTip == IF phase \in {"up", "poisoned"} THEN tip_hash ELSE NoHash
AbsSaved ==
    [work |-> [h \in (IF disk.tip # NoHash THEN DOMAIN disk.headers ELSE {}) |->
                  disk.headers[h].log2work],
     tip  |-> disk.tip]

Abstract == INSTANCE MostWork WITH work <- AbsWork, tip <- AbsTip, saved <- AbsSaved

\* ChainDB implements MostWork: the tip is the first seen of the headers with
\* most work, and a crash loses nothing that was batched.
ImplementsMostWork == Abstract!Spec

=============================================================================
