------------------------------ MODULE MostWork ------------------------------
(***************************************************************************)
(* What ChainDB promises, without trunk, targets, cache or store: a node   *)
(* learns headers, each with the work of the chain it ends; its tip is the *)
(* first learnt of the headers with most work; a restart goes back to a    *)
(* state that was saved, keeping at least the saved tip and nothing that   *)
(* was not saved.                                                          *)
(***************************************************************************)
EXTENDS Integers

CONSTANTS Hash, NoHash

VARIABLES
    work,   \* a function: the headers learnt, with their work
    tip,    \* the header with most work, NoHash while the node is down
    saved   \* the last [work, tip] saved

vars == <<work, tip, saved>>

Nothing == [h \in {} |-> 0]

Init ==
    /\ work = Nothing
    /\ tip = NoHash
    /\ saved = [work |-> Nothing, tip |-> NoHash]

\* The first header ever: learnt and saved before anything else happens.
Begin(h) ==
    /\ tip = NoHash
    /\ saved.tip = NoHash
    /\ DOMAIN work' = {h}
    /\ tip' = h
    /\ saved' = [work |-> work', tip |-> h]

Learn(h) ==
    /\ tip # NoHash
    /\ h \notin DOMAIN work
    /\ DOMAIN work' = DOMAIN work \cup {h}
    /\ \A x \in DOMAIN work : work'[x] = work[x]
    /\ tip' = IF work'[h] > work[tip] THEN h ELSE tip
    /\ UNCHANGED saved

\* What was saved before and forgotten by a restart stays saved.
Save ==
    /\ tip # NoHash
    /\ \E old \in SUBSET DOMAIN saved.work :
          saved' = [work |-> [h \in DOMAIN work \cup old |->
                                 IF h \in DOMAIN work THEN work[h] ELSE saved.work[h]],
                    tip  |-> tip]
    /\ UNCHANGED <<work, tip>>

Crash ==
    /\ tip # NoHash
    /\ work' = Nothing
    /\ tip' = NoHash
    /\ UNCHANGED saved

Restart ==
    /\ tip = NoHash
    /\ saved.tip # NoHash
    /\ tip' = saved.tip
    /\ \E kept \in SUBSET DOMAIN saved.work :
          /\ saved.tip \in kept
          /\ work' = [h \in kept |-> saved.work[h]]
    /\ UNCHANGED saved

Next ==
    \/ \E h \in Hash : Begin(h) \/ Learn(h)
    \/ Save
    \/ Crash
    \/ Restart

Spec == Init /\ [][Next]_vars

=============================================================================
