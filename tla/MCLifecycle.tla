---------------------------- MODULE MCLifecycle ----------------------------
(***************************************************************************)
(* Instances of the lifecycle for TLC, and the bounds of those in which    *)
(* more requests of users are possible than meet in one behaviour.         *)
(***************************************************************************)
EXTENDS LifecycleLiveness

\* A Restore meets one wipe request; where there is no Restore, a second request
\* follows the first.  The tokens are alike, so that one of them comes first.
FirstToken == CHOOSE t \in Token : TRUE
RestoreOrSecondWipe ==
    /\ asked # {} => FirstToken \in asked
    /\ (\E r \in Restore : phase[r] # "uncreated") => asked \subseteq {FirstToken}

\* Objects only vanish with their finalizers stripped, and are then taken over.
NoneDeleting == deleting = {}
=============================================================================
