---------------------------- MODULE ServerLease ----------------------------
(***************************************************************************)
(* What the operations on a GameServer promise one another: a lease.  One  *)
(* operation holds the server; the holder that has vanished is succeeded   *)
(* by one that first waits for its work to end; work is begun by the       *)
(* holder alone; and an exclusive operation works on the data while nobody *)
(* else does, the game included.                                           *)
(***************************************************************************)
CONSTANTS
    Op,          \* the operations
    Exclusive,   \* those that overwrite the data of the server
    None         \* nobody

VARIABLES
    holder,      \* the operation that holds the server
    recovering,  \* vanished holders whose work is still to be waited for
    alive,       \* the operations that exist
    working,     \* the operations with work in progress
    playing      \* the game uses the data

leaseVars == <<holder, recovering, alive, working, playing>>

Init ==
    /\ holder = None /\ recovering = {}
    /\ alive \in SUBSET Op
    /\ working = {} /\ ~playing

\* A free server, or one whose holder is no more; that one is still to be recovered.
Take(o) ==
    /\ o \in alive \ {holder}
    /\ IF holder = None THEN recovering = {} ELSE holder \notin alive
    /\ holder' = o /\ recovering' = recovering \cup ({holder} \ {None})
    /\ UNCHANGED <<alive, working, playing>>

Recover ==
    /\ recovering \cap working = {}
    /\ recovering' = {}
    /\ UNCHANGED <<holder, alive, working, playing>>

\* A holder leaves when its own work and the recovery are over, to a successor at once
\* or to nobody.
HandOver(o) ==
    /\ holder # None /\ holder \notin working /\ recovering = {}
    /\ holder' = o
    /\ UNCHANGED <<recovering, alive, working, playing>>

Begin(o) ==
    /\ holder = o /\ o \in alive /\ recovering = {}
    /\ working = {} /\ (o \in Exclusive => ~playing)
    /\ working' = {o}
    /\ UNCHANGED <<holder, recovering, alive, playing>>

\* Work ends, for the holder or for one that vanished.
End ==
    /\ working' \in SUBSET working
    /\ UNCHANGED <<holder, recovering, alive, playing>>

Play ==
    /\ working \cap Exclusive = {}
    /\ playing' = TRUE
    /\ UNCHANGED <<holder, recovering, alive, working>>

Quit ==
    /\ playing' = FALSE
    /\ UNCHANGED <<holder, recovering, alive, working>>

\* Operations are created and vanish at any time.
ComeAndGo ==
    /\ alive' \in SUBSET Op
    /\ UNCHANGED <<holder, recovering, working, playing>>

Next ==
    \/ End \/ Play \/ Quit \/ ComeAndGo \/ Recover
    \/ \E o \in Op : Take(o) \/ Begin(o)
    \/ \E o \in alive \cup {None} : HandOver(o)

Spec == Init /\ [][Next]_leaseVars
=============================================================================
