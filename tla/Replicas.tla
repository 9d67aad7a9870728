------------------------------ MODULE Replicas ------------------------------
(***************************************************************************)
(* What sync promises, whatever the remote: events are recorded on one     *)
(* machine, copied to the remote and from there to other machines.  A copy *)
(* is never lost, and nothing is stored that was not recorded.  (Push does *)
(* not drain the local store, and the remote is append-only.)              *)
(***************************************************************************)
CONSTANTS
    Machines,
    Ids,       \* event ids
    Home       \* Home[id]: the machine that records the event

VARIABLES
    remote,    \* the ids the remote holds
    held       \* the ids each machine holds

Init ==
    /\ remote = {}
    /\ held = [m \in Machines |-> {}]

\* An event is recorded on its machine.
Record(id) ==
    /\ held' = [held EXCEPT ![Home[id]] = @ \cup {id}]
    /\ UNCHANGED remote

\* A machine copies an event it holds to the remote.
Upload(m) ==
    /\ \E id \in held[m] : remote' = remote \cup {id}
    /\ UNCHANGED held

\* A machine copies an event from the remote.
Download(m) ==
    /\ \E id \in remote : held' = [held EXCEPT ![m] = @ \cup {id}]
    /\ UNCHANGED remote

Next ==
    \/ \E id \in Ids : Record(id)
    \/ \E m \in Machines : Upload(m) \/ Download(m)

Spec == Init /\ [][Next]_<<remote, held>>

=============================================================================
