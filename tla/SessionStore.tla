---------------------------- MODULE SessionStore ----------------------------
(***************************************************************************)
(* What the sessions folder promises a user: a session is absent, then     *)
(* open, and in the end either finished (its recording was stopped) or     *)
(* recovered (a later launch picked it up).  Finished and recovered are    *)
(* final, every session has a folder of its own, and a folder keeps its    *)
(* name once its session is finished or recovered.                         *)
(*                                                                         *)
(* SessionLifecycle implements this (see SessionLifecycle!Store).          *)
(***************************************************************************)
CONSTANTS Sessions, Folders, NoFolder

VARIABLES
    state,          \* per session: "absent", "open", "finished", "recovered"
    folder          \* per session: where its data are

storeVars == <<state, folder>>

StoreInit ==
    /\ state = [s \in Sessions |-> "absent"]
    /\ folder = [s \in Sessions |-> NoFolder]

\* A folder no other session has.
Unused(f) == \A s \in Sessions : folder[s] # f

Open(s) ==
    /\ state[s] = "absent"
    /\ Unused(folder'[s])
    /\ folder' = [folder EXCEPT ![s] = folder'[s]]
    /\ folder'[s] \in Folders
    /\ state' = [state EXCEPT ![s] = "open"]

\* The folder is renamed, to a name nobody has, or keeps its name.
Settle(s, outcome) ==
    /\ state[s] = "open"
    /\ folder'[s] = folder[s] \/ Unused(folder'[s])
    /\ folder' = [folder EXCEPT ![s] = folder'[s]]
    /\ folder'[s] \in Folders
    /\ state' = [state EXCEPT ![s] = outcome]

StoreNext ==
    \E s \in Sessions :
        Open(s) \/ Settle(s, "finished") \/ Settle(s, "recovered")

StoreSpec == StoreInit /\ [][StoreNext]_storeVars
=============================================================================
