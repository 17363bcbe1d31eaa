-------------------------- MODULE InstanceLifecycle --------------------------
(***************************************************************************)
(* What an instance promises the threads that share it: a status and at    *)
(* most one driver, the thread that steps it.                              *)
(*                                                                         *)
(* A driver is hired by start() when there is none, leaves only when it    *)
(* has been asked to, and is dismissed, which makes room for another, by a *)
(* stop() that is under way.  A stop() that no start() disturbs has no     *)
(* driver left when it reports, and always gets there.                     *)
(*                                                                         *)
(* Which std::thread the driver is, how stop() tests and joins it, the     *)
(* steps and snapshots it makes, step(), and all of mjData are left to     *)
(* Instance, which implements this.                                        *)
(***************************************************************************)
CONSTANT Caller

VARIABLES
    status,      \* what the instance reports
    driver,      \* "none", "driving", or "gone": left and not yet dismissed
    asked,       \* the driver has been asked to leave
    stopping,    \* callers whose stop() is under way
    undisturbed, \* those of them no start() has come after
    dead         \* the process is gone

lvars == <<status, driver, asked, stopping, undisturbed, dead>>

LifeInit ==
    /\ status = "Created"
    /\ driver = "none"
    /\ asked = FALSE
    /\ stopping = {}
    /\ undisturbed = {}
    /\ dead = FALSE

BeginAgain ==
    /\ ~dead
    /\ status' = "Created"
    /\ UNCHANGED <<driver, asked, stopping, undisturbed, dead>>

Run ==
    /\ ~dead
    /\ status' = "Running"
    /\ driver' = IF driver = "none" THEN "driving" ELSE driver
    /\ asked' = FALSE
    /\ undisturbed' = {}
    /\ UNCHANGED <<stopping, dead>>

Halt ==
    /\ ~dead
    /\ status = "Running"
    /\ status' = "Paused"
    /\ UNCHANGED <<driver, asked, stopping, undisturbed, dead>>

Ask(c) ==
    /\ ~dead
    /\ c \notin stopping
    /\ asked' = TRUE
    /\ stopping' = stopping \cup {c}
    /\ undisturbed' = undisturbed \cup {c}
    /\ UNCHANGED <<status, driver, dead>>

Leave ==
    /\ ~dead
    /\ driver = "driving" /\ asked
    /\ driver' = "gone"
    /\ UNCHANGED <<status, asked, stopping, undisturbed, dead>>

Dismiss ==
    /\ ~dead
    /\ driver = "gone" /\ stopping # {}
    /\ driver' = "none"
    /\ UNCHANGED <<status, asked, stopping, undisturbed, dead>>

Report(c) ==
    /\ ~dead
    /\ c \in stopping
    /\ c \in undisturbed => driver = "none"
    /\ status' = "Stopped"
    /\ stopping' = stopping \ {c}
    /\ undisturbed' = undisturbed \ {c}
    /\ UNCHANGED <<driver, asked, dead>>

\* Two stops at once are beyond what is promised: one may fail or be fatal.
Collide(c) ==
    /\ ~dead
    /\ c \in stopping
    /\ \/ /\ stopping' = stopping \ {c}
          /\ undisturbed' = undisturbed \ {c}
          /\ UNCHANGED dead
       \/ dead' = TRUE /\ UNCHANGED <<stopping, undisturbed>>
    /\ UNCHANGED <<status, driver, asked>>

LifeNext ==
    \/ BeginAgain \/ Run \/ Halt \/ Leave \/ Dismiss
    \/ \E c \in Caller : Ask(c) \/ Report(c) \/ Collide(c)

Life == LifeInit /\ [][LifeNext]_lvars

LifeFairness ==
    /\ WF_lvars(Leave)
    /\ WF_lvars(Dismiss)
    /\ \A c \in Caller :
           WF_lvars(c \in undisturbed /\ (Report(c) \/ Collide(c)))

LiveLife == Life /\ LifeFairness
=============================================================================
