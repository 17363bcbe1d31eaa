--------------------------- MODULE RegistryContract ---------------------------
(***************************************************************************)
(* What the model registry promises its callers: a map from keys (an id    *)
(* and a version) to entries, with a copy on the disk that follows it.     *)
(*                                                                         *)
(* A key is registered under a claim, which one call has at a time and     *)
(* which registers it once.  The copy takes on what the map has been, in   *)
(* that order, leaving versions out but never going back, except that a    *)
(* full disk empties it; the newest version is saved, or some call still   *)
(* owes that, or it is known to be lost.  What is left after a crash is    *)
(* the copy.                                                               *)
(*                                                                         *)
(* Packages, the threads with their snapshots, the numbers on these and    *)
(* every look before a step are left to ModelRegistry, which implements    *)
(* this.                                                                   *)
(***************************************************************************)
EXTENDS Naturals, Sequences

CONSTANTS Key, Entry, None

VARIABLES
    map,     \* what callers see
    disk,    \* what a restart would find
    newer,   \* the versions of the map since the one on the disk, in order
    newest,  \* the last of them is "saved", "owed" or "lost"
    claim    \* of each key: "free", "new", "replace", or "done" when registered

versions == <<map, disk, newer, newest>>
cvars == <<versions, claim>>

ContractInit ==
    /\ map = [k \in Key |-> None]
    /\ disk = map
    /\ newer = <<>>
    /\ newest = "saved"
    /\ claim = [k \in Key |-> "free"]

Claim(k, kind) ==
    /\ claim[k] = "free"
    /\ kind = "new" => map[k] = None
    /\ claim' = [claim EXCEPT ![k] = kind]
    /\ UNCHANGED versions

Withdraw(k) ==
    /\ claim[k] \in {"new", "replace"}
    /\ claim' = [claim EXCEPT ![k] = "free"]
    /\ UNCHANGED versions

Change(new) ==
    /\ map' = new
    /\ newer' = Append(newer, new)
    /\ newest' = "owed"
    /\ UNCHANGED disk

Add(k, entry) ==
    /\ claim[k] \in {"new", "replace"}
    /\ claim[k] = "new" => map[k] = None
    /\ Change([map EXCEPT ![k] = entry])
    /\ claim' = [claim EXCEPT ![k] = "done"]

Delete(k) ==
    /\ map[k] # None
    /\ Change([map EXCEPT ![k] = None])
    /\ UNCHANGED claim

\* Whatever becomes of its version, the call returns and gives up its claim.
Finish ==
    \/ UNCHANGED claim
    \/ \E k \in Key : claim[k] = "done" /\ claim' = [claim EXCEPT ![k] = "free"]

Write(i, found, outcome) ==
    /\ disk' = found
    /\ newer' = SubSeq(newer, i + 1, Len(newer))
    /\ newest' = IF i = Len(newer) THEN outcome ELSE newest
    /\ Finish
    /\ UNCHANGED map

Save(i) == Write(i, newer[i], "saved")

Tear(i) == Write(i, [k \in Key |-> None], "lost")

\* The version is older than the copy, or failed and is not the newest.
Skip == Finish /\ UNCHANGED versions

Lose ==
    /\ newest = "owed"
    /\ newest' = "lost"
    /\ Finish
    /\ UNCHANGED <<map, disk, newer>>

Restart ==
    /\ map' = disk
    /\ newer' = <<>>
    /\ newest' = "saved"
    /\ claim' = [k \in Key |-> "free"]
    /\ UNCHANGED disk

ContractNext ==
    \/ \E k \in Key :
           \/ \E kind \in {"new", "replace"} : Claim(k, kind)
           \/ Withdraw(k)
           \/ \E entry \in Entry : Add(k, entry)
           \/ Delete(k)
    \/ \E i \in 1 .. Len(newer) : Save(i) \/ Tear(i)
    \/ Skip \/ Lose \/ Restart

Contract == ContractInit /\ [][ContractNext]_cvars
=============================================================================
