------------------------- MODULE ReviewReplacement -------------------------
(***************************************************************************)
(* What the posting workflow promises a reader of a merge request, without *)
(* notes, drafts, checks or faults.  Reviews replace one another: one of    *)
(* them, the leader, always stands, only a standing review takes over, and  *)
(* a review that once had the right to remove others never comes back after *)
(* it has been taken down.                                                  *)
(***************************************************************************)
CONSTANTS Review, First

VARIABLES
  standing,   \* reviews of which every part is visible
  entitled,   \* reviews whose job has begun to remove earlier ones
  leader      \* the entitled review with the latest view of the merge request

vars == <<standing, entitled, leader>>

Init == standing = {First} /\ entitled = {First} /\ leader = First

(* The last part of a review becomes visible.                               *)
Complete(r) ==
  /\ r \in Review \ (standing \cup entitled)
  /\ standing' = standing \cup {r}
  /\ UNCHANGED <<entitled, leader>>

(* A job withdraws its own review, or a later one removes a part of it.     *)
Lose(r) ==
  /\ r \in standing \ {leader}
  /\ standing' = standing \ {r}
  /\ UNCHANGED <<entitled, leader>>

(* A job removes a first part of an earlier review; it takes over unless a  *)
(* job with a later view already has.                                       *)
Begin(r) ==
  /\ r \in Review \ entitled
  /\ entitled' = entitled \cup {r}
  /\ \/ r \in standing /\ leader' = r
     \/ leader' = leader
  /\ \E lost \in Review \ {leader'} : standing' \in {standing, standing \ {lost}}

Next == \E r \in Review : Complete(r) \/ Lose(r) \/ Begin(r)

Spec == Init /\ [][Next]_vars
=============================================================================
