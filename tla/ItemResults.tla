----------------------------- MODULE ItemResults -----------------------------
(***************************************************************************)
(* What a call over several items promises: every item is decided exactly  *)
(* once, in any order, and the call returns, once, after the last of them. *)
(***************************************************************************)
CONSTANT Items

VARIABLES
  decided,    \* decided[i]: "open" until item i has its result
  returned    \* the call has returned

itemVars == <<decided, returned>>

ItemsInit ==
  /\ decided = [i \in Items |-> "open"]
  /\ returned = FALSE

Decide(i, verdict) ==
  /\ decided[i] = "open"
  /\ decided' = [decided EXCEPT ![i] = verdict]
  /\ UNCHANGED returned

Return ==
  /\ \A i \in Items : decided[i] # "open"
  /\ returned = FALSE
  /\ returned' = TRUE
  /\ UNCHANGED decided

ItemsNext ==
  \/ \E i \in Items, verdict \in {"success", "failure"} : Decide(i, verdict)
  \/ Return

ItemsSafeSpec == ItemsInit /\ [][ItemsNext]_itemVars
ItemsSpec == ItemsSafeSpec /\ WF_itemVars(ItemsNext)
=============================================================================
