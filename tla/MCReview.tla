------------------------------ MODULE MCReview ------------------------------
(***************************************************************************)
(* The review panel's three modules, which share no state: a behaviour is  *)
(* one of a module chosen at the start, the others stay in an initial      *)
(* state.                                                                  *)
(***************************************************************************)
EXTENDS ReviewFile, ReviewPanel, ReviewDiff, TLC

VARIABLE part

\* The host's file is not empty at the start; keeping an empty one makes it so.
MCInit ==
  /\ part \in {"file", "panel", "diff"}
  /\ PanelInit /\ ReviewInit /\ DiffInit
  /\ hostFile # Empty /\ (part # "file" => hostFile = NoFile)
  /\ part # "diff" => script = <<"addition">> /\ old_ends

FileSteps == part = "file" /\ ReviewNext /\ UNCHANGED <<panel_vars, diff_vars, part>>
PanelSteps == part = "panel" /\ PanelNext /\ UNCHANGED <<review_vars, diff_vars, part>>
DiffSteps == part = "diff" /\ DiffNext /\ UNCHANGED <<review_vars, panel_vars, part>>

MCNext == FileSteps \/ PanelSteps \/ DiffSteps

\* Workspaces and sandboxes are alike; only safety is checked.
MCSymmetry == Permutations(Projects) \cup Permutations(Boxes)

MCSpec == MCInit /\ [][MCNext]_<<review_vars, panel_vars, diff_vars, part>>
=============================================================================
