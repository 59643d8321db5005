--------------------------- MODULE MCTabLifecycle ---------------------------
\* Two workspaces, interchangeable.
EXTENDS TabLifecycle, TLC
WorkspaceSymmetry == Permutations(Workspace)
=============================================================================
