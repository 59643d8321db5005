----------------------------- MODULE MCDesktop -----------------------------
(***************************************************************************)
(* Parts of the desktop's window that share no state: a text field, the    *)
(* workspaces, the branch a row of theirs shows, the ports dialog, the     *)
(* providers' panel, and the terminal under a user who drags and turns the *)
(* wheel, its program asking nothing (MCAgents has one that does).  A      *)
(* behaviour is one of them, chosen at the start; the others stay in an    *)
(* initial state.                                                          *)
(***************************************************************************)
EXTENDS TextInput, Workspaces, RepoWatch, Ports, Providers, TerminalView, TLC

VARIABLE part

\* Two pairs that share the host port, two that share the guest port.
MCForward ==
  {[guest_port |-> 1, host_port |-> 1], [guest_port |-> 1, host_port |-> 2], [guest_port |-> 2, host_port |-> 2]}
MCExpose == {[guest_port |-> 1, host_port |-> 1]}

MCInit ==
  /\ part \in {"text", "workspaces", "repo", "ports", "providers", "screen"}
  /\ TextInit /\ WorkspacesInit /\ RepoInit /\ PortsInit /\ ProvidersInit /\ TerminalInit
  /\ part # "workspaces" => created = 0
  /\ part # "repo" => live_branch = NoWatcher /\ \A p \in Mounts : head[p] = NoRepo /\ ~is_git[p]

TextSteps ==
  part = "text" /\ TextNext /\ UNCHANGED <<workspaces_vars, repo_vars, ports_vars, provider_vars, terminal_vars, part>>
WorkspaceSteps ==
  part = "workspaces" /\ WorkspacesNext /\ UNCHANGED <<text_vars, repo_vars, ports_vars, provider_vars, terminal_vars, part>>
RepoSteps ==
  part = "repo" /\ RepoNext /\ UNCHANGED <<text_vars, workspaces_vars, ports_vars, provider_vars, terminal_vars, part>>
PortSteps ==
  part = "ports" /\ PortsNext /\ UNCHANGED <<text_vars, workspaces_vars, repo_vars, provider_vars, terminal_vars, part>>
\* What a write under a refresh leaves stays overlapped, and LoginIsTrue says nothing of it.
ProviderSteps ==
  part = "providers" /\ ~overlapped /\ ProvidersNext /\ UNCHANGED <<text_vars, workspaces_vars, repo_vars, ports_vars, terminal_vars, part>>
\* To the first overrun of the wheel, what it leaves included.
ScreenSteps ==
  /\ part = "screen" /\ ~wheel.over /\ TerminalNext /\ program' = program
  /\ UNCHANGED <<text_vars, workspaces_vars, repo_vars, ports_vars, provider_vars, part>>

MCNext == TextSteps \/ WorkspaceSteps \/ RepoSteps \/ PortSteps \/ ProviderSteps \/ ScreenSteps

\* Refreshers are alike; only safety is checked.
MCSymmetry == Permutations(Refreshers)

MCSpec == MCInit /\ [][MCNext]_<<text_vars, workspaces_vars, repo_vars, ports_vars, provider_vars, terminal_vars, part>>
=============================================================================
