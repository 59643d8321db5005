------------------------------ MODULE MCAgents ------------------------------
(***************************************************************************)
(* What runs behind an agent's tab, in parts that share no state: the      *)
(* runtime image, the boot of the agent, its events, its gateway and what  *)
(* its program asks of the terminal, under a user who types and scrolls by *)
(* the scrollbar (MCDesktop has one who drags and turns the wheel).  A     *)
(* behaviour is one of them, chosen at the start; the others stay in their *)
(* initial state.                                                          *)
(***************************************************************************)
EXTENDS RuntimeInstall, AgentBoot, AgentEvents, Gateway, TerminalView

VARIABLE part

all_vars == <<runtime_vars, boot_vars, event_vars, gateway_vars, terminal_vars, part>>

MCInit ==
  /\ part \in {"runtime", "boot", "events", "gateway", "answers"}
  /\ RuntimeInit /\ BootInit /\ EventsInit /\ GatewayInit /\ TerminalInit
  /\ part # "boot" => secrets

RuntimeSteps == part = "runtime" /\ RuntimeNext /\ UNCHANGED <<boot_vars, event_vars, gateway_vars, terminal_vars, part>>
BootSteps == part = "boot" /\ BootNext /\ UNCHANGED <<runtime_vars, event_vars, gateway_vars, terminal_vars, part>>
EventSteps == part = "events" /\ EventsNext /\ UNCHANGED <<runtime_vars, boot_vars, gateway_vars, terminal_vars, part>>
GatewaySteps == part = "gateway" /\ GatewayNext /\ UNCHANGED <<runtime_vars, boot_vars, event_vars, terminal_vars, part>>
TerminalSteps ==
  /\ part = "answers" /\ TerminalNext /\ mouse' = mouse /\ wheel' = wheel
  /\ UNCHANGED <<runtime_vars, boot_vars, event_vars, gateway_vars, part>>

MCNext == RuntimeSteps \/ BootSteps \/ EventSteps \/ GatewaySteps \/ TerminalSteps

\* EventsFairness, GatewayFairness and TerminalFairness, of the part that was chosen: nothing
\* fair is enabled in the initial state of the runtime's and the gateway's.
MCFairness ==
  /\ RuntimeFairness /\ GatewayFairness
  /\ WF_event_vars(part = "events" /\ WatcherStep) /\ WF_event_vars(part = "events" /\ Bridge)
  /\ WF_terminal_vars(part = "answers" /\ RenderFrame) /\ WF_terminal_vars(part = "answers" /\ TuiOrDeadline)

MCSpec == MCInit /\ [][MCNext]_all_vars /\ MCFairness
=============================================================================
