----------------------------- MODULE AgentBoot ------------------------------
(***************************************************************************)
(* From an agent tab to a running agent: the install steps of a first use, *)
(* run in a sandbox of their own and saved as the agent's base checkpoint, *)
(* the boot of the tab's sandbox from that checkpoint, the shell, and the  *)
(* list of setup steps the tab shows meanwhile (boot.rs, service.rs,       *)
(* agent_setup.rs, session.rs; the prompt for missing secrets from         *)
(* workspace.rs and lifecycle.rs).  All tabs run the same agent; what      *)
(* closing, checkpointing, forking and restoring do to a tab is            *)
(* TabLifecycle's.                                                         *)
(***************************************************************************)
EXTENDS Naturals, Sequences

CONSTANTS AgentTabs,     \* the tabs of one agent
          InstallSteps,  \* the number of its install_steps
          MaxStarts      \* bound: starts of the program

ASSUME InstallAssumption == InstallSteps \in Nat \ {0} /\ MaxStarts \in Nat

NoTab == "none"
ASSUME AgentTabsAssumption == NoTab \notin AgentTabs

VARIABLES
    base,      \* the checkpoint agent-<slug>-base: the steps in it, or NoBase
    boot,      \* per tab: the boot task, where it is and what it captured
    setup,     \* per tab: setup_steps (the empty sequence is None), setup_error
    prompt,    \* the tab missing_secrets_prompt names
    secrets,   \* whether check_missing finds every secret
    starts

boot_vars == <<base, boot, setup, prompt, secrets, starts>>

Step == 1..InstallSteps
NoBase == {0}
AllSteps == Step

(* at: where the task is.  step: the install step it runs.  done: what the *)
(* install sandbox has had run.  start: the index of "Starting workspace". *)
(* short: dismissed into an install with a list of one step.  erred: ghost,*)
(* the failures met since the steps were through.                          *)
Closed == [at |-> "closed", step |-> 0, done |-> {}, start |-> 0,
           short |-> FALSE, erred |-> {}]
Blank == [steps |-> <<>>, error |-> FALSE]
Installing == {"preparing", "step", "saving"}
Busy == Installing \cup {"booting", "opening", "waiting"}

BootTypeOK ==
    /\ base \in SUBSET Step \cup {NoBase}
    /\ boot \in [AgentTabs -> [at : Busy \cup {"closed", "asking", "failed", "shown"},
                               step : 0..InstallSteps, done : SUBSET Step,
                               start : 0..InstallSteps + 2, short : BOOLEAN,
                               erred : SUBSET {"save", "boot", "shell"}]]
    /\ setup \in [AgentTabs -> [steps : Seq({"pending", "active", "done", "failed"}),
                                error : BOOLEAN]]
    /\ prompt \in AgentTabs \cup {NoTab}
    /\ secrets \in BOOLEAN /\ starts \in 0..MaxStarts

BootInit ==
    /\ base = NoBase
    /\ boot = [t \in AgentTabs |-> Closed] /\ setup = [t \in AgentTabs |-> Blank]
    /\ prompt = NoTab /\ secrets \in BOOLEAN /\ starts = 0

-----------------------------------------------------------------------------
(* The setup list.  Indexes are the code's, from 0: an index past the end  *)
(* changes nothing (steps.get_mut).                                        *)
set_step(steps, ix, status) ==
    IF ix + 1 \in DOMAIN steps THEN [steps EXCEPT ![ix + 1] = status] ELSE steps
advance_step(steps, done_ix, next_ix) ==
    set_step(set_step(steps, done_ix, "done"), next_ix, "active")

NeedsInstall == base = NoBase
FullSteps == [i \in 1..InstallSteps + 3 |-> IF i = 1 THEN "active" ELSE "pending"]
OneStep == <<"active">>
SetupList == IF NeedsInstall THEN FullSteps ELSE OneStep

start_ws_step == IF NeedsInstall THEN InstallSteps + 2 ELSE 0

(* boot_agent_tab: the task is spawned with what holds now.                *)
Boots(t, steps) ==
    /\ boot' = [boot EXCEPT ![t] =
          [Closed EXCEPT !.at = IF NeedsInstall THEN "preparing" ELSE "booting",
                         !.start = start_ws_step,
                         !.short = NeedsInstall /\ Len(steps) = 1]]
    /\ setup' = [setup EXCEPT ![t] = [steps |-> steps, error |-> FALSE]]

(* open_agent_tab: with a secret missing the tab shows an error and takes  *)
(* the one prompt, from whichever tab had it.                              *)
OpenAgentTab(t) ==
    /\ boot[t].at = "closed"
    /\ \/ secrets /\ Boots(t, SetupList) /\ UNCHANGED prompt
       \/ /\ ~secrets
          /\ prompt' = t
          /\ setup' = [setup EXCEPT ![t] = [steps |-> <<>>, error |-> TRUE]]
          /\ boot' = [boot EXCEPT ![t].at = "asking"]
    /\ UNCHANGED <<base, secrets, starts>>

(* on_settings_closed: the prompt's tab boots once nothing is missing.     *)
SettingsClosed ==
    /\ prompt # NoTab /\ secrets
    /\ Boots(prompt, SetupList) /\ prompt' = NoTab
    /\ UNCHANGED <<base, secrets, starts>>

(* dismiss_missing_secrets: boots with a list of one step in any case.     *)
DismissMissingSecrets ==
    /\ prompt # NoTab
    /\ Boots(prompt, OneStep) /\ prompt' = NoTab
    /\ UNCHANGED <<base, secrets, starts>>

(* Switching to another workspace drops the prompt.                        *)
SwitchWorkspace ==
    /\ prompt # NoTab /\ prompt' = NoTab
    /\ UNCHANGED <<base, boot, setup, secrets, starts>>

SecretsChange == secrets' = ~secrets /\ UNCHANGED <<base, boot, setup, prompt, starts>>

-----------------------------------------------------------------------------
(* The task moves on, and shows it by one advance_step.                    *)
Moves(t, to, done_ix) ==
    /\ boot' = [boot EXCEPT ![t] = to]
    /\ setup' = [setup EXCEPT ![t].steps = advance_step(@, done_ix, done_ix + 1)]
fail_setup(t, ix) ==
    [setup EXCEPT ![t] = [steps |-> set_step(@.steps, ix, "failed"), error |-> TRUE]]
Fails(t, ix, why) ==
    /\ boot' = [boot EXCEPT ![t].at = "failed", ![t].erred = @ \cup why]
    /\ setup' = fail_setup(t, ix)

PrepareSandbox(t) ==
    /\ boot[t].at = "preparing"
    /\ \/ Moves(t, [boot[t] EXCEPT !.at = "step", !.step = 1], 0)
       \/ Fails(t, 0, {})
    /\ UNCHANGED <<base, prompt, secrets, starts>>

(* One install step (skip_if says what it does is already there, or it is  *)
(* run); the last one is followed by .bash_profile, whose result is        *)
(* ignored, and the step "Saving for next time".                           *)
StepDone(t) ==
    LET i == boot[t].step
        next == [boot[t] EXCEPT !.done = @ \cup {i}]
    IN Moves(t, IF i < InstallSteps THEN [next EXCEPT !.step = i + 1]
                                    ELSE [next EXCEPT !.at = "saving"], i)
(* A variant that reports a failed step and goes on to the next one.       *)
StepFailsOn(t) ==
    LET i == boot[t].step IN
    Moves(t, IF i < InstallSteps THEN [boot[t] EXCEPT !.step = i + 1]
                                 ELSE [boot[t] EXCEPT !.at = "saving"], i)
StepFails(t) == Fails(t, boot[t].step, {})
RunStep(t) ==
    /\ boot[t].at = "step"
    /\ StepDone(t) \/ StepFails(t)
    /\ UNCHANGED <<base, prompt, secrets, starts>>

(* checkpoint: a failure is only printed.  The install sandbox is stopped  *)
(* and the tab boots from the checkpoint's name all the same.              *)
SaveCheckpoint(t) ==
    /\ boot[t].at = "saving"
    /\ \E saved \in BOOLEAN :
          /\ base' = IF saved THEN boot[t].done ELSE base
          /\ Moves(t, [boot[t] EXCEPT !.at = "booting",
                          !.erred = IF saved THEN {} ELSE {"save"}], InstallSteps + 1)
    /\ UNCHANGED <<prompt, secrets, starts>>

(* boot_with_retry: three attempts, and none can succeed from a checkpoint *)
(* that does not exist.  With one, three failures are a failure of its own.*)
BootSandbox(t) ==
    /\ boot[t].at = "booting"
    /\ \/ /\ base # NoBase
          /\ boot' = [boot EXCEPT ![t].at = "opening"] /\ UNCHANGED setup
       \/ Fails(t, boot[t].start, IF base = NoBase THEN {} ELSE {"boot"})
    /\ UNCHANGED <<base, prompt, secrets, starts>>

OpenShell(t) ==
    /\ boot[t].at = "opening"
    /\ \/ boot' = [boot EXCEPT ![t].at = "waiting"] /\ UNCHANGED setup
       \/ Fails(t, boot[t].start, {"shell"})
    /\ UNCHANGED <<base, prompt, secrets, starts>>

(* The TUI took over the screen, or ten seconds passed: the list goes.     *)
ShowTerminal(t) ==
    /\ boot[t].at = "waiting"
    /\ boot' = [boot EXCEPT ![t] = [Closed EXCEPT !.at = "shown"]]
    /\ setup' = [setup EXCEPT ![t] = Blank]
    /\ UNCHANGED <<base, prompt, secrets, starts>>

(* The program ends, whatever runs; checkpoints stay.                      *)
AppRestarts ==
    /\ starts < MaxStarts /\ starts' = starts + 1
    /\ boot' = [t \in AgentTabs |-> Closed] /\ setup' = [t \in AgentTabs |-> Blank]
    /\ prompt' = NoTab
    /\ UNCHANGED <<base, secrets>>

BootTask(t) ==
    \/ PrepareSandbox(t) \/ RunStep(t) \/ SaveCheckpoint(t)
    \/ BootSandbox(t) \/ OpenShell(t) \/ ShowTerminal(t)
BootNext ==
    \/ \E t \in AgentTabs : OpenAgentTab(t) \/ BootTask(t)
    \/ SettingsClosed \/ DismissMissingSecrets \/ SwitchWorkspace
    \/ SecretsChange \/ AppRestarts
BootFairness == \A t \in AgentTabs : WF_boot_vars(BootTask(t))
BootSpec == BootInit /\ [][BootNext]_boot_vars /\ BootFairness

-----------------------------------------------------------------------------
(* Every sandbox an agent runs in has had all its install steps: a failed, *)
(* skipped, interrupted or concurrent first installation never leaves a    *)
(* checkpoint with a step missing for the tabs that boot from it later.    *)
CheckpointIsComplete == base \in {NoBase, AllSteps}

(* What a tab shows is how far its task is: steps done, then the one that  *)
(* runs or failed, then steps to come; a failed task has an error and      *)
(* exactly one failed step.  A dismissed prompt that leads to an install   *)
(* is excepted: its list has the one step "Starting workspace".            *)
StepsShowProgress ==
    \A t \in AgentTabs :
        LET s == setup[t].steps IN
        s # <<>> /\ ~boot[t].short =>
            /\ \E k \in DOMAIN s :
                  /\ s[k] = (IF boot[t].at = "failed" THEN "failed" ELSE "active")
                  /\ \A i \in 1..k - 1 : s[i] = "done"
                  /\ \A i \in k + 1..Len(s) : s[i] = "pending"
            /\ setup[t].error <=> boot[t].at = "failed"

(* A boot neither keeps nor shows a step that was not done.                *)
BootIsTrue == CheckpointIsComplete /\ StepsShowProgress

(* What follows is said of the code, and the code does not keep it         *)
(* (README, section 7).                                                    *)

(* boot.rs:312 prints "Checkpoint save failed (non-fatal)": a failed save  *)
(* alone would not fail the setup.                                         *)
SaveFailureIsNotFatal ==
    \A t \in AgentTabs : ~(boot[t].at = "failed" /\ boot[t].erred = {"save"})
=============================================================================
