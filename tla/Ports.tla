-------------------------------- MODULE Ports ---------------------------------
(***************************************************************************)
(* Port forwards of a workspace: the dialog that edits them (ports.rs),    *)
(* the two lists kept in the workspace's row (queries.rs), and the         *)
(* sandboxes that put them in force when they boot (service.rs) or, for    *)
(* forwards, while they run.  A forward is bound on the tokio runtime; the *)
(* answer returns to the dialog that asked, if it is still there.          *)
(***************************************************************************)
EXTENDS Naturals, FiniteSets

CONSTANTS
    ForwardInputs, \* pairs of ports a user enters in the form "Forward"
    ExposeInputs,  \* pairs of ports a user enters in the form "Expose Host"
    MaxSandboxes, \* bound: sandboxes ever booted
    MaxDialogs    \* bound: dialogs ever opened

PortPairs == [guest_port : 1..65535, host_port : 1..65535]

ASSUME PortsAssumption ==
    /\ ForwardInputs \subseteq PortPairs /\ ExposeInputs \subseteq PortPairs
    /\ MaxSandboxes \in Nat /\ MaxDialogs \in Nat

NoSandbox == 0
Sandboxes == 1..MaxSandboxes
NoDialog == [id |-> 0, sandbox |-> NoSandbox, tab |-> "Forward", view |-> "List"]

VARIABLES
    forwards,  \* the database: port_mappings
    exposes,   \* the database: expose_host_ports
    via,       \* ghost: the sandbox each pair was saved for, or NoSandbox
    booted,    \* sandboxes ever booted; the last is booting while config is set
    config,    \* the ports of the sandbox that is booting, {} or {set}
    bound,     \* what each running sandbox forwards
    ports_dialog, \* AppView::ports_dialog, or NoDialog
    dialogs,   \* dialogs ever opened
    binds      \* calls of add_port_forward: [dialog, sandbox, pair, result]

ports_vars == <<forwards, exposes, via, booted, config, bound, ports_dialog, dialogs, binds>>

PortsTypeOK ==
    /\ forwards \subseteq PortPairs /\ exposes \subseteq PortPairs
    /\ via \in [forwards -> Sandboxes \cup {NoSandbox}]
    /\ booted \in 0..MaxSandboxes /\ \A pairs \in config : pairs \subseteq PortPairs
    /\ DOMAIN bound \subseteq Sandboxes /\ \A s \in DOMAIN bound : bound[s] \subseteq PortPairs
    /\ ports_dialog.id \in 0..MaxDialogs /\ dialogs \in 0..MaxDialogs
    /\ \A b \in binds : b.pair \in PortPairs /\ b.result \in {"pending", "Ok", "Err"}

PortsInit ==
    /\ forwards = {} /\ exposes = {} /\ via = [f \in {} |-> NoSandbox]
    /\ booted = 0 /\ config = {} /\ bound = [s \in {} |-> {}]
    /\ ports_dialog = NoDialog /\ dialogs = 0 /\ binds = {}

(***************************************************************************)
(* The sandboxes of the workspace's tabs.                                  *)
(***************************************************************************)
(* build_config reads both lists; the boot itself comes later.             *)
BuildConfig ==
    /\ config = {} /\ booted < MaxSandboxes
    /\ booted' = booted + 1 /\ config' = {forwards}
    /\ UNCHANGED <<forwards, exposes, via, bound, ports_dialog, dialogs, binds>>

(* A host port has one listener: a boot that needs a taken one fails, and  *)
(* may fail for other reasons, after its retries too.                      *)
HostPorts(pairs) == {p.host_port : p \in pairs}
Taken == UNION {HostPorts(bound[s]) : s \in DOMAIN bound}

Booted ==
    /\ config # {} /\ config' = {}
    /\ \/ /\ \A pairs \in config : HostPorts(pairs) \cap Taken = {}
          /\ bound' = [s \in DOMAIN bound \cup {booted} |->
                          IF s = booted THEN UNION config ELSE bound[s]]
       \/ bound' = bound
    /\ UNCHANGED <<forwards, exposes, via, booted, ports_dialog, dialogs, binds>>

Stops(s) ==
    /\ bound' = [r \in DOMAIN bound \ {s} |-> bound[r]]
    /\ UNCHANGED <<forwards, exposes, via, booted, config, ports_dialog, dialogs, binds>>

(***************************************************************************)
(* The dialog.                                                             *)
(***************************************************************************)
(* From the status bar, with the sandbox of the tab in front if it runs;   *)
(* the shortcut needs one, and opens a new dialog over an open one.        *)
open_ports_dialog(s) ==
    /\ dialogs < MaxDialogs /\ dialogs' = dialogs + 1
    /\ \/ s \in DOMAIN bound
       \/ s = NoSandbox /\ ports_dialog = NoDialog
    /\ ports_dialog' = [id |-> dialogs', sandbox |-> s, tab |-> "Forward", view |-> "List"]
    /\ UNCHANGED <<forwards, exposes, via, booted, config, bound, binds>>

SwitchesTo(tab, view) ==
    /\ ports_dialog # NoDialog
    /\ ports_dialog' = [ports_dialog EXCEPT !.tab = tab, !.view = view]
    /\ UNCHANGED <<forwards, exposes, via, booted, config, bound, dialogs, binds>>

switch_tab(tab) == ports_dialog.view = "List" /\ SwitchesTo(tab, "List")
show_add == ports_dialog.view = "List" /\ SwitchesTo(ports_dialog.tab, "Add")
cancel_add == ports_dialog.view = "Add" /\ SwitchesTo(ports_dialog.tab, "List")

dismiss_ports ==
    /\ ports_dialog # NoDialog /\ ports_dialog' = NoDialog
    /\ UNCHANGED <<forwards, exposes, via, booted, config, bound, dialogs, binds>>

(* add_port_mapping: one forward for a guest port, the first to be saved.  *)
add_port_mapping(p, s) ==
    IF \E f \in forwards : f.guest_port = p.guest_port
    THEN UNCHANGED <<forwards, via>>
    ELSE /\ forwards' = forwards \cup {p}
         /\ via' = [f \in forwards' |-> IF f = p THEN s ELSE via[f]]

submit_forward(p) ==
    /\ ports_dialog.view = "Add" /\ ports_dialog.tab = "Forward"
    /\ IF ports_dialog.sandbox # NoSandbox
       THEN /\ Cardinality(binds) < 2
            /\ binds' = binds \cup {[dialog |-> ports_dialog.id, sandbox |-> ports_dialog.sandbox,
                                     pair |-> p, result |-> "pending"]}
            /\ UNCHANGED <<forwards, via, ports_dialog>>
       ELSE /\ add_port_mapping(p, NoSandbox)
            /\ ports_dialog' = IF forwards' = forwards THEN ports_dialog
                               ELSE [ports_dialog EXCEPT !.view = "List"]
            /\ UNCHANGED binds
    /\ UNCHANGED <<exposes, booted, config, bound, dialogs>>

(* The sandbox answers: a stopped one, or a taken port, with an error.     *)
add_port_forward(b) ==
    /\ b.result = "pending"
    /\ \E ok \in {b.sandbox \in DOMAIN bound /\ b.pair.host_port \notin Taken, FALSE} :
          /\ binds' = (binds \ {b}) \cup {[b EXCEPT !.result = IF ok THEN "Ok" ELSE "Err"]}
          /\ bound' = IF ok THEN [bound EXCEPT ![b.sandbox] = @ \cup {b.pair}] ELSE bound
    /\ UNCHANGED <<forwards, exposes, via, booted, config, ports_dialog, dialogs>>

(* SavesAnyway: a variant that saves what could not be bound.              *)
SavesAnyway(b) ==
    /\ b.result # "pending" /\ binds' = binds \ {b}
    /\ IF ports_dialog.id # b.dialog
       THEN UNCHANGED <<forwards, via, ports_dialog>>
       ELSE /\ add_port_mapping(b.pair, b.sandbox)
            /\ ports_dialog' = [ports_dialog EXCEPT !.view = "List"]
    /\ UNCHANGED <<exposes, booted, config, bound, dialogs>>

(* Back in the dialog that asked; nothing is saved when it has gone.       *)
BindAnswered(b) ==
    /\ b.result # "pending" /\ binds' = binds \ {b}
    /\ IF ports_dialog.id # b.dialog
       THEN UNCHANGED <<forwards, via, ports_dialog>>
       ELSE /\ IF b.result = "Ok" THEN add_port_mapping(b.pair, b.sandbox)
               ELSE UNCHANGED <<forwards, via>>
            /\ ports_dialog' = [ports_dialog EXCEPT !.view = "List"]
    /\ UNCHANGED <<exposes, booted, config, bound, dialogs>>

(* add_expose_host_port: saved for the next boot, running sandbox or not.  *)
submit_expose(p) ==
    /\ ports_dialog.view = "Add" /\ ports_dialog.tab = "ExposeHost"
    /\ \A e \in exposes : e.host_port # p.host_port
    /\ exposes' = exposes \cup {p}
    /\ ports_dialog' = [ports_dialog EXCEPT !.view = "List"]
    /\ UNCHANGED <<forwards, via, booted, config, bound, dialogs, binds>>

(* Removing edits the lists only: a running sandbox keeps its listener.    *)
remove_port_mapping(g) ==
    /\ ports_dialog # NoDialog /\ ports_dialog.view = "List" /\ ports_dialog.tab = "Forward"
    /\ forwards' = {f \in forwards : f.guest_port # g} /\ forwards' # forwards
    /\ via' = [f \in forwards' |-> via[f]]
    /\ UNCHANGED <<exposes, booted, config, bound, ports_dialog, dialogs, binds>>

remove_expose_host_port(h) ==
    /\ ports_dialog # NoDialog /\ ports_dialog.view = "List" /\ ports_dialog.tab = "ExposeHost"
    /\ exposes' = {e \in exposes : e.host_port # h} /\ exposes' # exposes
    /\ UNCHANGED <<forwards, via, booted, config, bound, ports_dialog, dialogs, binds>>

PortsNext ==
    \/ BuildConfig \/ Booted \/ (\E s \in DOMAIN bound : Stops(s))
    \/ \E s \in Sandboxes \cup {NoSandbox} : open_ports_dialog(s)
    \/ \E tab \in {"Forward", "ExposeHost"} : switch_tab(tab)
    \/ show_add \/ cancel_add \/ dismiss_ports
    \/ \E p \in ForwardInputs : submit_forward(p)
    \/ \E b \in binds : add_port_forward(b)
    \/ \E b \in binds : BindAnswered(b)
    \/ \E p \in ExposeInputs : submit_expose(p)
    \/ \E f \in forwards : remove_port_mapping(f.guest_port)
    \/ \E e \in exposes : remove_expose_host_port(e.host_port)

PortsSpec == PortsInit /\ [][PortsNext]_ports_vars

(***************************************************************************)
(* Properties.                                                             *)
(***************************************************************************)
(* "Bind first, save to DB only on success": a forward in the list is open *)
(* in the sandbox it was added for for as long as that sandbox runs,       *)
(* whatever binds, dialogs, removals and boots come between; and however   *)
(* many binds of one guest port are on their way, one forward is saved.    *)
SavedIsBound ==
    /\ \A f \in forwards : via[f] \in DOMAIN bound => f \in bound[via[f]]
    /\ \A f, g \in forwards : f.guest_port = g.guest_port => f = g

(* What follows is said of the code, and the code does not keep it         *)
(* (README, section 7).                                                    *)

(* The comment the other way round: every forward that was bound is saved, *)
(* so the list shows what is open.  It is not so once the dialog closes.   *)
BoundIsSaved ==
    \A s \in DOMAIN bound : \A p \in bound[s] :
        p \in forwards \/ \E b \in binds : b.pair = p
=============================================================================
