---------------------------- MODULE Desktop_proofs ----------------------------
(***************************************************************************)
(* Proofs about the desktop's window: the ports dialog, for any pairs,     *)
(* sandboxes and dialogs; the branches the sidebar shows, for any mount    *)
(* paths and changes; the workspaces, for any number of them; the          *)
(* providers' panel, for any number of refreshes and logins; and the text  *)
(* field, for texts and histories of any length.                           *)
(***************************************************************************)
EXTENDS Ports, RepoWatch, Workspaces, Providers, TextInput, Induction, TLAPS, SequenceTheorems

-----------------------------------------------------------------------------
(* Ports                                                                   *)

\* The sandboxes that have booted, or failed to: one that has not booted yet has no
\* forward, no dialog and no bind.
HaveBooted == {s \in 1 .. booted : config # {} => s # booted}

PortsDialogs == [id : Nat, sandbox : Nat, tab : {"Forward", "ExposeHost"}, view : {"List", "Add"}]
Binds == [dialog : Nat, sandbox : Nat, pair : PortPairs, result : {"pending", "Ok", "Err"}]

PortsTypes ==
  /\ DOMAIN via = forwards
  /\ booted \in Nat /\ (config # {} => booted # 0)
  /\ ports_dialog \in PortsDialogs
  /\ dialogs \in Nat
  /\ binds \subseteq Binds

\* Nothing refers to a sandbox that is still to boot, so a boot cannot put a forward's
\* sandbox in force without the forward.
RefersToBooted ==
  /\ DOMAIN bound \subseteq HaveBooted
  /\ \A f \in forwards : via[f] \in HaveBooted \cup {NoSandbox}
  /\ ports_dialog.sandbox \in HaveBooted \cup {NoSandbox}
  /\ \A b \in binds : b.sandbox \in HaveBooted

\* A bind that succeeded is in force until its sandbox stops.
OkIsBound ==
  \A b \in binds : b.result = "Ok" /\ b.sandbox \in DOMAIN bound => b.pair \in bound[b.sandbox]

PortsInv == PortsTypes /\ RefersToBooted /\ OkIsBound /\ SavedIsBound

\* A mapping that was added is stored with the sandbox it is bound in, if any.
LEMMA AddPortMappingKeeps ==
  ASSUME PortsInv, NEW p \in PortPairs, NEW s \in HaveBooted \cup {NoSandbox},
         s \in DOMAIN bound => p \in bound[s], add_port_mapping(p, s)
  PROVE  /\ DOMAIN via' = forwards'
         /\ \A f \in forwards' : via'[f] \in HaveBooted \cup {NoSandbox}
         /\ \A f \in forwards' : via'[f] \in DOMAIN bound => f \in bound[via'[f]]
         /\ \A f, g \in forwards' : f.guest_port = g.guest_port => f = g
<1>1. CASE \E f \in forwards : f.guest_port = p.guest_port
  BY <1>1 DEF PortsInv, PortsTypes, RefersToBooted, SavedIsBound, add_port_mapping
<1>2. CASE ~ \E f \in forwards : f.guest_port = p.guest_port
  <2>1. forwards' = forwards \cup {p} /\ via' = [f \in forwards' |-> IF f = p THEN s ELSE via[f]]
    BY <1>2 DEF add_port_mapping
  <2>. QED
    BY <1>2, <2>1 DEF PortsInv, PortsTypes, RefersToBooted, SavedIsBound
<1>. QED
  BY <1>1, <1>2

\* A saved forward is bound in the sandbox it was saved for while that runs, and there is
\* one for a guest port, for any pairs, sandboxes and dialogs.
THEOREM SavedForwardIsBound == PortsSpec => []SavedIsBound
<1>. USE DEF NoSandbox
<1>1. PortsInit => PortsInv
  BY DEF PortsInit, PortsInv, PortsTypes, PortsDialogs, RefersToBooted, OkIsBound, SavedIsBound, HaveBooted, NoDialog
<1>2. PortsInv /\ [PortsNext]_ports_vars => PortsInv'
  <2> SUFFICES ASSUME PortsInv, [PortsNext]_ports_vars PROVE PortsInv'
    OBVIOUS
  <2>0. ForwardInputs \subseteq PortPairs
    BY PortsAssumption
  <2>1. CASE BuildConfig
    <3>1. HaveBooted \subseteq HaveBooted'
      BY <2>1 DEF BuildConfig, PortsInv, PortsTypes, HaveBooted
    <3>2. PortsTypes'
      BY <2>1 DEF BuildConfig, PortsInv, PortsTypes
    <3>3. RefersToBooted'
      BY <2>1, <3>1 DEF BuildConfig, PortsInv, RefersToBooted
    <3>. QED
      BY <2>1, <3>2, <3>3 DEF BuildConfig, PortsInv, OkIsBound, SavedIsBound
  <2>2. CASE Booted
    <3>1. booted \in Nat \ {0} /\ booted \notin HaveBooted /\ HaveBooted' = HaveBooted \cup {booted}
      BY <2>2 DEF Booted, PortsInv, PortsTypes, HaveBooted
    <3>2. /\ DOMAIN bound' \subseteq DOMAIN bound \cup {booted}
          /\ \A s \in DOMAIN bound' : s # booted => s \in DOMAIN bound /\ bound'[s] = bound[s]
      BY <2>2, <3>1 DEF Booted, PortsInv, RefersToBooted
    <3>3. PortsTypes'
      BY <2>2 DEF Booted, PortsInv, PortsTypes
    <3>4. RefersToBooted'
      BY <2>2, <3>1, <3>2 DEF Booted, PortsInv, RefersToBooted
    <3>5. OkIsBound'
      BY <2>2, <3>1, <3>2 DEF Booted, PortsInv, OkIsBound, RefersToBooted
    <3>6. SavedIsBound'
      BY <2>2, <3>1, <3>2 DEF Booted, PortsInv, SavedIsBound, RefersToBooted
    <3>. QED
      BY <3>3, <3>4, <3>5, <3>6 DEF PortsInv
  <2>3. ASSUME NEW s \in DOMAIN bound, Stops(s) PROVE PortsInv'
    BY <2>3 DEF Stops, PortsInv, PortsTypes, RefersToBooted, OkIsBound, SavedIsBound, HaveBooted
  <2>4. ASSUME NEW s \in Sandboxes \cup {NoSandbox}, open_ports_dialog(s) PROVE PortsInv'
    <3>1. s \in HaveBooted \cup {NoSandbox} /\ s \in Nat
      BY <2>4 DEF open_ports_dialog, PortsInv, PortsTypes, RefersToBooted, HaveBooted
    <3>2. ports_dialog' = [id |-> dialogs', sandbox |-> s, tab |-> "Forward", view |-> "List"] /\ dialogs' \in Nat
      BY <2>4 DEF open_ports_dialog, PortsInv, PortsTypes
    <3>. QED
      BY <2>4, <3>1, <3>2
         DEF open_ports_dialog, PortsInv, PortsTypes, PortsDialogs, RefersToBooted, OkIsBound, SavedIsBound, HaveBooted
  <2>5. ASSUME NEW tab \in {"Forward", "ExposeHost"}, NEW view \in {"List", "Add"}, SwitchesTo(tab, view) PROVE PortsInv'
    <3>1. /\ ports_dialog' \in PortsDialogs
          /\ ports_dialog'.sandbox = ports_dialog.sandbox
      BY <2>5 DEF SwitchesTo, PortsInv, PortsTypes, PortsDialogs
    <3>. QED
      BY <2>5, <3>1 DEF SwitchesTo, PortsInv, PortsTypes, RefersToBooted, OkIsBound, SavedIsBound, HaveBooted
  <2>6. ASSUME NEW tab \in {"Forward", "ExposeHost"}, switch_tab(tab) PROVE PortsInv'
    BY <2>5, <2>6 DEF switch_tab
  <2>7. CASE show_add \/ cancel_add
    <3>1. ports_dialog.tab \in {"Forward", "ExposeHost"}
      BY DEF PortsInv, PortsTypes, PortsDialogs
    <3>. QED
      BY <2>5, <2>7, <3>1 DEF show_add, cancel_add
  <2>8. CASE dismiss_ports
    BY <2>8 DEF dismiss_ports, NoDialog, PortsInv, PortsTypes, PortsDialogs, RefersToBooted, OkIsBound, SavedIsBound, HaveBooted
  <2>9. ASSUME NEW p \in ForwardInputs, submit_forward(p) PROVE PortsInv'
    <3>1. CASE ports_dialog.sandbox # NoSandbox
      <4>1. ports_dialog.sandbox \in HaveBooted /\ ports_dialog.id \in Nat /\ ports_dialog.sandbox \in Nat
        BY <3>1 DEF PortsInv, PortsTypes, PortsDialogs, RefersToBooted
      <4>. QED
        BY <2>0, <2>9, <3>1, <4>1
           DEF submit_forward, PortsInv, PortsTypes, Binds, RefersToBooted, OkIsBound, SavedIsBound, HaveBooted
    <3>2. CASE ports_dialog.sandbox = NoSandbox
      <4>1. NoSandbox \notin DOMAIN bound
        BY DEF PortsInv, PortsTypes, RefersToBooted, HaveBooted
      <4>2. add_port_mapping(p, NoSandbox) /\ UNCHANGED <<exposes, booted, config, bound, dialogs, binds>>
        BY <2>9, <3>2 DEF submit_forward
      <4>3. /\ ports_dialog' \in PortsDialogs
            /\ ports_dialog'.sandbox = ports_dialog.sandbox
        BY <2>9, <3>2 DEF submit_forward, PortsInv, PortsTypes, PortsDialogs
      <4>4. /\ DOMAIN via' = forwards'
            /\ \A f \in forwards' : via'[f] \in HaveBooted \cup {NoSandbox}
            /\ \A f \in forwards' : via'[f] \in DOMAIN bound => f \in bound[via'[f]]
            /\ \A f, g \in forwards' : f.guest_port = g.guest_port => f = g
        BY <2>0, <4>1, <4>2, AddPortMappingKeeps
      <4>. QED
        BY <4>2, <4>3, <4>4 DEF PortsInv, PortsTypes, RefersToBooted, OkIsBound, SavedIsBound, HaveBooted
    <3>. QED
      BY <3>1, <3>2
  <2>10. ASSUME NEW b \in binds, add_port_forward(b) PROVE PortsInv'
    <3>. DEFINE settled(r) == [b EXCEPT !.result = r]
    <3>1. b \in Binds /\ b.sandbox \in HaveBooted
      BY DEF PortsInv, PortsTypes, RefersToBooted
    <3>2. \A r \in {"Ok", "Err"} :
             settled(r) \in Binds /\ settled(r).sandbox = b.sandbox /\ settled(r).pair = b.pair /\ settled(r).result = r
      BY <3>1 DEF Binds
    <3>3. UNCHANGED <<forwards, via, booted, config, ports_dialog, dialogs>>
      BY <2>10 DEF add_port_forward
    <3>4. \/ /\ b.sandbox \in DOMAIN bound
             /\ binds' = (binds \ {b}) \cup {settled("Ok")}
             /\ bound' = [bound EXCEPT ![b.sandbox] = @ \cup {b.pair}]
          \/ binds' = (binds \ {b}) \cup {settled("Err")} /\ bound' = bound
      BY <2>10 DEF add_port_forward
    <3>5. /\ DOMAIN bound' = DOMAIN bound /\ \A s \in DOMAIN bound : bound[s] \subseteq bound'[s]
      BY <3>4
    <3>6. PortsTypes'
      BY <3>2, <3>3, <3>4 DEF PortsInv, PortsTypes
    <3>7. RefersToBooted'
      BY <3>1, <3>2, <3>3, <3>4, <3>5 DEF PortsInv, RefersToBooted, HaveBooted
    <3>8. OkIsBound'
      <4>. HIDE DEF settled
      <4>1. CASE bound' = bound /\ binds' = (binds \ {b}) \cup {settled("Err")}
        BY <3>2, <4>1 DEF PortsInv, OkIsBound
      <4>2. CASE /\ b.sandbox \in DOMAIN bound /\ binds' = (binds \ {b}) \cup {settled("Ok")}
                 /\ bound' = [bound EXCEPT ![b.sandbox] = @ \cup {b.pair}]
        BY <3>2, <3>5, <4>2 DEF PortsInv, OkIsBound
      <4>. QED
        BY <3>4, <4>1, <4>2
    <3>9. SavedIsBound'
      BY <3>3, <3>5 DEF PortsInv, SavedIsBound
    <3>. QED
      BY <3>6, <3>7, <3>8, <3>9 DEF PortsInv
  <2>11. ASSUME NEW b \in binds, BindAnswered(b) PROVE PortsInv'
    <3>1. b.pair \in PortPairs /\ b.sandbox \in HaveBooted /\ (b.result = "Ok" /\ b.sandbox \in DOMAIN bound => b.pair \in bound[b.sandbox])
      BY DEF PortsInv, PortsTypes, Binds, RefersToBooted, OkIsBound
    <3>2. UNCHANGED <<booted, config, bound, dialogs>> /\ binds' \subseteq binds
      BY <2>11 DEF BindAnswered
    <3>3. /\ ports_dialog' \in PortsDialogs
          /\ ports_dialog'.sandbox = ports_dialog.sandbox
      BY <2>11 DEF BindAnswered, PortsInv, PortsTypes, PortsDialogs
    <3>4. \/ UNCHANGED <<forwards, via>>
          \/ b.result = "Ok" /\ add_port_mapping(b.pair, b.sandbox)
      BY <2>11 DEF BindAnswered
    <3>5. /\ DOMAIN via' = forwards'
          /\ \A f \in forwards' : via'[f] \in HaveBooted \cup {NoSandbox}
          /\ \A f \in forwards' : via'[f] \in DOMAIN bound => f \in bound[via'[f]]
          /\ \A f, g \in forwards' : f.guest_port = g.guest_port => f = g
      <4>1. CASE UNCHANGED <<forwards, via>>
        BY <4>1 DEF PortsInv, PortsTypes, RefersToBooted, SavedIsBound
      <4>2. CASE b.result = "Ok" /\ add_port_mapping(b.pair, b.sandbox)
        BY <3>1, <4>2, AddPortMappingKeeps
      <4>. QED
        BY <3>4, <4>1, <4>2
    <3>. QED
      BY <3>2, <3>3, <3>5 DEF PortsInv, PortsTypes, RefersToBooted, OkIsBound, SavedIsBound, HaveBooted
  <2>12. ASSUME NEW p \in ExposeInputs, submit_expose(p) PROVE PortsInv'
    <3>1. /\ ports_dialog' \in PortsDialogs
          /\ ports_dialog'.sandbox = ports_dialog.sandbox
      BY <2>12 DEF submit_expose, PortsInv, PortsTypes, PortsDialogs
    <3>. QED
      BY <2>12, <3>1 DEF submit_expose, PortsInv, PortsTypes, RefersToBooted, OkIsBound, SavedIsBound, HaveBooted
  <2>13. ASSUME NEW g, remove_port_mapping(g) PROVE PortsInv'
    BY <2>13 DEF remove_port_mapping, PortsInv, PortsTypes, RefersToBooted, OkIsBound, SavedIsBound, HaveBooted
  <2>14. ASSUME NEW h, remove_expose_host_port(h) PROVE PortsInv'
    BY <2>14 DEF remove_expose_host_port, PortsInv, PortsTypes, RefersToBooted, OkIsBound, SavedIsBound, HaveBooted
  <2>15. CASE UNCHANGED ports_vars
    BY <2>15 DEF ports_vars, PortsInv, PortsTypes, RefersToBooted, OkIsBound, SavedIsBound, HaveBooted
  <2>. QED
    BY <2>1, <2>2, <2>3, <2>4, <2>6, <2>7, <2>8, <2>9, <2>10, <2>11, <2>12, <2>13, <2>14, <2>15 DEF PortsNext
<1>3. PortsInv => SavedIsBound
  BY DEF PortsInv
<1>. QED
  BY <1>1, <1>2, <1>3, PTL DEF PortsSpec

-----------------------------------------------------------------------------
(* RepoWatch                                                               *)

RepoInv == DOMAIN head = Mounts /\ StaleRowHasNotice

\* A row behind the disk has a notice on its way or was out of hearing, for any mount
\* paths and any number of changes.
THEOREM StaleRowKeepsNotice == RepoSpec => []StaleRowHasNotice
<1>1. RepoInit => RepoInv
  BY DEF RepoInit, RepoInv, StaleRowHasNotice, Stale
<1>2. RepoInv /\ [RepoNext]_repo_vars => RepoInv'
  <2> SUFFICES ASSUME RepoInv, [RepoNext]_repo_vars PROVE RepoInv'
    OBVIOUS
  <2>1. ASSUME NEW p \in Mounts, NEW v \in Branches \cup {NoRepo}, RepoChanges(p, v) PROVE RepoInv'
    <3>1. \A q \in Mounts : q # p => (Stale(q)' <=> Stale(q))
      BY <2>1 DEF RepoChanges, RepoInv, Stale
    <3>2. p \in missed' \/ heard'
      BY <2>1 DEF RepoChanges
    <3>3. missed \subseteq missed' /\ (heard => heard') /\ task' = task /\ DOMAIN head' = Mounts
      BY <2>1 DEF RepoChanges, RepoInv
    <3>. QED
      BY <3>1, <3>2, <3>3 DEF RepoInv, StaleRowHasNotice
  <2>2. CASE OtherNotice
    BY <2>2 DEF OtherNotice, RepoInv, StaleRowHasNotice, Stale
  <2>3. CASE TakesNotice
    BY <2>3 DEF TakesNotice, RepoInv, StaleRowHasNotice, Stale
  <2>4. CASE Settled
    BY <2>4 DEF Settled, RepoInv, StaleRowHasNotice, Stale
  <2>5. ASSUME NEW read, Reads(read) PROVE \A p \in Mounts : ~Stale(p)' \/ head' # head
    BY <2>5 DEF Reads, Stale
  <2>6. CASE WatcherRefreshes
    BY <2>5, <2>6 DEF WatcherRefreshes, RepoInv, StaleRowHasNotice
  <2>7. ASSUME NEW read \in SUBSET Mounts, ListRefreshes(read) PROVE RepoInv'
    BY <2>5, <2>7 DEF ListRefreshes, RepoInv, StaleRowHasNotice
  <2>8. CASE Rebuilds
    BY <2>8 DEF Rebuilds, RepoInv, StaleRowHasNotice, Stale
  <2>9. CASE UNCHANGED repo_vars
    BY <2>9 DEF repo_vars, RepoInv, StaleRowHasNotice, Stale
  <2>. QED
    BY <2>1, <2>2, <2>3, <2>4, <2>6, <2>7, <2>8, <2>9 DEF RepoNext
<1>3. RepoInv => StaleRowHasNotice
  BY DEF RepoInv
<1>. QED
  BY <1>1, <1>2, <1>3, PTL DEF RepoSpec

-----------------------------------------------------------------------------
(* Workspaces                                                              *)

\* RemoveAt takes the element at one position out of a sequence.
LEMMA RemoveAtProperties ==
  ASSUME NEW S, NEW s \in Seq(S), NEW i \in 1 .. Len(s)
  PROVE  /\ RemoveAt(s, i) \in Seq(S) /\ Len(RemoveAt(s, i)) = Len(s) - 1
         /\ \A k \in 1 .. Len(s) - 1 : RemoveAt(s, i)[k] = IF k < i THEN s[k] ELSE s[k + 1]
<1>. DEFINE front == SubSeq(s, 1, i - 1)
            back == SubSeq(s, i + 1, Len(s))
<1>1. Len(s) \in Nat /\ i \in Nat /\ \A k \in 1 .. Len(s) : s[k] \in S
  BY LenProperties, ElementOfSeq
<1>2. front \in Seq(S) /\ Len(front) = i - 1 /\ \A k \in 1 .. i - 1 : front[k] = s[k]
  <2>1. \A k \in 1 .. i - 1 : s[k] \in S
    BY <1>1
  <2>2. /\ front \in Seq(S) /\ Len(front) = IF 1 <= i - 1 THEN i - 1 - 1 + 1 ELSE 0
        /\ \A k \in 1 .. i - 1 - 1 + 1 : front[k] = s[1 + k - 1]
    BY <1>1, <2>1, SubSeqProperties
  <2>. QED
    BY <1>1, <2>2
<1>3. back \in Seq(S) /\ Len(back) = Len(s) - i /\ \A k \in 1 .. Len(s) - i : back[k] = s[k + i]
  <2>1. \A k \in i + 1 .. Len(s) : s[k] \in S
    BY <1>1
  <2>2. /\ back \in Seq(S) /\ Len(back) = IF i + 1 <= Len(s) THEN Len(s) - (i + 1) + 1 ELSE 0
        /\ \A k \in 1 .. Len(s) - (i + 1) + 1 : back[k] = s[i + 1 + k - 1]
    BY <1>1, <2>1, SubSeqProperties
  <2>. HIDE DEF back
  <2>3. ASSUME NEW k \in 1 .. Len(s) - i PROVE back[k] = s[k + i]
    <3>1. k \in 1 .. Len(s) - (i + 1) + 1 /\ i + 1 + k - 1 = k + i
      BY <1>1
    <3>2. back[k] = s[i + 1 + k - 1]
      BY <2>2, <3>1
    <3>. QED
      BY <3>1, <3>2
  <2>4. Len(back) = Len(s) - i
    BY <1>1, <2>2
  <2>. QED
    BY <2>2, <2>3, <2>4
<1>4. /\ front \o back \in Seq(S) /\ Len(front \o back) = Len(front) + Len(back)
      /\ \A k \in 1 .. Len(front) + Len(back) :
            (front \o back)[k] = IF k <= Len(front) THEN front[k] ELSE back[k - Len(front)]
  BY <1>2, <1>3, ConcatProperties
<1>5. RemoveAt(s, i) = front \o back
  BY DEF RemoveAt
<1>. HIDE DEF front, back
<1>6. ASSUME NEW k \in 1 .. Len(s) - 1 PROVE (front \o back)[k] = IF k < i THEN s[k] ELSE s[k + 1]
  <2>1. CASE k < i
    BY <1>1, <1>2, <1>3, <1>4, <2>1
  <2>2. CASE ~(k < i)
    <3>1. k - (i - 1) \in 1 .. Len(s) - i /\ (k - (i - 1)) + i = k + 1
      BY <1>1, <2>2
    <3>2. back[k - (i - 1)] = s[k + 1]
      BY <1>3, <3>1
    <3>. QED
      BY <1>1, <1>2, <1>3, <1>4, <2>2, <3>2
  <2>. QED
    BY <2>1, <2>2
<1>7. Len(front) + Len(back) = Len(s) - 1
  BY <1>1, <1>2, <1>3
<1>. QED
  BY <1>4, <1>5, <1>6, <1>7

\* Ids are not given twice, so a deleted workspace that is still the active one of the
\* sidebar is never taken for a new one.
StoredInv ==
  /\ created \in Nat /\ stored \in Seq(1 .. created)
  /\ \A i, j \in DOMAIN stored : stored[i] = stored[j] => i = j

\* The rows are those of the last refresh, and one is marked as long as its workspace
\* is stored; a view no client has left behind follows the panel.
ViewsInv ==
  /\ list = [active |-> list.active, rows |-> Rows(stored, list.active)]
  /\ list.active \in 0 .. created
  /\ menu \in ToSet(stored) \cup {NoWs}
  /\ panel = [active |-> panel.active, sessions |-> panel.sessions]
  /\ panel.sessions \subseteq ToSet(stored) /\ panel.active \in panel.sessions \cup {NoWs}
  /\ "list" \notin astray => /\ list.active \in ToSet(stored) => list.active = panel.active
                             /\ "settings" \notin overlay /\ panel.active # NoWs => list.active = panel.active
  /\ "side" \notin astray => side = panel.active

WorkspacesInv == StoredInv /\ ViewsInv

\* A sequence of ids: its domain, its length and the set of what it holds.
LEMMA SeqOfIds ==
  ASSUME NEW n \in Nat, NEW s \in Seq(1 .. n)
  PROVE  DOMAIN s = 1 .. Len(s) /\ Len(s) \in Nat /\ ToSet(s) \subseteq 1 .. n
<1>1. DOMAIN s = 1 .. Len(s) /\ Len(s) \in Nat
  BY LenProperties
<1>2. \A i \in 1 .. Len(s) : s[i] \in 1 .. n
  BY ElementOfSeq
<1>. QED
  BY <1>1, <1>2 DEF ToSet

\* The stored order holds only ids that were created, and not the one that stands for none.
LEMMA StoredIds ==
  ASSUME StoredInv
  PROVE  /\ DOMAIN stored = 1 .. Len(stored) /\ Len(stored) \in Nat
         /\ ToSet(stored) \subseteq 1 .. created /\ NoWs \notin ToSet(stored)
BY SeqOfIds DEF StoredInv, NoWs

\* A created workspace goes to the end of the stored order.
LEMMA AppendKeeps ==
  ASSUME StoredInv, created' = created + 1, stored' = Append(stored, created')
  PROVE  /\ StoredInv' /\ ToSet(stored') = ToSet(stored) \cup {created'}
         /\ Last(stored') = created'
<1>1. stored \in Seq(1 .. created') /\ created \in Nat
  BY SeqMonotonic DEF StoredInv
<1>2. /\ stored' \in Seq(1 .. created') /\ Len(stored') = Len(stored) + 1
      /\ \A i \in 1 .. Len(stored) : stored'[i] = stored[i]
      /\ stored'[Len(stored) + 1] = created'
  BY <1>1, AppendProperties
<1>3. DOMAIN stored' = 1 .. Len(stored) + 1
  BY <1>2, LenProperties
<1>4. \A i \in DOMAIN stored : stored[i] # created'
  BY <1>1, StoredIds, SMTT(30) DEF ToSet
<1>5. ToSet(stored') = ToSet(stored) \cup {created'}
  BY <1>2, <1>3, StoredIds DEF ToSet
<1>6. \A i, j \in DOMAIN stored' : stored'[i] = stored'[j] => i = j
  BY <1>2, <1>3, <1>4, StoredIds DEF StoredInv
<1>. QED
  BY <1>1, <1>2, <1>5, <1>6 DEF StoredInv, Last

\* Deleting a workspace takes that id out of the stored order, and no other.
LEMMA DeleteKeeps ==
  ASSUME StoredInv, NEW w \in ToSet(stored), stored' = delete_workspace(w), created' = created
  PROVE  StoredInv' /\ ToSet(stored') = ToSet(stored) \ {w}
<1>1. PICK i \in 1 .. Len(stored) : stored' = RemoveAt(stored, i) /\ stored[i] = w
  <2>. DEFINE at == CHOOSE i \in DOMAIN stored : stored[i] = w
  <2>1. at \in DOMAIN stored /\ stored[at] = w
    BY DEF ToSet
  <2>2. at \in 1 .. Len(stored) /\ stored' = RemoveAt(stored, at)
    BY <2>1, StoredIds DEF delete_workspace
  <2>. QED
    BY <2>1, <2>2
<1>2. /\ stored' \in Seq(1 .. created) /\ Len(stored') = Len(stored) - 1
      /\ \A k \in 1 .. Len(stored) - 1 : stored'[k] = IF k < i THEN stored[k] ELSE stored[k + 1]
  <2>1. stored \in Seq(1 .. created)
    BY DEF StoredInv
  <2>2. /\ RemoveAt(stored, i) \in Seq(1 .. created) /\ Len(RemoveAt(stored, i)) = Len(stored) - 1
        /\ \A k \in 1 .. Len(stored) - 1 : RemoveAt(stored, i)[k] = IF k < i THEN stored[k] ELSE stored[k + 1]
    BY <2>1, RemoveAtProperties
  <2>. QED
    BY <1>1, <2>2
<1>3. DOMAIN stored' = 1 .. Len(stored) - 1
  BY <1>2, LenProperties
<1>. DEFINE was(k) == IF k < i THEN k ELSE k + 1
<1>4. /\ \A k \in DOMAIN stored' : was(k) \in DOMAIN stored /\ was(k) # i /\ stored'[k] = stored[was(k)]
      /\ \A k, l \in DOMAIN stored' : was(k) = was(l) => k = l
  BY <1>2, <1>3, StoredIds
<1>5. \A m \in DOMAIN stored : m # i => \E k \in DOMAIN stored' : was(k) = m
  <2>. SUFFICES ASSUME NEW m \in DOMAIN stored, m # i PROVE \E k \in DOMAIN stored' : was(k) = m
    OBVIOUS
  <2>1. CASE m < i
    BY <1>3, <2>1, StoredIds
  <2>2. CASE m > i
    <3>1. m - 1 \in DOMAIN stored' /\ was(m - 1) = m
      BY <1>3, <2>2, StoredIds
    <3>. QED
      BY <3>1
  <2>. QED
    BY <2>1, <2>2, StoredIds
<1>. HIDE DEF was
<1>6. \A k, l \in DOMAIN stored' : stored'[k] = stored'[l] => k = l
  BY <1>4 DEF StoredInv
<1>7. ToSet(stored') = ToSet(stored) \ {w}
  <2>1. ToSet(stored') \subseteq ToSet(stored) \ {w}
    BY <1>1, <1>4, StoredIds DEF ToSet, StoredInv
  <2>2. ToSet(stored) \ {w} \subseteq ToSet(stored')
    BY <1>1, <1>4, <1>5 DEF ToSet
  <2>. QED
    BY <2>1, <2>2
<1>. QED
  BY <1>2, <1>6, <1>7 DEF StoredInv

\* What a click, a shortcut or a new workspace moves.
LEMMA ActivatesKeeps ==
  ASSUME WorkspacesInv, StoredInv', ToSet(stored) \subseteq ToSet(stored'),
         NEW w \in ToSet(stored'), Activates(w, stored')
  PROVE  ViewsInv'
<1>1. w \in 1 .. created'
  BY SeqOfIds DEF StoredInv
<1>. QED
  BY <1>1 DEF WorkspacesInv, ViewsInv, Activates, activate_workspace, show_waiting, refresh

\* What the proof keeps of the views is what the run checks of them.
LEMMA ViewsInvAgree ==
  ASSUME WorkspacesInv
  PROVE  WorkspacesAgree
<1>1. DOMAIN list.rows = DOMAIN stored /\ \A i \in DOMAIN stored :
         list.rows[i] = [id |-> stored[i], is_active |-> stored[i] = list.active]
  BY DEF WorkspacesInv, ViewsInv, Rows
<1>2. Marked = {list.active} \cap ToSet(stored)
  <2>1. \A v : v \in Marked <=> \E i \in DOMAIN stored : list.rows[i].is_active /\ v = list.rows[i].id
    BY <1>1 DEF Marked, ToSet
  <2>2. ASSUME NEW i \in DOMAIN stored
        PROVE  list.rows[i].id = stored[i] /\ (list.rows[i].is_active <=> stored[i] = list.active)
    <3>1. list.rows[i] = [id |-> stored[i], is_active |-> stored[i] = list.active]
      BY <1>1
    <3>2. list.rows[i].id = stored[i]
      BY <3>1
    <3>3. list.rows[i].is_active = (stored[i] = list.active)
      BY <3>1
    <3>. QED
      BY <3>2, <3>3
  <2>. QED
    BY <2>1, <2>2 DEF ToSet
<1>3. RowsAreStored
  <2>1. stored = [i \in DOMAIN stored |-> stored[i]]
    BY StoredIds, LenProperties DEF WorkspacesInv, StoredInv
  <2>2. ASSUME NEW i \in DOMAIN stored PROVE list.rows[i].id = stored[i]
    <3>1. list.rows[i] = [id |-> stored[i], is_active |-> stored[i] = list.active]
      BY <1>1
    <3>. QED
      BY <3>1
  <2>. QED
    BY <1>1, <2>1, <2>2 DEF WorkspacesInv, ViewsInv, RowsAreStored
<1>. QED
  BY <1>2, <1>3, StoredIds DEF WorkspacesInv, ViewsInv, WorkspacesAgree, ViewsAgree, ListAgrees, SideAgrees

\* The sidebar, the panel in the middle, the side panel and the database agree on the
\* workspaces, for any number of workspaces and commands.
THEOREM WorkspacesStayAgreed == WorkspacesSpec => []WorkspacesAgree
<1>1. WorkspacesInit => WorkspacesInv
  <2> SUFFICES ASSUME WorkspacesInit PROVE WorkspacesInv
    OBVIOUS
  <2>1. created \in Nat /\ stored = [i \in 1 .. created |-> i]
    BY DEF WorkspacesInit
  <2>2. stored \in Seq(1 .. created) /\ DOMAIN stored = 1 .. created
    BY <2>1
  <2>3. StoredInv
    BY <2>1, <2>2 DEF StoredInv
  <2>4. list = [active |-> NoWs, rows |-> Rows(stored, NoWs)]
    <3>1. \A i \in 1 .. created : (i = NoWs) = FALSE /\ stored[i] = i
      BY <2>1 DEF NoWs
    <3>2. Rows(stored, NoWs) = [i \in 1 .. created |-> [id |-> i, is_active |-> FALSE]]
      BY <2>2, <3>1 DEF Rows
    <3>. QED
      BY <3>2 DEF WorkspacesInit
  <2>5. list.active = NoWs /\ list.rows = Rows(stored, NoWs) /\ NoWs \notin ToSet(stored)
    BY <2>3, <2>4, StoredIds
  <2>6. list = [active |-> list.active, rows |-> Rows(stored, list.active)]
    BY <2>4, <2>5
  <2>7. panel = [active |-> panel.active, sessions |-> panel.sessions] /\ panel.active = NoWs /\ panel.sessions = {}
    BY DEF WorkspacesInit
  <2>8. ViewsInv
    BY <2>1, <2>5, <2>6, <2>7 DEF WorkspacesInit, ViewsInv, NoWs
  <2>. QED
    BY <2>3, <2>8 DEF WorkspacesInv
<1>2. WorkspacesInv /\ [WorkspacesNext]_workspaces_vars => WorkspacesInv'
  <2> SUFFICES ASSUME WorkspacesInv, [WorkspacesNext]_workspaces_vars PROVE WorkspacesInv'
    OBVIOUS
  <2>. USE DEF NoWs
  <2>0. /\ StoredInv /\ NoWs \notin ToSet(stored) /\ ToSet(stored) \subseteq 1 .. created
        /\ DOMAIN list.rows = DOMAIN stored
        /\ \A i \in DOMAIN stored : list.rows[i].id = stored[i] /\ stored[i] \in ToSet(stored)
    BY StoredIds DEF WorkspacesInv, ViewsInv, Rows, ToSet
  <2>1. ASSUME NEW i \in DOMAIN list.rows, RowClick(i) PROVE WorkspacesInv'
    <3>1. stored[i] \in ToSet(stored') /\ Activates(stored[i], stored') /\ StoredInv' /\ stored' = stored
      BY <2>0, <2>1 DEF RowClick, StoredInv
    <3>. QED
      BY <3>1, ActivatesKeeps DEF WorkspacesInv
  <2>2. ASSUME NEW i, activate_by_index(i) PROVE WorkspacesInv'
    <3>1. stored[i] \in ToSet(stored') /\ Activates(stored[i], stored') /\ StoredInv' /\ stored' = stored
      BY <2>0, <2>2 DEF activate_by_index, StoredInv
    <3>. QED
      BY <3>1, ActivatesKeeps DEF WorkspacesInv
  <2>3. CASE next_workspace \/ prev_workspace
    BY <2>2, <2>3 DEF next_workspace, prev_workspace
  <2>4. ASSUME NEW i \in DOMAIN list.rows, open_menu(i) PROVE WorkspacesInv'
    BY <2>0, <2>4 DEF open_menu, WorkspacesInv, StoredInv, ViewsInv
  <2>5. CASE close_menu
    BY <2>5 DEF close_menu, WorkspacesInv, StoredInv, ViewsInv
  <2>6. CASE do_duplicate
    <3>1. /\ StoredInv' /\ ToSet(stored') = ToSet(stored) \cup {created'} /\ created' = created + 1 /\ created \in Nat
      BY <2>0, <2>6, AppendKeeps DEF do_duplicate, StoredInv
    <3>2. ViewsInv'
      BY <2>6, <3>1 DEF do_duplicate, refresh, WorkspacesInv, ViewsInv
    <3>. QED
      BY <3>1, <3>2 DEF WorkspacesInv
  <2>7. CASE HoldToDelete
    <3>1. StoredInv' /\ ToSet(stored') = ToSet(stored) \ {menu} /\ created' = created
      BY <2>0, <2>7, DeleteKeeps DEF HoldToDelete, WorkspacesInv, ViewsInv
    <3>2. ViewsInv'
      BY <2>7, <3>1 DEF HoldToDelete, remove_session, refresh, WorkspacesInv, ViewsInv
    <3>. QED
      BY <3>1, <3>2 DEF WorkspacesInv
  <2>8. CASE RowsRebuilt
    BY <2>8 DEF RowsRebuilt, refresh, WorkspacesInv, StoredInv, ViewsInv
  <2>9. CASE open_new_workspace_dialog \/ dismiss
    BY <2>9 DEF open_new_workspace_dialog, dismiss, WorkspacesInv, StoredInv, ViewsInv
  <2>10. CASE submit
    <3>1. StoredInv' /\ ToSet(stored') = ToSet(stored) \cup {created'} /\ Last(stored') = created'
      BY <2>0, <2>10, AppendKeeps DEF submit
    <3>2. ViewsInv'
      BY <2>10, <3>1, ActivatesKeeps DEF submit
    <3>. QED
      BY <3>1, <3>2 DEF WorkspacesInv
  <2>11. CASE open_settings
    <3>1. [i \in DOMAIN list.rows |-> [id |-> list.rows[i].id, is_active |-> FALSE]] = Rows(stored, NoWs)
      <4>1. \A i \in DOMAIN stored : list.rows[i].id = stored[i] /\ (stored[i] = NoWs) = FALSE
        BY <2>0
      <4>. QED
        BY <2>0, <4>1 DEF Rows
    <3>2. list' = [active |-> NoWs, rows |-> Rows(stored, NoWs)]
      BY <2>11, <3>1 DEF open_settings
    <3>3. list'.active = NoWs /\ list'.rows = Rows(stored, NoWs)
      BY <3>2
    <3>4. StoredInv'
      BY <2>0, <2>11 DEF open_settings, StoredInv
    <3>5. "settings" \in overlay' /\ created \in Nat
      BY <2>0, <2>11 DEF open_settings, StoredInv
    <3>6. list' = [active |-> list'.active, rows |-> Rows(stored', list'.active)]
      BY <2>11, <3>2, <3>3 DEF open_settings
    <3>7. ViewsInv'
      BY <2>0, <2>11, <3>3, <3>5, <3>6 DEF open_settings, WorkspacesInv, ViewsInv
    <3>. QED
      BY <3>4, <3>7 DEF WorkspacesInv
  <2>12. CASE close_settings
    <3>1. CASE panel.active # NoWs
      <4>1. panel.active \in ToSet(stored) /\ panel.active \in 0 .. created
        BY <2>0, <3>1 DEF WorkspacesInv, ViewsInv
      <4>. QED
        BY <2>12, <3>1, <4>1 DEF close_settings, refresh, WorkspacesInv, StoredInv, ViewsInv
    <3>2. CASE panel.active = NoWs
      BY <2>12, <3>2 DEF close_settings, WorkspacesInv, StoredInv, ViewsInv
    <3>. QED
      BY <3>1, <3>2
  <2>13. CASE AllowHostShell
    BY <2>13 DEF AllowHostShell, WorkspacesInv, StoredInv, ViewsInv
  <2>14. ASSUME NEW result, Refused(result) PROVE WorkspacesInv'
    BY <2>14 DEF Refused, Command, WorkspacesInv, StoredInv, ViewsInv
  <2>15. ASSUME NEW w \in ToSet(stored), NEW result, ActivatesForClient(w), Command(result) PROVE WorkspacesInv'
    <3>1. /\ panel'.active = w /\ panel'.sessions = panel.sessions \cup {w}
          /\ panel' = [active |-> panel'.active, sessions |-> panel'.sessions]
      BY <2>15 DEF ActivatesForClient, activate_workspace
    <3>2. CASE panel.active = w
      BY <2>15, <3>1, <3>2 DEF ActivatesForClient, Command, WorkspacesInv, StoredInv, ViewsInv
    <3>3. CASE panel.active # w
      BY <2>15, <3>1, <3>3 DEF ActivatesForClient, Views, Command, WorkspacesInv, StoredInv, ViewsInv
    <3>. QED
      BY <3>2, <3>3
  <2>16. ASSUME NEW w \in Ids, HostActivates(w) PROVE WorkspacesInv'
    BY <2>14, <2>15, <2>16 DEF HostActivates
  <2>17. ASSUME NEW w \in Ids, NEW spec \in {"host", "guest", "agent"}, HostCreatesTab(w, spec) PROVE WorkspacesInv'
    <3>1. w \in Ids => w # NoWs
      BY WorkspacesAssumption DEF Ids
    <3>2. panel.active = w => w \in ToSet(stored)
      BY <3>1 DEF WorkspacesInv, ViewsInv
    <3>. QED
      BY <2>14, <2>15, <2>17, <3>2 DEF HostCreatesTab
  <2>18. ASSUME NEW w \in Ids, HostClosesTab(w) \/ WriteAttachment(w) PROVE WorkspacesInv'
    BY <2>14, <2>18 DEF HostClosesTab, WriteAttachment
  <2>19. CASE UNCHANGED workspaces_vars
    BY <2>19 DEF workspaces_vars, WorkspacesInv, StoredInv, ViewsInv
  <2>. QED
    BY <2>1, <2>2, <2>3, <2>4, <2>5, <2>6, <2>7, <2>8, <2>9, <2>10, <2>11, <2>12, <2>13, <2>16, <2>17, <2>18, <2>19
       DEF WorkspacesNext
<1>3. WorkspacesInv => WorkspacesAgree
  BY ViewsInvAgree
<1>. QED
  BY <1>1, <1>2, <1>3, PTL DEF WorkspacesSpec
-----------------------------------------------------------------------------
(* Providers                                                               *)

Methods == {"none", "api_key", "oauth"}
VaultRows == [method : Methods, value : Nat, refresh : Nat, serial : Nat, id : Nat, near : BOOLEAN, enabled : BOOLEAN]
PanelRows == [saved : BOOLEAN, method : Methods, enabled : BOOLEAN]
OAuthStates == [status : {"Idle", "InProgress", "Error", "Connected"}, cancel : BOOLEAN,
                login : {"none", "spawned", "waiting", "cancelled"}]
RefresherStates == [at : {"idle", "sent", "answered", "unheard"}, login : Nat, serial : Nat, granted : Nat]

ProvidersTypes ==
  /\ vault \in [ProviderVars -> VaultRows] /\ rows \in [ProviderVars -> PanelRows]
  /\ server \in [logins : 0 .. MaxLogins, serial : [1 .. MaxLogins -> Nat]]
  /\ refresher \in [Refreshers -> RefresherStates]
  /\ oauth \in OAuthStates

\* Every token is one login's that has succeeded, and a login under way has a number left.
LoginsInv ==
  /\ oauth.login \in {"spawned", "waiting"} => server.logins < MaxLogins
  /\ vault[OpenAI].refresh \in 0 .. server.logins
  /\ \A r \in Refreshers :
        /\ refresher[r].login \in 0 .. server.logins
        /\ refresher[r].at # "idle" => refresher[r].login # 0
        /\ refresher[r].granted # 0 => refresher[r].at = "answered"
  /\ \A g \in 1 .. MaxLogins : g > server.logins => server.serial[g] = 1

\* A refresh in flight asks for the stored login, of which all tokens are.
OneLoginInv ==
  LET s == vault[OpenAI] IN
  /\ \A r \in Refreshers : InFlight(r) => s.method = "oauth" /\ refresher[r].login = s.refresh
  /\ s.method = "oauth" => s.value = s.id /\ s.refresh = s.id /\ s.refresh # 0

\* One answer at most carries a token, the one the server accepts now, and it is newer than
\* the stored one.
LiveInv ==
  LET s == vault[OpenAI] IN
  /\ \A r \in Refreshers : InFlight(r) => refresher[r].serial <= s.serial
  /\ \A r \in Refreshers : refresher[r].granted # 0 =>
        refresher[r].granted = server.serial[s.refresh] /\ s.serial < refresher[r].granted
  /\ \A r, q \in Refreshers : refresher[r].granted # 0 /\ refresher[q].granted # 0 => r = q
  /\ s.method = "oauth" =>
        \/ s.serial = server.serial[s.refresh]
        \/ \E r \in Refreshers : refresher[r].granted # 0 /\ refresher[r].granted = server.serial[s.refresh]

\* That lasts until a token granted to the stored login is lost.
TokensInv == OneLoginInv /\ (vault[OpenAI].refresh \notin lost => LiveInv)

\* PanelTellsTruth, field by field.
RowsInv ==
  \A p \in ProviderVars :
     /\ rows[p].saved <=> vault[p].method # "none"
     /\ rows[p].method = IF vault[p].method # "none" THEN vault[p].method ELSE "api_key"
     /\ rows[p].enabled <=> vault[p].enabled

ProvidersInv ==
  /\ ProvidersTypes /\ LoginsInv /\ overlapped \in BOOLEAN
  /\ ~overlapped => RowsInv /\ TokensInv

\* save_secret, remove_secret and a login that succeeds with nothing in flight: no
\* refresh knows of the row that is written.
LEMMA IdleTokens ==
  ASSUME ProvidersInv, ~Outstanding
  PROVE  \A r \in Refreshers : ~InFlight(r) /\ refresher[r].granted = 0
BY DEF Outstanding, InFlight, ProvidersInv, LoginsInv, ProvidersTypes, RefresherStates

\* A refresh that is sent carries the refresh token that is stored.
LEMMA SentKeeps ==
  ASSUME ProvidersInv, NEW r \in Refreshers, refresh_if_needed(r),
         UNCHANGED <<vault, rows, server, overlapped, oauth, lost>>
  PROVE  ProvidersInv'
<1>. DEFINE sent == [at |-> "sent", login |-> vault[OpenAI].refresh, serial |-> vault[OpenAI].serial, granted |-> 0]
<1>1. vault[OpenAI] \in VaultRows /\ vault[OpenAI].method = "oauth" /\ vault[OpenAI].refresh # 0
  BY DEF ProvidersInv, ProvidersTypes, ProviderVars, refresh_if_needed, NeedsRefresh
<1>2. refresher' \in [Refreshers -> RefresherStates] /\ \A q \in Refreshers : refresher'[q] = IF q = r THEN sent ELSE refresher[q]
  BY <1>1 DEF ProvidersInv, ProvidersTypes, refresh_if_needed, RefresherStates, VaultRows
<1>3. refresher[r].at = "idle" /\ refresher[r].granted = 0
  BY DEF ProvidersInv, LoginsInv, refresh_if_needed
<1>. HIDE DEF sent
<1>4. sent.at = "sent" /\ sent.login = vault[OpenAI].refresh /\ sent.serial = vault[OpenAI].serial /\ sent.granted = 0
  BY DEF sent
<1>5. ProvidersTypes' /\ LoginsInv'
  BY <1>1, <1>2, <1>4 DEF ProvidersInv, ProvidersTypes, LoginsInv
<1>6. ~overlapped => RowsInv'
  BY DEF ProvidersInv, RowsInv, RowOf, has_secret
<1>7. ~overlapped => TokensInv'
  <2>1. vault[OpenAI].serial \in Nat
    BY <1>1 DEF VaultRows
  <2>. QED
    BY <1>1, <1>2, <1>3, <1>4, <2>1 DEF ProvidersInv, TokensInv, OneLoginInv, LiveInv, InFlight
<1>. QED
  BY <1>5, <1>6, <1>7 DEF ProvidersInv

\* save_oauth_secret leaves a whole row, as enabled as before.
LEMMA SavedLogin ==
  ASSUME ProvidersInv, NEW g \in Nat, NEW serial \in Nat, NEW id \in Nat,
         vault' = [vault EXCEPT ![OpenAI] = save_oauth_secret(g, serial, id)]
  PROVE  /\ vault' \in [ProviderVars -> VaultRows]
         /\ \A p \in ProviderVars : p # OpenAI => vault'[p] = vault[p]
         /\ vault'[OpenAI].method = "oauth" /\ vault'[OpenAI].enabled = vault[OpenAI].enabled
         /\ vault'[OpenAI].value = g /\ vault'[OpenAI].refresh = g
         /\ vault'[OpenAI].serial = serial /\ vault'[OpenAI].id = id
<1>1. vault[OpenAI] \in VaultRows /\ vault \in [ProviderVars -> VaultRows] /\ OpenAI \in ProviderVars
  BY DEF ProvidersInv, ProvidersTypes, ProviderVars
<1>. QED
  BY <1>1 DEF save_oauth_secret, VaultRows, Methods

\* The server's answer to a refresh, granted or refused, changes no stored login.
LEMMA AnswerKeeps ==
  ASSUME ProvidersInv, NEW r \in Refreshers, ServerAnswers(r)
  PROVE  ProvidersInv'
<1>. DEFINE g == refresher[r].login
            accepted == Accepts(r)
<1>1. refresher[r] \in RefresherStates /\ refresher[r].at = "sent" /\ g \in 1 .. server.logins /\ refresher[r].granted = 0
  BY DEF ServerAnswers, ProvidersInv, ProvidersTypes, LoginsInv, RefresherStates
<1>2. g \in 1 .. MaxLogins /\ server.serial[g] \in Nat /\ server.logins \in 0 .. MaxLogins
  BY <1>1, ProvidersAssumption DEF ProvidersInv, ProvidersTypes
<1>3. UNCHANGED <<vault, rows, oauth, overlapped, lost>>
  BY DEF ServerAnswers
<1>4. ~overlapped => RowsInv'
  BY <1>3 DEF ProvidersInv, RowsInv, RowOf, has_secret
<1>5. CASE accepted
  <2>1. /\ server' = [server EXCEPT !.serial[g] = @ + 1]
        /\ refresher' = [refresher EXCEPT ![r].at = "answered", ![r].granted = Grants(r)]
    BY <1>5 DEF ServerAnswers, Rotates
  <2>2. /\ server'.logins = server.logins
        /\ \A h \in 1 .. MaxLogins : server'.serial[h] = IF h = g THEN server.serial[g] + 1 ELSE server.serial[h]
        /\ server' \in [logins : 0 .. MaxLogins, serial : [1 .. MaxLogins -> Nat]]
    <3>1. server \in [logins : 0 .. MaxLogins, serial : [1 .. MaxLogins -> Nat]]
      BY DEF ProvidersInv, ProvidersTypes
    <3>2. server' = [logins |-> server.logins, serial |-> [server.serial EXCEPT ![g] = @ + 1]]
      BY <2>1, <3>1
    <3>3. server.serial \in [1 .. MaxLogins -> Nat]
      BY <3>1
    <3>. HIDE DEF g
    <3>4. [server.serial EXCEPT ![g] = @ + 1] \in [1 .. MaxLogins -> Nat]
      BY <1>2, <3>3
    <3>. QED
      BY <1>2, <3>2, <3>3, <3>4
  <2>3. /\ refresher' \in [Refreshers -> RefresherStates]
        /\ \A q \in Refreshers : q # r => refresher'[q] = refresher[q]
        /\ refresher'[r].at = "answered" /\ refresher'[r].login = g /\ refresher'[r].serial = refresher[r].serial
        /\ refresher'[r].granted = server.serial[g] + 1
    <3>1. Grants(r) = server.serial[g] + 1 /\ Grants(r) \in Nat
      BY <1>1, <1>2, <1>5 DEF Grants, Accepts
    <3>2. refresher \in [Refreshers -> RefresherStates]
      BY DEF ProvidersInv, ProvidersTypes
    <3>3. PICK v : v = [refresher[r] EXCEPT !.at = "answered", !.granted = Grants(r)]
      OBVIOUS
    <3>4. /\ v \in RefresherStates /\ v.at = "answered" /\ v.login = g /\ v.serial = refresher[r].serial
          /\ v.granted = server.serial[g] + 1
      BY <1>1, <3>1, <3>3 DEF RefresherStates
    <3>5. refresher' = [refresher EXCEPT ![r] = v]
      BY <2>1, <3>2, <3>3
    <3>. HIDE DEF g, accepted
    <3>6. refresher'[r] = v /\ \A q \in Refreshers : refresher'[q] = IF q = r THEN v ELSE refresher[q]
      BY <3>2, <3>5
    <3>. QED
      BY <3>2, <3>4, <3>5, <3>6
  <2>4. ProvidersTypes' /\ LoginsInv'
    BY <1>1, <1>2, <1>3, <2>2, <2>3, SMTT(30) DEF ProvidersInv, ProvidersTypes, LoginsInv
  <2>5. ASSUME ~overlapped PROVE TokensInv'
    <3>1. OneLoginInv /\ InFlight(r)
      BY <1>1, <2>5 DEF ProvidersInv, TokensInv, InFlight
    <3>2. OneLoginInv'
      BY <1>3, <2>3, <3>1 DEF OneLoginInv, InFlight
    <3>3. ASSUME vault[OpenAI].refresh \notin lost PROVE LiveInv'
      <4>1. LiveInv
        BY <2>5, <3>3 DEF ProvidersInv, TokensInv
      <4>2. vault[OpenAI].method = "oauth" /\ vault[OpenAI].refresh = g /\ server.serial[g] <= vault[OpenAI].serial
            /\ vault[OpenAI].serial \in Nat
        BY <1>1, <1>5, <3>1, <4>1 DEF OneLoginInv, LiveInv, Accepts, ProvidersInv, ProvidersTypes, VaultRows, ProviderVars
      <4>3. \A q \in Refreshers : refresher[q].granted = 0
        BY <1>2, <4>1, <4>2 DEF LiveInv
      <4>4. vault[OpenAI].serial = server.serial[g]
        BY <4>1, <4>2, <4>3 DEF LiveInv
      <4>5. \A q \in Refreshers : InFlight(q)' => refresher'[q].serial <= vault[OpenAI].serial
        BY <2>3, <3>1, <4>1 DEF LiveInv, InFlight
      <4>. QED
        BY <1>1, <1>2, <1>3, <2>2, <2>3, <4>2, <4>3, <4>4, <4>5 DEF LiveInv
    <3>. QED
      BY <1>3, <3>2, <3>3 DEF TokensInv
  <2>. QED
    BY <1>3, <1>4, <2>4, <2>5 DEF ProvidersInv
<1>6. CASE ~accepted
  <2>1. server' = server /\ refresher' = [refresher EXCEPT ![r].at = "answered"]
    BY <1>6 DEF ServerAnswers
  <2>2. /\ refresher' \in [Refreshers -> RefresherStates]
        /\ \A q \in Refreshers : q # r => refresher'[q] = refresher[q]
        /\ refresher'[r].at = "answered" /\ refresher'[r].login = g /\ refresher'[r].serial = refresher[r].serial
        /\ refresher'[r].granted = 0
    BY <2>1, <1>1 DEF ProvidersInv, ProvidersTypes, RefresherStates
  <2>3. ProvidersTypes' /\ LoginsInv'
    BY <1>1, <1>3, <2>1, <2>2 DEF ProvidersInv, ProvidersTypes, LoginsInv
  <2>4. ASSUME ~overlapped PROVE TokensInv'
    BY <1>1, <1>3, <2>1, <2>2, <2>4 DEF ProvidersInv, TokensInv, OneLoginInv, LiveInv, InFlight
  <2>. QED
    BY <1>3, <1>4, <2>3, <2>4 DEF ProvidersInv
<1>. QED
  BY <1>5, <1>6

\* The end of a refresh stores what was granted or gives the login up.
LEMMA RefreshEndKeeps ==
  ASSUME ProvidersInv, NEW r \in Refreshers, RefreshEnds(r)
  PROVE  ProvidersInv'
<1>1. refresher[r] \in RefresherStates /\ refresher[r].at = "answered" /\ refresher[r].login \in 1 .. server.logins
  BY DEF RefreshEnds, ProvidersInv, ProvidersTypes, LoginsInv
<1>2. UNCHANGED <<rows, oauth, server, overlapped, lost>>
  BY DEF RefreshEnds
<1>3. /\ refresher' \in [Refreshers -> RefresherStates]
      /\ \A q \in Refreshers : q # r => refresher'[q] = refresher[q]
      /\ refresher'[r].at = "idle" /\ refresher'[r].login = 0 /\ refresher'[r].granted = 0
  BY DEF RefreshEnds, NoRefresh, ProvidersInv, ProvidersTypes, RefresherStates
<1>4. vault[OpenAI] \in VaultRows /\ vault \in [ProviderVars -> VaultRows] /\ OpenAI \in ProviderVars
  BY DEF ProvidersInv, ProvidersTypes, ProviderVars
<1>5. server.logins \in Nat
  BY DEF ProvidersInv, ProvidersTypes
<1>6. CASE refresher[r].granted = 0
  <2>1. vault' = vault
    BY <1>6 DEF RefreshEnds
  <2>2. ProvidersTypes' /\ LoginsInv'
    BY <1>2, <1>3, <1>5, <2>1 DEF ProvidersInv, ProvidersTypes, LoginsInv
  <2>3. ~overlapped => RowsInv'
    BY <1>2, <2>1 DEF ProvidersInv, RowsInv, RowOf, has_secret
  <2>4. ~overlapped => TokensInv'
    BY <1>1, <1>2, <1>3, <1>6, <2>1 DEF ProvidersInv, TokensInv, OneLoginInv, LiveInv, InFlight
  <2>. QED
    BY <1>2, <2>2, <2>3, <2>4 DEF ProvidersInv
<1>7. CASE refresher[r].granted # 0
  <2>1. PICK id \in {refresher[r].login, vault[OpenAI].id} :
           vault' = [vault EXCEPT ![OpenAI] = save_oauth_secret(refresher[r].login, refresher[r].granted, id)]
    BY <1>7 DEF RefreshEnds
  <2>2. /\ vault' \in [ProviderVars -> VaultRows]
        /\ \A p \in ProviderVars : p # OpenAI => vault'[p] = vault[p]
        /\ vault'[OpenAI].method = "oauth" /\ vault'[OpenAI].enabled = vault[OpenAI].enabled
        /\ vault'[OpenAI].value = refresher[r].login /\ vault'[OpenAI].refresh = refresher[r].login
        /\ vault'[OpenAI].serial = refresher[r].granted /\ vault'[OpenAI].id = id
    <3>1. refresher[r].login \in Nat /\ refresher[r].granted \in Nat /\ id \in Nat
      BY <1>1, <1>4, <2>1 DEF RefresherStates, VaultRows
    <3>. QED
      BY <2>1, <3>1, SavedLogin
  <2>3. ProvidersTypes' /\ LoginsInv'
    BY <1>1, <1>2, <1>3, <1>4, <1>5, <2>2 DEF ProvidersInv, ProvidersTypes, LoginsInv
  <2>4. ASSUME ~overlapped PROVE RowsInv' /\ TokensInv'
    <3>1. OneLoginInv /\ RowsInv /\ InFlight(r)
      BY <1>1, <2>4 DEF ProvidersInv, TokensInv, InFlight
    <3>2. vault[OpenAI].method = "oauth" /\ refresher[r].login = vault[OpenAI].refresh /\ vault[OpenAI].id = vault[OpenAI].refresh
          /\ vault[OpenAI].refresh # 0
      BY <3>1 DEF OneLoginInv
    <3>3. RowsInv'
      BY <1>2, <2>2, <3>1, <3>2 DEF RowsInv, RowOf, has_secret
    <3>4. vault'[OpenAI].refresh = vault[OpenAI].refresh /\ id = vault[OpenAI].refresh
      BY <2>1, <2>2, <3>2
    <3>5. OneLoginInv'
      BY <1>3, <2>2, <3>1, <3>2, <3>4 DEF OneLoginInv, InFlight
    <3>6. ASSUME vault[OpenAI].refresh \notin lost PROVE LiveInv'
      <4>1. LiveInv
        BY <2>4, <3>6 DEF ProvidersInv, TokensInv
      <4>2. /\ refresher[r].granted = server.serial[vault[OpenAI].refresh] /\ vault[OpenAI].serial < refresher[r].granted
            /\ \A q \in Refreshers : q # r => refresher[q].granted = 0
        BY <1>7, <4>1 DEF LiveInv
      <4>3. refresher[r].granted \in Nat /\ vault[OpenAI].serial \in Nat /\ \A q \in Refreshers : refresher[q].serial \in Nat
        BY <1>1, <1>4 DEF RefresherStates, VaultRows, ProvidersInv, ProvidersTypes
      <4>4. \A q \in Refreshers : refresher'[q].granted = 0
        BY <1>3, <4>2
      <4>5. vault'[OpenAI].serial = server'.serial[vault'[OpenAI].refresh]
        BY <1>2, <2>2, <3>4, <4>2
      <4>6. ASSUME NEW q \in Refreshers, InFlight(q)' PROVE refresher'[q].serial <= vault'[OpenAI].serial
        <5>1. q # r /\ refresher'[q] = refresher[q] /\ InFlight(q)
          BY <1>3, <4>6 DEF InFlight
        <5>2. refresher[q].serial <= vault[OpenAI].serial
          BY <4>1, <5>1 DEF LiveInv
        <5>. QED
          BY <2>2, <4>2, <4>3, <5>1, <5>2
      <4>. QED
        BY <4>4, <4>5, <4>6 DEF LiveInv
    <3>7. TokensInv'
      BY <1>2, <3>4, <3>5, <3>6 DEF TokensInv
    <3>. QED
      BY <3>3, <3>7
  <2>. QED
    BY <1>2, <2>3, <2>4 DEF ProvidersInv
<1>. QED
  BY <1>6, <1>7

\* A request nobody waits for, and one that ends in nothing: a token granted meanwhile is lost.
LEMMA LossKeeps ==
  ASSUME ProvidersInv, NEW r \in Refreshers, GivesUp(r) \/ UnheardEnds(r) \/ RefreshFails(r)
  PROVE  ProvidersInv'
<1>. DEFINE g == refresher[r].login
<1>1. /\ refresher[r] \in RefresherStates /\ refresher[r].at # "idle" /\ g \in 1 .. server.logins
      /\ server.logins \in 0 .. MaxLogins /\ vault[OpenAI].refresh \in 0 .. server.logins
  BY DEF GivesUp, UnheardEnds, RefreshFails, ProvidersInv, ProvidersTypes, LoginsInv
<1>2. UNCHANGED <<vault, rows, oauth, overlapped>> /\ lost \subseteq lost'
  BY DEF GivesUp, UnheardEnds, RefreshFails
<1>3. /\ refresher' \in [Refreshers -> RefresherStates]
      /\ \A q \in Refreshers : q # r => refresher'[q] = refresher[q]
      /\ ~InFlight(r)' /\ refresher'[r].granted = 0 /\ refresher'[r].login \in {0, g}
      /\ refresher'[r].at # "idle" => refresher'[r].login = g
  <2>0. refresher \in [Refreshers -> RefresherStates] /\ (refresher[r].granted # 0 => refresher[r].at = "answered")
    BY DEF ProvidersInv, ProvidersTypes, LoginsInv
  <2>1. \/ refresher' = [refresher EXCEPT ![r] = NoRefresh]
        \/ refresher[r].at = "sent" /\ refresher' = [refresher EXCEPT ![r] = [refresher[r] EXCEPT !.at = "unheard"]]
    BY <1>1 DEF GivesUp, UnheardEnds, RefreshFails
  <2>2. NoRefresh \in RefresherStates /\ NoRefresh.at = "idle" /\ NoRefresh.granted = 0 /\ NoRefresh.login = 0
    BY DEF NoRefresh, RefresherStates
  <2>. HIDE DEF NoRefresh
  <2>3. CASE refresher' = [refresher EXCEPT ![r] = NoRefresh]
    BY <2>0, <2>2, <2>3 DEF InFlight
  <2>4. CASE refresher[r].at = "sent" /\ refresher' = [refresher EXCEPT ![r] = [refresher[r] EXCEPT !.at = "unheard"]]
    BY <1>1, <2>0, <2>4 DEF InFlight, RefresherStates
  <2>. QED
    BY <2>1, <2>3, <2>4
<1>4. /\ server' \in [logins : 0 .. MaxLogins, serial : [1 .. MaxLogins -> Nat]] /\ server'.logins = server.logins
      /\ \A h \in 1 .. MaxLogins : h # g => server'.serial[h] = server.serial[h]
      /\ server' = server \/ g \in lost'
  <2>1. CASE server' = server
    BY <2>1 DEF ProvidersInv, ProvidersTypes
  <2>2. CASE server' # server
    <3>1. server' = [server EXCEPT !.serial[g] = @ + 1] /\ lost' = lost \cup {g}
      BY <2>2 DEF GivesUp, UnheardEnds, RefreshFails, Rotates
    <3>2. server \in [logins : 0 .. MaxLogins, serial : [1 .. MaxLogins -> Nat]] /\ MaxLogins \in Nat
      BY ProvidersAssumption DEF ProvidersInv, ProvidersTypes
    <3>3. server' = [logins |-> server.logins, serial |-> [server.serial EXCEPT ![g] = @ + 1]]
      BY <3>1, <3>2
    <3>4. g \in 1 .. MaxLogins /\ server.serial \in [1 .. MaxLogins -> Nat]
      BY <1>1, <3>2
    <3>. HIDE DEF g
    <3>5. PICK old, serial : old = server.serial /\ serial = [old EXCEPT ![g] = @ + 1]
      OBVIOUS
    <3>6. serial \in [1 .. MaxLogins -> Nat] /\ \A h \in 1 .. MaxLogins : h # g => serial[h] = old[h]
      <4>1. old \in [1 .. MaxLogins -> Nat] /\ g \in 1 .. MaxLogins
        BY <3>4, <3>5
      <4>2. old[g] \in Nat
        BY <4>1
      <4>3. old[g] + 1 \in Nat
        BY <4>2
      <4>. QED
        BY <3>5, <4>1, <4>3
    <3>7. server' = [logins |-> server.logins, serial |-> serial] /\ server.logins \in 0 .. MaxLogins
      BY <1>1, <3>3, <3>5
    <3>8. /\ server' \in [logins : 0 .. MaxLogins, serial : [1 .. MaxLogins -> Nat]]
          /\ server'.logins = server.logins /\ server'.serial = serial
      BY <3>6, <3>7
    <3>. QED
      BY <3>1, <3>5, <3>6, <3>8
  <2>. QED
    BY <2>1, <2>2
<1>5. refresher[r].granted # 0 => g \in lost'
  BY DEF GivesUp, UnheardEnds, RefreshFails, ProvidersInv, LoginsInv
<1>6. ProvidersTypes' /\ LoginsInv'
  <2>1. \A h \in 1 .. MaxLogins : h > server.logins => h # g
    BY <1>1
  <2>. QED
    BY <1>1, <1>2, <1>3, <1>4, <2>1 DEF ProvidersInv, ProvidersTypes, LoginsInv
<1>7. ASSUME ~overlapped PROVE RowsInv' /\ TokensInv'
  <2>1. RowsInv /\ OneLoginInv
    BY <1>7 DEF ProvidersInv, TokensInv
  <2>2. RowsInv'
    BY <1>2, <2>1 DEF RowsInv, RowOf, has_secret
  <2>3. \A q \in Refreshers : InFlight(q)' => q # r /\ InFlight(q)
    BY <1>3 DEF InFlight
  <2>4. OneLoginInv'
    BY <1>2, <1>3, <2>1, <2>3 DEF OneLoginInv
  <2>5. ASSUME vault[OpenAI].refresh \notin lost' PROVE LiveInv'
    <3>1. LiveInv /\ vault[OpenAI].refresh \notin lost
      BY <1>2, <1>7, <2>5 DEF ProvidersInv, TokensInv
    <3>2. \A q \in Refreshers : refresher[q].granted # 0 => InFlight(q) /\ refresher[q].login = vault[OpenAI].refresh
      BY <2>1 DEF ProvidersInv, LoginsInv, OneLoginInv, InFlight
    <3>3. refresher[r].granted = 0 /\ refresher'[r].granted = 0
      BY <1>3, <1>5, <2>5, <3>2
    <3>4. \A q \in Refreshers : refresher'[q].granted = refresher[q].granted
      BY <1>3, <3>3
    <3>5. vault[OpenAI].refresh \in 1 .. MaxLogins => server'.serial[vault[OpenAI].refresh] = server.serial[vault[OpenAI].refresh]
      BY <1>4, <2>5
    <3>6. vault[OpenAI].refresh # 0 => vault[OpenAI].refresh \in 1 .. MaxLogins
      BY <1>1, ProvidersAssumption
    <3>7. (\E q \in Refreshers : refresher[q].granted # 0) \/ vault[OpenAI].method = "oauth" => vault[OpenAI].refresh # 0
      BY <2>1, <3>2 DEF OneLoginInv, ProvidersInv, LoginsInv, InFlight
    <3>8. \A q \in Refreshers : InFlight(q)' => refresher'[q].serial <= vault[OpenAI].serial
      BY <1>3, <2>3, <3>1 DEF LiveInv
    <3>. QED
      BY <1>2, <3>1, <3>4, <3>5, <3>6, <3>7, <3>8 DEF LiveInv
  <2>. QED
    BY <1>2, <2>2, <2>4, <2>5 DEF TokensInv
<1>. QED
  BY <1>2, <1>6, <1>7 DEF ProvidersInv

\* A new login replaces the row and whatever was wrong with the old one.
LEMMA LoginKeeps ==
  ASSUME ProvidersInv, LoginSucceeds
  PROVE  ProvidersInv'
<1>. DEFINE g == server.logins + 1
<1>1. server.logins \in Nat /\ g \in 1 .. MaxLogins /\ server.serial[g] = 1 /\ MaxLogins \in Nat
  BY ProvidersAssumption DEF LoginSucceeds, ProvidersInv, ProvidersTypes, LoginsInv
<1>2. vault[OpenAI] \in VaultRows /\ vault \in [ProviderVars -> VaultRows] /\ OpenAI \in ProviderVars
  BY DEF ProvidersInv, ProvidersTypes, ProviderVars
<1>3. /\ server' = [logins |-> g, serial |-> server.serial] /\ server.serial \in [1 .. MaxLogins -> Nat]
      /\ UNCHANGED <<refresher, lost>>
  BY DEF LoginSucceeds, ProvidersInv, ProvidersTypes
<1>4. /\ vault' \in [ProviderVars -> VaultRows]
      /\ \A p \in ProviderVars : p # OpenAI => vault'[p] = vault[p]
      /\ vault'[OpenAI].method = "oauth" /\ vault'[OpenAI].enabled = vault[OpenAI].enabled
      /\ vault'[OpenAI].value = g /\ vault'[OpenAI].refresh = g
      /\ vault'[OpenAI].serial = 1 /\ vault'[OpenAI].id = g
  <2>1. vault' = [vault EXCEPT ![OpenAI] = save_oauth_secret(g, 1, g)]
    BY DEF LoginSucceeds
  <2>2. g \in Nat
    BY <1>1
  <2>. HIDE DEF g
  <2>. QED
    BY <2>1, <2>2, SavedLogin
<1>5. /\ rows' \in [ProviderVars -> PanelRows]
      /\ \A p \in ProviderVars : p # OpenAI => rows'[p] = rows[p]
      /\ rows'[OpenAI] = [saved |-> TRUE, method |-> "oauth", enabled |-> rows[OpenAI].enabled]
  BY <1>2 DEF LoginSucceeds, ProvidersInv, ProvidersTypes, PanelRows, Methods
<1>6. ProvidersTypes'
  <2>1. oauth' \in OAuthStates
    BY DEF LoginSucceeds, OAuthStates
  <2>2. server' \in [logins : 0 .. MaxLogins, serial : [1 .. MaxLogins -> Nat]]
    <3>. HIDE DEF g
    <3>. QED
      BY <1>1, <1>3
  <2>. QED
    BY <1>3, <1>4, <1>5, <2>1, <2>2 DEF ProvidersInv, ProvidersTypes
<1>7. LoginsInv'
  <2>1. oauth'.login = "none"
    BY DEF LoginSucceeds
  <2>. QED
    BY <1>1, <1>3, <1>4, <2>1 DEF ProvidersInv, LoginsInv
<1>8. ASSUME ~overlapped' PROVE RowsInv' /\ TokensInv'
  <2>1. ~overlapped /\ ~Outstanding
    BY <1>8 DEF LoginSucceeds, Overlaps
  <2>2. RowsInv /\ TokensInv
    BY <2>1 DEF ProvidersInv
  <2>3. RowsInv'
    BY <1>2, <1>4, <1>5, <2>2 DEF RowsInv, RowOf, has_secret
  <2>4. \A r \in Refreshers : ~InFlight(r) /\ refresher[r].granted = 0
    BY <2>1, IdleTokens
  <2>5. TokensInv'
    BY <1>1, <1>3, <1>4, <2>4 DEF TokensInv, OneLoginInv, LiveInv, InFlight
  <2>. QED
    BY <2>3, <2>5
<1>. QED
  BY <1>6, <1>7, <1>8 DEF ProvidersInv, LoginSucceeds, Overlaps

\* A key is saved or a row removed: a new row that is no login's.
LEMMA KeyKeeps ==
  ASSUME ProvidersInv, NEW p \in ProviderVars, save_secret(p) \/ RemoveKey(p)
  PROVE  ProvidersInv'
<1>1. vault \in [ProviderVars -> VaultRows] /\ rows \in [ProviderVars -> PanelRows] /\ OpenAI \in ProviderVars
  BY DEF ProvidersInv, ProvidersTypes, ProviderVars
<1>2. UNCHANGED <<server, refresher, lost>> /\ overlapped' = (overlapped \/ Outstanding)
  BY DEF save_secret, RemoveKey, remove_secret, Overlaps
<1>3. oauth' \in OAuthStates /\ oauth'.login = oauth.login
  <2>1. oauth' = [oauth EXCEPT !.status = "Idle"] \/ oauth' = oauth
    BY DEF save_secret, RemoveKey, remove_secret
  <2>. QED
    BY <2>1 DEF ProvidersInv, ProvidersTypes, OAuthStates
<1>4. /\ vault' \in [ProviderVars -> VaultRows] /\ rows' \in [ProviderVars -> PanelRows]
      /\ vault'[OpenAI].refresh \in {0, vault[OpenAI].refresh}
  <2>1. \E row \in VaultRows : vault' = [vault EXCEPT ![p] = row] /\ row.refresh \in {0, vault[p].refresh}
    <3>1. NoSecret \in VaultRows /\ NoSecret.refresh = 0
      BY DEF NoSecret, VaultRows, Methods
    <3>2. ApiKey(TRUE) \in VaultRows /\ ApiKey(TRUE).refresh = 0
      BY DEF ApiKey, NoSecret, VaultRows, Methods
    <3>3. [vault[p] EXCEPT !.value = 0] \in VaultRows /\ [vault[p] EXCEPT !.value = 0].refresh = vault[p].refresh
      BY <1>1 DEF VaultRows
    <3>4. CASE RemoveKey(p)
      BY <3>1, <3>4 DEF RemoveKey, remove_secret
    <3>5. CASE save_secret(p)
      BY <3>2, <3>3, <3>5 DEF save_secret
    <3>. QED
      BY <3>4, <3>5
  <2>2. \E row \in PanelRows : rows' = [rows EXCEPT ![p] = row]
    BY DEF save_secret, RemoveKey, remove_secret, PanelRows, Methods
  <2>. QED
    BY <1>1, <2>1, <2>2
<1>5. ProvidersTypes' /\ LoginsInv'
  <2>1. server.logins \in Nat
    BY DEF ProvidersInv, ProvidersTypes
  <2>. QED
    BY <1>2, <1>3, <1>4, <2>1 DEF ProvidersInv, ProvidersTypes, LoginsInv
<1>6. ASSUME ~overlapped' PROVE RowsInv' /\ TokensInv'
  <2>1. RowsInv /\ TokensInv /\ ~Outstanding
    BY <1>2, <1>6 DEF ProvidersInv
  <2>2. \A r \in Refreshers : ~InFlight(r) /\ refresher[r].granted = 0
    BY <2>1, IdleTokens
  <2>3. /\ \A q \in ProviderVars : q # p => vault'[q] = vault[q] /\ rows'[q] = rows[q]
        /\ vault'[p].method \in {"none", "api_key"} /\ vault'[p].enabled
        /\ (rows'[p].saved <=> vault'[p].method # "none") /\ rows'[p].method = "api_key" /\ rows'[p].enabled
    <3>1. CASE save_secret(p)
      <4>1. ~rows[p].saved
        <5>1. "save" \in RowOffers(p) /\ oauth \in OAuthStates
          BY <3>1 DEF save_secret, ProvidersInv, ProvidersTypes
        <5>2. "save" \notin OAuthOffers
          BY <5>1 DEF OAuthOffers, OAuthStates
        <5>. HIDE DEF OAuthOffers
        <5>. QED
          BY <5>1, <5>2 DEF RowOffers
      <4>2. ~has_secret(p)
        BY <2>1, <4>1 DEF RowsInv, has_secret
      <4>3. /\ vault' = [vault EXCEPT ![p] = ApiKey(TRUE)]
            /\ rows' = [rows EXCEPT ![p] = [saved |-> TRUE, method |-> "api_key", enabled |-> TRUE]]
        BY <3>1, <4>2 DEF save_secret
      <4>4. vault'[p] = ApiKey(TRUE) /\ rows'[p] = [saved |-> TRUE, method |-> "api_key", enabled |-> TRUE]
        BY <1>1, <4>3
      <4>5. vault'[p].method = "api_key" /\ vault'[p].enabled
        BY <4>4 DEF ApiKey, NoSecret
      <4>6. rows'[p].saved /\ rows'[p].method = "api_key" /\ rows'[p].enabled
        BY <4>4
      <4>. QED
        BY <1>1, <4>3, <4>5, <4>6
    <3>2. CASE RemoveKey(p)
      <4>1. /\ vault' = [vault EXCEPT ![p] = NoSecret]
            /\ rows' = [rows EXCEPT ![p] = [saved |-> FALSE, method |-> "api_key", enabled |-> TRUE]]
        BY <3>2 DEF RemoveKey, remove_secret
      <4>2. vault'[p] = NoSecret /\ rows'[p] = [saved |-> FALSE, method |-> "api_key", enabled |-> TRUE]
        BY <1>1, <4>1
      <4>3. vault'[p].method = "none" /\ vault'[p].enabled
        BY <4>2 DEF NoSecret
      <4>4. ~rows'[p].saved /\ rows'[p].method = "api_key" /\ rows'[p].enabled
        BY <4>2
      <4>. QED
        BY <1>1, <4>1, <4>3, <4>4
    <3>. QED
      BY <3>1, <3>2
  <2>4. RowsInv'
    BY <1>1, <2>1, <2>3 DEF RowsInv, RowOf, has_secret
  <2>5. TokensInv'
    BY <1>1, <1>2, <2>1, <2>2, <2>3 DEF TokensInv, OneLoginInv, LiveInv, InFlight
  <2>. QED
    BY <2>4, <2>5
<1>. QED
  BY <1>2, <1>5, <1>6 DEF ProvidersInv

\* Until something is written under a refresh in flight the panel agrees with the vault,
\* and until a token the server granted is lost the vault with the server, for any
\* refreshers, logins and refreshes.
THEOREM LoginStaysTrue == ProvidersSpec => []LoginIsTrue
<1>1. ProvidersInit => ProvidersInv
  <2> SUFFICES ASSUME ProvidersInit PROVE ProvidersInv
    OBVIOUS
  <2>1. /\ \A p \in ProviderVars : vault[p] = NoSecret /\ rows[p] = RowOf(p)
        /\ \A r \in Refreshers : refresher[r] = [at |-> "idle", login |-> 0, serial |-> 0, granted |-> 0]
        /\ server.logins = 0 /\ \A g \in 1 .. MaxLogins : server.serial[g] = 1
        /\ OpenAI \in ProviderVars /\ overlapped = FALSE /\ oauth.login = "none"
    BY DEF ProvidersInit, ProviderVars, NoRefresh
  <2>2. vault \in [ProviderVars -> VaultRows]
    BY DEF ProvidersInit, NoSecret, VaultRows, Methods
  <2>3. rows \in [ProviderVars -> PanelRows]
    BY <2>1 DEF ProvidersInit, RowOf, has_secret, NoSecret, PanelRows, Methods
  <2>4. server \in [logins : 0 .. MaxLogins, serial : [1 .. MaxLogins -> Nat]]
    BY ProvidersAssumption DEF ProvidersInit
  <2>5. refresher \in [Refreshers -> RefresherStates]
    BY DEF ProvidersInit, NoRefresh, RefresherStates
  <2>6. LoginsInv
    BY <2>1 DEF LoginsInv, NoSecret
  <2>7. RowsInv
    <3>. SUFFICES ASSUME NEW p \in ProviderVars
                  PROVE  /\ rows[p].saved <=> vault[p].method # "none"
                         /\ rows[p].method = IF vault[p].method # "none" THEN vault[p].method ELSE "api_key"
                         /\ rows[p].enabled <=> vault[p].enabled
      BY DEF RowsInv
    <3>1. vault[p].method = "none" /\ vault[p].enabled
      BY <2>1 DEF NoSecret
    <3>0. vault[p].enabled = TRUE
      BY <2>1 DEF NoSecret
    <3>2. rows[p] = [saved |-> FALSE, method |-> "api_key", enabled |-> TRUE]
      <4>1. rows[p] = [saved |-> vault[p].method # "none", method |-> "api_key", enabled |-> vault[p].enabled]
        BY <2>1, <3>1 DEF RowOf, has_secret
      <4>2. (vault[p].method # "none") = FALSE
        BY <3>1
      <4>. QED
        BY <3>0, <4>1, <4>2
    <3>3. ~rows[p].saved /\ rows[p].method = "api_key" /\ rows[p].enabled
      BY <3>2
    <3>. QED
      BY <3>1, <3>3
  <2>8. TokensInv
    BY <2>1 DEF TokensInv, OneLoginInv, LiveInv, InFlight, NoSecret
  <2>9. oauth \in OAuthStates
    BY DEF ProvidersInit, OAuthStates
  <2>. QED
    BY <2>1, <2>2, <2>3, <2>4, <2>5, <2>6, <2>7, <2>8, <2>9 DEF ProvidersInv, ProvidersTypes
<1>2. ProvidersInv /\ [ProvidersNext]_provider_vars => ProvidersInv'
  <2> SUFFICES ASSUME ProvidersInv, [ProvidersNext]_provider_vars PROVE ProvidersInv'
    OBVIOUS
  <2>0. /\ vault \in [ProviderVars -> VaultRows] /\ rows \in [ProviderVars -> PanelRows]
        /\ OpenAI \in ProviderVars /\ server.logins \in Nat
    BY DEF ProvidersInv, ProvidersTypes, ProviderVars
  <2>1. ASSUME NEW p \in ProviderVars, save_secret(p) \/ RemoveKey(p) PROVE ProvidersInv'
    BY <2>1, KeyKeeps
  <2>2. ASSUME NEW p \in ProviderVars, set_secret_enabled(p) PROVE ProvidersInv'
    <3>1. /\ UNCHANGED <<oauth, server, refresher, overlapped, lost>>
          /\ rows' = [rows EXCEPT ![p].enabled = ~@] /\ rows[p].saved
      BY <2>2 DEF set_secret_enabled, RowOffers, OAuthOffers
    <3>2. /\ vault' \in [ProviderVars -> VaultRows] /\ rows' \in [ProviderVars -> PanelRows]
          /\ \A q \in ProviderVars : /\ vault'[q].method = vault[q].method /\ vault'[q].value = vault[q].value
                /\ vault'[q].refresh = vault[q].refresh /\ vault'[q].serial = vault[q].serial
                /\ vault'[q].id = vault[q].id
      <4>1. vault' = [vault EXCEPT ![p].enabled = ~rows[p].enabled] \/ vault' = vault
        BY <2>2 DEF set_secret_enabled
      <4>2. (~rows[p].enabled) \in BOOLEAN
        OBVIOUS
      <4>3. rows' \in [ProviderVars -> PanelRows]
        BY <2>0, <3>1, <4>2 DEF PanelRows
      <4>4. CASE vault' = vault
        BY <2>0, <4>3, <4>4
      <4>5. CASE vault' = [vault EXCEPT ![p].enabled = ~rows[p].enabled]
        <5>. DEFINE b == ~rows[p].enabled
        <5>1. b \in BOOLEAN
          BY <4>2
        <5>2. vault' = [vault EXCEPT ![p] = [vault[p] EXCEPT !.enabled = b]] /\ vault[p] \in VaultRows
          BY <2>0, <4>5
        <5>. HIDE DEF b
        <5>3. /\ [vault[p] EXCEPT !.enabled = b] \in VaultRows
              /\ [vault[p] EXCEPT !.enabled = b].method = vault[p].method
              /\ [vault[p] EXCEPT !.enabled = b].value = vault[p].value
              /\ [vault[p] EXCEPT !.enabled = b].refresh = vault[p].refresh
              /\ [vault[p] EXCEPT !.enabled = b].serial = vault[p].serial
              /\ [vault[p] EXCEPT !.enabled = b].id = vault[p].id
          BY <5>1, <5>2 DEF VaultRows
        <5>. QED
          BY <2>0, <4>3, <5>2, <5>3
      <4>. QED
        BY <4>1, <4>4, <4>5
    <3>3. ProvidersTypes' /\ LoginsInv'
      BY <2>0, <3>1, <3>2 DEF ProvidersInv, ProvidersTypes, LoginsInv
    <3>4. ~overlapped => TokensInv'
      BY <2>0, <3>1, <3>2 DEF ProvidersInv, TokensInv, OneLoginInv, LiveInv, InFlight
    <3>5. ASSUME ~overlapped PROVE RowsInv'
      <4>1. RowsInv
        BY <3>5 DEF ProvidersInv
      <4>2. has_secret(p)
        BY <3>1, <4>1 DEF RowsInv, has_secret
      <4>3. vault' = [vault EXCEPT ![p].enabled = ~rows[p].enabled]
        BY <2>2, <4>2 DEF set_secret_enabled
      <4>. QED
        BY <2>0, <3>1, <3>2, <4>1, <4>3 DEF RowsInv, RowOf, has_secret, PanelRows, VaultRows
    <3>. QED
      BY <3>1, <3>3, <3>4, <3>5 DEF ProvidersInv
  <2>3. CASE ReopenPanel
    <3>1. UNCHANGED <<vault, server, refresher, overlapped, lost>> /\ oauth' \in OAuthStates /\ oauth'.login = oauth.login
      BY <2>3 DEF ReopenPanel, ProvidersInv, ProvidersTypes, OAuthStates
    <3>2. rows' \in [ProviderVars -> PanelRows] /\ \A p \in ProviderVars : rows'[p] = RowOf(p)
      BY <2>0, <2>3 DEF ReopenPanel, RowOf, has_secret, PanelRows, VaultRows, Methods
    <3>3. ProvidersTypes' /\ LoginsInv'
      BY <3>1, <3>2 DEF ProvidersInv, ProvidersTypes, LoginsInv
    <3>4. RowsInv'
      <4>. SUFFICES ASSUME NEW p \in ProviderVars
                    PROVE  /\ rows'[p].saved <=> vault[p].method # "none"
                           /\ rows'[p].method = IF vault[p].method # "none" THEN vault[p].method ELSE "api_key"
                           /\ rows'[p].enabled <=> vault[p].enabled
        BY <3>1 DEF RowsInv
      <4>1. CASE vault[p].method = "none"
        <5>1. rows'[p] = [saved |-> FALSE, method |-> "api_key", enabled |-> vault[p].enabled]
          BY <3>2, <4>1 DEF RowOf, has_secret
        <5>2. ~rows'[p].saved /\ rows'[p].method = "api_key"
          BY <5>1
        <5>3. rows'[p].enabled <=> vault[p].enabled
          BY <5>1
        <5>. QED
          BY <4>1, <5>2, <5>3
      <4>2. CASE vault[p].method # "none"
        <5>1. rows'[p] = [saved |-> TRUE, method |-> vault[p].method, enabled |-> vault[p].enabled]
          BY <3>2, <4>2 DEF RowOf, has_secret
        <5>2. rows'[p].saved /\ rows'[p].method = vault[p].method
          BY <5>1
        <5>3. rows'[p].enabled <=> vault[p].enabled
          BY <5>1
        <5>. QED
          BY <4>2, <5>2, <5>3
      <4>. QED
        BY <4>1, <4>2
    <3>5. ~overlapped => TokensInv'
      BY <3>1 DEF ProvidersInv, TokensInv, OneLoginInv, LiveInv, InFlight
    <3>. QED
      BY <3>1, <3>3, <3>4, <3>5 DEF ProvidersInv
  <2>4. ASSUME UNCHANGED <<vault, rows, server, refresher, overlapped, lost>>, oauth' \in OAuthStates,
               oauth'.login \in {"spawned", "waiting"} => server.logins < MaxLogins
        PROVE  ProvidersInv'
    <3>1. ProvidersTypes' /\ LoginsInv'
      BY <2>4 DEF ProvidersInv, ProvidersTypes, LoginsInv
    <3>2. ~overlapped => RowsInv' /\ TokensInv'
      BY <2>4 DEF ProvidersInv, RowsInv, RowOf, has_secret, TokensInv, OneLoginInv, LiveInv, InFlight
    <3>. QED
      BY <2>4, <3>1, <3>2 DEF ProvidersInv
  <2>5. CASE start_oauth_login
    BY <2>4, <2>5 DEF start_oauth_login, OAuthStates
  <2>6. CASE cancel_oauth_login \/ LoginFails
    <3>0. oauth \in OAuthStates
      BY DEF ProvidersInv, ProvidersTypes
    <3>1. oauth' \in OAuthStates /\ oauth'.login \notin {"spawned", "waiting"}
      <4>1. \/ oauth' = [status |-> "Idle", cancel |-> FALSE, login |-> "cancelled"]
            \/ oauth' = [status |-> "Error", cancel |-> FALSE, login |-> "none"]
        BY <2>6, <3>0 DEF cancel_oauth_login, LoginFails, OAuthStates
      <4>2. CASE oauth' = [status |-> "Idle", cancel |-> FALSE, login |-> "cancelled"]
        BY <4>2 DEF OAuthStates
      <4>3. CASE oauth' = [status |-> "Error", cancel |-> FALSE, login |-> "none"]
        BY <4>3 DEF OAuthStates
      <4>. QED
        BY <4>1, <4>2, <4>3
    <3>. QED
      BY <2>4, <2>6, <3>1 DEF cancel_oauth_login, LoginFails
  <2>7. CASE LoginPolled
    <3>1. oauth' \in OAuthStates /\ (oauth'.login = "none" \/ oauth.login = "spawned")
      BY <2>7 DEF LoginPolled, ProvidersInv, ProvidersTypes, OAuthStates
    <3>. QED
      BY <2>4, <2>7, <3>1 DEF LoginPolled, ProvidersInv, LoginsInv
  <2>8. CASE LoginSucceeds
    BY <2>8, LoginKeeps
  <2>9. CASE NearsExpiry
    <3>1. /\ UNCHANGED <<rows, oauth, server, refresher, overlapped, lost>>
          /\ vault' \in [ProviderVars -> VaultRows]
          /\ \A q \in ProviderVars : /\ vault'[q].method = vault[q].method /\ vault'[q].value = vault[q].value
                /\ vault'[q].refresh = vault[q].refresh /\ vault'[q].serial = vault[q].serial
                /\ vault'[q].id = vault[q].id /\ vault'[q].enabled = vault[q].enabled
      BY <2>0, <2>9 DEF NearsExpiry, VaultRows
    <3>2. ProvidersTypes' /\ LoginsInv'
      BY <2>0, <3>1 DEF ProvidersInv, ProvidersTypes, LoginsInv
    <3>3. ~overlapped => RowsInv' /\ TokensInv'
      BY <2>0, <3>1 DEF ProvidersInv, RowsInv, RowOf, has_secret, TokensInv, OneLoginInv, LiveInv, InFlight
    <3>. QED
      BY <3>1, <3>2, <3>3 DEF ProvidersInv
  <2>10. ASSUME NEW agent, BootAgent(agent) PROVE ProvidersInv'
    BY <2>4, <2>10 DEF BootAgent, ProvidersInv, ProvidersTypes, LoginsInv
  <2>11. CASE ResumeBoot \/ BootSecrets \/ SandboxBooted
    BY <2>4, <2>11 DEF ResumeBoot, BootSecrets, SandboxBooted, ProvidersInv, ProvidersTypes, LoginsInv
  <2>12. ASSUME NEW r \in Refreshers, BootRefreshes(r) PROVE ProvidersInv'
    <3>1. UNCHANGED <<vault, rows, oauth, server, overlapped, lost>> /\ (refresh_if_needed(r) \/ refresher' = refresher)
      BY <2>12 DEF BootRefreshes
    <3>. QED
      BY <2>4, <3>1, SentKeeps DEF ProvidersInv, ProvidersTypes, LoginsInv
  <2>13. ASSUME NEW r \in Refreshers, GatewayRequest(r) PROVE ProvidersInv'
    BY <2>13, SentKeeps DEF GatewayRequest
  <2>14. ASSUME NEW r \in Refreshers, ServerAnswers(r) PROVE ProvidersInv'
    BY <2>14, AnswerKeeps
  <2>15. ASSUME NEW r \in Refreshers, RefreshEnds(r) PROVE ProvidersInv'
    BY <2>15, RefreshEndKeeps
  <2>16. ASSUME NEW r \in Refreshers, GivesUp(r) \/ UnheardEnds(r) \/ RefreshFails(r) PROVE ProvidersInv'
    BY <2>16, LossKeeps
  <2>17. CASE UNCHANGED provider_vars
    BY <2>4, <2>17 DEF provider_vars, ProvidersInv, ProvidersTypes, LoginsInv
  <2>. QED
    BY <2>1, <2>2, <2>3, <2>5, <2>6, <2>7, <2>8, <2>9, <2>10, <2>11, <2>12, <2>13, <2>14, <2>15, <2>16, <2>17 DEF ProvidersNext
<1>3. ProvidersInv => LoginIsTrue
  <2>. SUFFICES ASSUME ProvidersInv, ~overlapped
                PROVE  (\A p \in ProviderVars : rows[p] = RowOf(p)) /\ StoredLoginIsLive
    BY DEF LoginIsTrue, PanelTellsTruth, StoredLoginIsLive
  <2>1. ASSUME NEW p \in ProviderVars PROVE rows[p] = RowOf(p)
    <3>1. /\ rows[p].saved <=> has_secret(p)
          /\ rows[p].method = IF has_secret(p) THEN vault[p].method ELSE "api_key"
          /\ rows[p].enabled <=> vault[p].enabled
      BY DEF ProvidersInv, RowsInv, has_secret
    <3>2. rows[p] \in PanelRows /\ vault[p].enabled \in BOOLEAN /\ has_secret(p) \in BOOLEAN
      BY DEF ProvidersInv, ProvidersTypes, VaultRows, has_secret
    <3>. HIDE DEF has_secret
    <3>3. rows[p].saved = has_secret(p) /\ rows[p].enabled = vault[p].enabled
      BY <3>1, <3>2 DEF PanelRows
    <3>4. rows[p] = [saved |-> rows[p].saved, method |-> rows[p].method, enabled |-> rows[p].enabled]
      BY <3>2 DEF PanelRows
    <3>. QED
      BY <3>1, <3>3, <3>4 DEF RowOf
  <2>2. StoredLoginIsLive
    BY DEF ProvidersInv, TokensInv, OneLoginInv, LiveInv, StoredLoginIsLive
  <2>. QED
    BY <2>1, <2>2
<1>. QED
  BY <1>1, <1>2, <1>3, PTL DEF ProvidersSpec

-----------------------------------------------------------------------------
(* TextInput: offsets                                                      *)

\* A running sum starts at 0 and adds the sizes one by one.
LEMMA SumToIs ==
  ASSUME NEW sizes \in Seq(Nat)
  PROVE  /\ SumTo(sizes) \in [0 .. Len(sizes) -> Nat] /\ SumTo(sizes)[0] = 0
         /\ \A n \in 1 .. Len(sizes) : SumTo(sizes)[n] = SumTo(sizes)[n - 1] + sizes[n]
<1>. DEFINE m == Len(sizes)
            Body(f, n) == IF n = 0 THEN 0 ELSE f[n - 1] + sizes[n]
            F == CHOOSE f : f = [n \in 0 .. m |-> Body(f, n)]
            step == [n \in 1 .. m |-> [v \in Nat |-> v + sizes[n]]]
<1>1. m \in Nat /\ \A n \in 1 .. m : sizes[n] \in Nat
  OBVIOUS
<1>2. \A n \in 1 .. m : step[n] \in [Nat -> Nat] /\ \A v \in Nat : step[n][v] = v + sizes[n]
  BY <1>1
<1>3. step \in [1 .. m -> [Nat -> Nat]]
  BY <1>2
<1>4. PICK f \in [0 .. m -> Nat] : f[0] = 0 /\ \A n \in 1 .. m : f[n] = step[n][f[n - 1]]
  <2>1. PICK start : start = 0
    OBVIOUS
  <2>. HIDE DEF m, step
  <2>2. Steps(m, Nat, start, step)
    BY <1>1, <1>3, <2>1 DEF Steps
  <2>3. \E f : Follows(f, m, Nat, start, step)
    BY <2>2, StepByStep
  <2>. QED
    BY <2>1, <2>3 DEF Follows
<1>5. \A n \in 0 .. m : f[n] = Body(f, n)
  <2>. HIDE DEF step, m
  <2>1. \A n \in 1 .. m : n - 1 \in 0 .. m /\ n # 0
    BY <1>1
  <2>2. \A n \in 1 .. m : f[n] = f[n - 1] + sizes[n]
    BY <1>2, <1>4, <2>1
  <2>3. 0 .. m = {0} \cup 1 .. m
    BY <1>1
  <2>. QED
    BY <1>4, <2>1, <2>2, <2>3
<1>6. f = [n \in 0 .. m |-> Body(f, n)]
  <2>. HIDE DEF Body, m
  <2>. QED
    BY <1>5
<1>7. F = [n \in 0 .. m |-> Body(F, n)]
  BY <1>6, Zenon
<1>8. SumTo(sizes) = F
  BY Zenon DEF SumTo
<1>. HIDE DEF F, step
<1>9. F[0] = 0 /\ \A n \in 1 .. m : F[n] = F[n - 1] + sizes[n]
  <2>1. 0 \in 0 .. m /\ \A n \in 1 .. m : n # 0 /\ n \in 0 .. m
    BY <1>1
  <2>2. \A n \in 0 .. m : F[n] = Body(F, n)
    BY <1>7
  <2>. QED
    BY <2>1, <2>2
<1>. DEFINE S == {n \in 0 .. m : F[n] \in Nat}
<1>10. 0 \in S
  BY <1>1, <1>9
<1>11. ASSUME NEW n \in 0 .. m - 1, n \in S PROVE n + 1 \in S
  <2>1. n + 1 \in 1 .. m /\ n + 1 \in 0 .. m /\ (n + 1) - 1 = n /\ F[n] \in Nat
    BY <1>1, <1>11
  <2>2. F[n + 1] = F[n] + sizes[n + 1]
    BY <1>9, <2>1
  <2>. QED
    BY <1>1, <2>1, <2>2
<1>12. \A n \in 0 .. m : n \in S
  <2>. HIDE DEF S, m
  <2>. QED
    BY <1>1, <1>10, <1>11, UpTo
<1>13. F \in [0 .. m -> Nat]
  <2>. HIDE DEF m
  <2>. QED
    BY <1>7, <1>12
<1>. QED
  BY <1>8, <1>9, <1>13

Text == Seq(CharBytes)

\* What the first characters take in bytes grows by one character after the other.
LEMMA BytesToIs ==
  ASSUME NEW s \in Text
  PROVE  /\ BytesTo(s) \in [0 .. Len(s) -> Nat] /\ BytesTo(s)[0] = 0 /\ Len(s) \in Nat
         /\ \A n \in 1 .. Len(s) : s[n] \in Nat /\ BytesTo(s)[n] = BytesTo(s)[n - 1] + s[n]
<1>1. s \in Seq(Nat)
  <2>1. CharBytes \subseteq Nat
    BY TextAssumption
  <2>. QED
    BY <2>1, SeqMonotonic DEF Text
<1>. QED
  BY <1>1, SumToIs DEF BytesTo

\* The m characters of a text after the first i are those another text begins with.
Stretch(s, i, t, m) == i + m <= Len(s) /\ m <= Len(t) /\ \A n \in 1 .. m : s[i + n] = t[n]

\* The sum over a stretch of a text is that over the same characters elsewhere.
LEMMA StretchSums ==
  ASSUME NEW s \in Text, NEW t \in Text, NEW i \in Nat, NEW m \in Nat, Stretch(s, i, t, m)
  PROVE  \A n \in 0 .. m : BytesTo(s)[i + n] = BytesTo(s)[i] + BytesTo(t)[n]
<1>. USE DEF Stretch
<1>. DEFINE S == {n \in 0 .. m : BytesTo(s)[i + n] = BytesTo(s)[i] + BytesTo(t)[n]}
<1>1. i \in 0 .. Len(s) /\ BytesTo(s)[i] \in Nat /\ BytesTo(t)[0] = 0
  <2>1. i \in 0 .. Len(s)
    BY BytesToIs
  <2>. QED
    BY <2>1, BytesToIs
<1>2. 0 \in S
  <2>1. i + 0 = i
    OBVIOUS
  <2>. QED
    BY <1>1, <2>1
<1>3. ASSUME NEW n \in 0 .. m - 1, n \in S PROVE n + 1 \in S
  <2>1. PICK j, k : j = i + n /\ k = n + 1
    OBVIOUS
  <2>2. /\ j \in 0 .. Len(s) /\ j + 1 \in 1 .. Len(s) /\ (j + 1) - 1 = j /\ j + 1 = i + k
        /\ k \in 1 .. Len(t) /\ k - 1 = n /\ n \in 0 .. Len(t) /\ k \in 1 .. m /\ k \in 0 .. m
    BY <2>1, BytesToIs
  <2>3. BytesTo(s)[j] = BytesTo(s)[i] + BytesTo(t)[n]
    BY <1>3, <2>1
  <2>4. s[j + 1] = t[k]
    BY <2>2
  <2>5. BytesTo(s)[j + 1] = BytesTo(s)[j] + s[j + 1]
    BY <2>2, BytesToIs
  <2>6. BytesTo(t)[k] = BytesTo(t)[n] + t[k] /\ BytesTo(t)[n] \in Nat /\ t[k] \in Nat
    BY <2>2, BytesToIs
  <2>7. BytesTo(s)[i + k] = BytesTo(s)[i] + BytesTo(t)[k]
    <3>1. BytesTo(s)[i + k] = BytesTo(s)[j] + t[k]
      BY <2>2, <2>4, <2>5
    <3>2. PICK a, b, c : a = BytesTo(s)[i] /\ b = BytesTo(t)[n] /\ c = t[k]
      OBVIOUS
    <3>3. (a + b) + c = a + (b + c)
      BY <1>1, <2>6, <3>2
    <3>. QED
      BY <2>3, <2>6, <3>1, <3>2, <3>3
  <2>. QED
    BY <2>1, <2>2, <2>7
<1>. HIDE DEF S
<1>4. \A n \in 0 .. m : n \in S
  BY <1>2, <1>3, UpTo
<1>. QED
  BY <1>4 DEF S

\* Offsets grow with the characters.
LEMMA BytesGrow ==
  ASSUME NEW s \in Text, NEW i \in 0 .. Len(s), NEW j \in i .. Len(s)
  PROVE  BytesTo(s)[i] <= BytesTo(s)[j]
<1>. DEFINE S == {n \in 0 .. Len(s) - i : BytesTo(s)[i] <= BytesTo(s)[i + n]}
<1>1. Len(s) \in Nat /\ BytesTo(s)[i] \in Nat
  BY BytesToIs
<1>2. 0 \in S
  <2>1. i + 0 = i
    BY <1>1
  <2>. QED
    BY <1>1, <2>1
<1>3. ASSUME NEW n \in 0 .. (Len(s) - i) - 1, n \in S PROVE n + 1 \in S
  <2>1. PICK k : k = i + n
    OBVIOUS
  <2>2. k \in 0 .. Len(s) /\ k + 1 \in 1 .. Len(s) /\ (k + 1) - 1 = k /\ k + 1 = i + (n + 1) /\ n + 1 \in 0 .. Len(s) - i
    BY <1>1, <2>1
  <2>3. BytesTo(s)[k + 1] = BytesTo(s)[k] + s[k + 1] /\ s[k + 1] \in Nat /\ BytesTo(s)[k] \in Nat
    BY <2>2, BytesToIs
  <2>4. BytesTo(s)[i] <= BytesTo(s)[k]
    BY <1>3, <2>1
  <2>5. BytesTo(s)[i] <= BytesTo(s)[i + (n + 1)]
    BY <1>1, <2>2, <2>3, <2>4
  <2>. QED
    BY <2>2, <2>5
<1>4. \A n \in 0 .. Len(s) - i : n \in S
  <2>1. Len(s) - i \in Nat
    BY <1>1
  <2>. HIDE DEF S
  <2>. QED
    BY <1>2, <1>3, <2>1, UpTo
<1>5. j - i \in 0 .. Len(s) - i /\ i + (j - i) = j
  BY <1>1
<1>. QED
  BY <1>4, <1>5

\* A boundary is where some characters end, and none is past the end.
LEMMA BoundaryIs ==
  ASSUME NEW s \in Text
  PROVE  /\ \A b \in Boundaries(s) : /\ b \in Nat /\ b <= Bytes(s)
                                     /\ CharsBefore(s, b) \in 0 .. Len(s) /\ BytesTo(s)[CharsBefore(s, b)] = b
         /\ 0 \in Boundaries(s) /\ Bytes(s) \in Boundaries(s)
         /\ \A n \in 0 .. Len(s) : BytesTo(s)[n] \in Boundaries(s)
<1>1. Len(s) \in Nat /\ BytesTo(s)[0] = 0 /\ BytesTo(s) \in [0 .. Len(s) -> Nat]
  BY BytesToIs
<1>2. \A n \in 0 .. Len(s) : BytesTo(s)[n] \in Boundaries(s)
  BY DEF Boundaries
<1>3. 0 \in 0 .. Len(s) /\ Len(s) \in 0 .. Len(s)
  BY <1>1
<1>4. ASSUME NEW b \in Boundaries(s)
      PROVE  /\ b \in Nat /\ b <= Bytes(s)
             /\ CharsBefore(s, b) \in 0 .. Len(s) /\ BytesTo(s)[CharsBefore(s, b)] = b
  <2>1. PICK n \in 0 .. Len(s) : BytesTo(s)[n] = b
    BY DEF Boundaries
  <2>2. Len(s) \in n .. Len(s)
    BY <1>1
  <2>3. b \in Nat /\ b <= Bytes(s)
    BY <1>1, <2>1, <2>2, BytesGrow DEF Bytes
  <2>4. CharsBefore(s, b) \in 0 .. Len(s) /\ BytesTo(s)[CharsBefore(s, b)] = b
    BY <2>1 DEF CharsBefore
  <2>. QED
    BY <2>3, <2>4
<1>5. 0 \in Boundaries(s) /\ Bytes(s) \in Boundaries(s)
  BY <1>1, <1>2, <1>3 DEF Bytes
<1>. QED
  BY <1>2, <1>4, <1>5

\* What a text is cut into, after some characters, are texts.
LEMMA PrefixIs ==
  ASSUME NEW s \in Text, NEW k \in 0 .. Len(s)
  PROVE  /\ SubSeq(s, 1, k) \in Text /\ Len(SubSeq(s, 1, k)) = k
         /\ \A n \in 1 .. k : SubSeq(s, 1, k)[n] = s[n]
         /\ SubSeq(s, k + 1, Len(s)) \in Text
<1>1. Len(s) \in Nat /\ \A n \in 1 .. Len(s) : s[n] \in CharBytes
  BY DEF Text
<1>2. \A n \in 1 .. k : s[n] \in CharBytes
  BY <1>1
<1>3. \A n \in k + 1 .. Len(s) : s[n] \in CharBytes
  BY <1>1
<1>4. SubSeq(s, k + 1, Len(s)) \in Text
  <2>1. k + 1 \in Int /\ Len(s) \in Int
    BY <1>1
  <2>. QED
    BY <1>3, <2>1, SubSeqProperties DEF Text
<1>5. SubSeq(s, 1, k) \in Text /\ Len(SubSeq(s, 1, k)) = IF 1 <= k THEN k - 1 + 1 ELSE 0
  <2>1. 1 \in Int /\ k \in Int
    BY <1>1
  <2>. QED
    BY <1>2, <2>1, SubSeqProperties DEF Text
<1>6. ASSUME NEW n \in 1 .. k PROVE SubSeq(s, 1, k)[n] = s[n]
  <2>1. 1 \in Int /\ k \in Int /\ n \in 1 .. k - 1 + 1 /\ 1 + n - 1 = n
    BY <1>1
  <2>2. SubSeq(s, 1, k)[n] = s[1 + n - 1]
    BY <1>2, <2>1, SubSeqProperties
  <2>. QED
    BY <2>1, <2>2
<1>7. Len(SubSeq(s, 1, k)) = k
  BY <1>1, <1>5
<1>. QED
  BY <1>4, <1>5, <1>6, <1>7

\* Two texts one after the other.
LEMMA JoinedIs ==
  ASSUME NEW s \in Text, NEW t \in Text
  PROVE  /\ s \o t \in Text /\ Len(s \o t) = Len(s) + Len(t) /\ Len(s) \in Nat /\ Len(t) \in Nat
         /\ \A n \in 1 .. Len(s) + Len(t) : (s \o t)[n] = IF n <= Len(s) THEN s[n] ELSE t[n - Len(s)]
<1>1. s \in Seq(CharBytes) /\ t \in Seq(CharBytes)
  BY DEF Text
<1>. QED
  BY <1>1, ConcatProperties, LenProperties DEF Text

\* A new text between the characters before one boundary and those after another: the
\* first boundary is still one, and so is the end of what was put in.
LEMMA SplicedIs ==
  ASSUME field.content \in Text, NEW from \in Boundaries(field.content), NEW to \in Boundaries(field.content), NEW new \in Text
  PROVE  /\ Spliced(from, to, new) \in Text
         /\ from \in Boundaries(Spliced(from, to, new))
         /\ from + Bytes(new) \in Boundaries(Spliced(from, to, new))
         /\ from + Bytes(new) \in Nat
<1>1. PICK c, k, j : c = field.content /\ k = CharsBefore(c, from) /\ j = CharsBefore(c, to)
  OBVIOUS
<1>2. c \in Text /\ k \in 0 .. Len(c) /\ BytesTo(c)[k] = from /\ j \in 0 .. Len(c) /\ from \in Nat /\ Len(c) \in Nat
  BY <1>1, BoundaryIs, BytesToIs
<1>3. PICK p, q, r : p = SubSeq(c, 1, k) /\ q = SubSeq(c, j + 1, Len(c)) /\ r = p \o new \o q
  OBVIOUS
<1>4. p \in Text /\ q \in Text /\ Len(p) = k /\ \A n \in 1 .. k : p[n] = c[n]
  BY <1>2, <1>3, PrefixIs
<1>5. Spliced(from, to, new) = r
  BY <1>1, <1>3 DEF Spliced
<1>7. PICK u : u = p \o new
  OBVIOUS
<1>6. /\ u \in Text /\ Len(u) = k + Len(new) /\ Len(new) \in Nat /\ k \in Nat /\ Len(q) \in Nat
      /\ \A n \in 1 .. k + Len(new) : u[n] = IF n <= k THEN p[n] ELSE new[n - k]
  BY <1>2, <1>4, <1>7, JoinedIs
<1>8. /\ r \in Text /\ Len(r) = (k + Len(new)) + Len(q)
      /\ \A n \in 1 .. (k + Len(new)) + Len(q) : r[n] = IF n <= Len(u) THEN u[n] ELSE q[n - Len(u)]
  <2>1. r = u \o q
    BY <1>3, <1>7
  <2>2. /\ u \o q \in Text /\ Len(u \o q) = Len(u) + Len(q)
        /\ \A n \in 1 .. Len(u) + Len(q) : (u \o q)[n] = IF n <= Len(u) THEN u[n] ELSE q[n - Len(u)]
    BY <1>4, <1>6, JoinedIs
  <2>. QED
    BY <1>6, <2>1, <2>2
<1>9. ASSUME NEW n \in 1 .. k PROVE r[0 + n] = c[n]
  <2>1. n \in 1 .. (k + Len(new)) + Len(q) /\ n <= k + Len(new) /\ n \in 1 .. k + Len(new) /\ n <= k /\ 0 + n = n
    BY <1>2, <1>6
  <2>. QED
    BY <1>4, <1>6, <1>7, <1>8, <2>1
<1>10. ASSUME NEW n \in 1 .. Len(new) PROVE r[k + n] = new[n]
  <2>1. k + n \in 1 .. (k + Len(new)) + Len(q) /\ k + n <= k + Len(new) /\ k + n \in 1 .. k + Len(new) /\ ~(k + n <= k) /\ (k + n) - k = n
    BY <1>2, <1>6
  <2>. QED
    BY <1>4, <1>6, <1>7, <1>8, <2>1
<1>11. BytesTo(r)[k] = from
  <2>0. PICK zero \in Nat : zero = 0
    OBVIOUS
  <2>1. zero + k <= Len(r) /\ k <= Len(c) /\ k \in 0 .. k /\ zero + k = k
    BY <1>2, <1>6, <1>8, <2>0
  <2>4. \A n \in 1 .. k : r[zero + n] = c[n]
    BY <1>9, <2>0
  <2>2. \A n \in 0 .. k : BytesTo(r)[zero + n] = BytesTo(r)[zero] + BytesTo(c)[n]
    <3>1. r \in Text /\ c \in Text /\ zero \in Nat /\ k \in Nat /\ zero + k <= Len(r) /\ k <= Len(c)
      BY <1>2, <1>6, <1>8, <2>0, <2>1
    <3>2. Stretch(r, zero, c, k)
      BY <2>4, <3>1 DEF Stretch
    <3>. QED
      BY <3>1, <3>2, StretchSums
  <2>3. BytesTo(r)[zero] = 0
    BY <1>8, <2>0, BytesToIs
  <2>. QED
    BY <1>2, <2>1, <2>2, <2>3
<1>12. BytesTo(r)[k + Len(new)] = from + Bytes(new)
  <2>1. k + Len(new) <= Len(r) /\ Len(new) <= Len(new) /\ Len(new) \in 0 .. Len(new)
    BY <1>2, <1>6, <1>8
  <2>2. \A n \in 0 .. Len(new) : BytesTo(r)[k + n] = BytesTo(r)[k] + BytesTo(new)[n]
    <3>1. PICK m : m = Len(new)
      OBVIOUS
    <3>2. r \in Text /\ new \in Text /\ k \in Nat /\ m \in Nat /\ k + m <= Len(r) /\ m <= Len(new)
      BY <1>6, <1>8, <2>1, <3>1
    <3>3. \A n \in 1 .. m : r[k + n] = new[n]
      BY <1>10, <3>1
    <3>4. Stretch(r, k, new, m)
      BY <3>2, <3>3 DEF Stretch
    <3>5. \A n \in 0 .. m : BytesTo(r)[k + n] = BytesTo(r)[k] + BytesTo(new)[n]
      BY <3>2, <3>4, StretchSums
    <3>. QED
      BY <3>1, <3>5
  <2>3. BytesTo(r)[k + Len(new)] = BytesTo(r)[k] + BytesTo(new)[Len(new)]
    BY <2>1, <2>2
  <2>. QED
    BY <1>11, <2>3 DEF Bytes
<1>13. k \in 0 .. Len(r) /\ k + Len(new) \in 0 .. Len(r)
  BY <1>6, <1>8
<1>14. from \in Boundaries(r) /\ from + Bytes(new) \in Boundaries(r)
  <2>1. BytesTo(r)[k] \in Boundaries(r) /\ BytesTo(r)[k + Len(new)] \in Boundaries(r)
    BY <1>13 DEF Boundaries
  <2>. QED
    BY <1>11, <1>12, <2>1
<1>. QED
  BY <1>5, <1>8, <1>14, BoundaryIs

-----------------------------------------------------------------------------
(* TextInput: where the caret can go                                       *)

\* The boundaries next to an offset are boundaries of the text.
LEMMA NextToIs ==
  ASSUME field.content \in Text, NEW offset \in Nat
  PROVE  previous_boundary(offset) \in Boundaries(field.content) /\ next_boundary(offset) \in Boundaries(field.content)
<1>. DEFINE all == Boundaries(field.content)
            before == {b \in all : b < offset}
            after == {b \in all : b > offset}
<1>1. all \subseteq Nat /\ (\A b \in all : b <= Bytes(field.content)) /\ 0 \in all /\ Bytes(field.content) \in all /\ Bytes(field.content) \in Nat
  BY BoundaryIs
<1>2. previous_boundary(offset) \in all
  <2>1. CASE before = {}
    BY <1>1, <2>1 DEF previous_boundary
  <2>2. CASE before # {}
    <3>1. before \subseteq Nat /\ \A b \in before : b <= Bytes(field.content)
      BY <1>1
    <3>2. \E k \in before : \A j \in before : j <= k
      <4>. HIDE DEF before
      <4>. QED
        BY <1>1, <2>2, <3>1, HasGreatest
    <3>3. (CHOOSE b \in before : \A other \in before : other <= b) \in before
      <4>. HIDE DEF before
      <4>. QED
        BY <3>2
    <3>. QED
      BY <2>2, <3>3 DEF previous_boundary
  <2>. QED
    BY <2>1, <2>2
<1>3. next_boundary(offset) \in all
  <2>1. CASE after = {}
    BY <1>1, <2>1 DEF next_boundary
  <2>2. CASE after # {}
    <3>1. after \subseteq Nat
      BY <1>1
    <3>2. \E k \in after : \A j \in after : k <= j
      <4>. HIDE DEF after
      <4>. QED
        BY <2>2, <3>1, HasLeast
    <3>3. (CHOOSE b \in after : \A other \in after : b <= other) \in after
      <4>. HIDE DEF after
      <4>. QED
        BY <3>2
    <3>. QED
      BY <2>2, <3>3 DEF next_boundary
  <2>. QED
    BY <2>1, <2>2
<1>. QED
  BY <1>2, <1>3

\* What the first characters take in UTF-16 units is a number.
LEMMA UnitsToIs ==
  ASSUME NEW s \in Text
  PROVE  UnitsTo(s) \in [0 .. Len(s) -> Nat] /\ Units(s) \in Nat
<1>1. PICK sizes : sizes = [n \in 1 .. Len(s) |-> IF s[n] = 4 THEN 2 ELSE 1]
  OBVIOUS
<1>2. Len(s) \in Nat
  BY BytesToIs
<1>3. sizes \in Seq(Nat) /\ Len(sizes) = Len(s)
  BY <1>1, <1>2
<1>4. UnitsTo(s) \in [0 .. Len(s) -> Nat]
  BY <1>1, <1>3, SumToIs DEF UnitsTo
<1>5. Len(s) \in 0 .. Len(s)
  BY <1>2
<1>. QED
  BY <1>4, <1>5 DEF Units

\* An offset in UTF-16 units becomes one on a boundary, and a later one a later one.
LEMMA FromUtf16Is ==
  ASSUME NEW s \in Text
  PROVE  /\ \A u \in Nat : offset_from_utf16(s, u) \in Boundaries(s)
         /\ \A u, v \in Nat : u <= v => offset_from_utf16(s, u) <= offset_from_utf16(s, v)
<1>. DEFINE Enough(u) == {n \in 0 .. Len(s) : UnitsTo(s)[n] >= u}
            At(u) == IF Enough(u) = {} THEN Len(s) ELSE CHOOSE n \in Enough(u) : \A m \in Enough(u) : n <= m
<1>1. Len(s) \in Nat /\ UnitsTo(s) \in [0 .. Len(s) -> Nat]
  BY BytesToIs, UnitsToIs
<1>2. ASSUME NEW u \in Nat PROVE At(u) \in 0 .. Len(s) /\ \A m \in Enough(u) : At(u) <= m /\ At(u) \in Enough(u)
  <2>1. CASE Enough(u) = {}
    BY <1>1, <2>1
  <2>2. CASE Enough(u) # {}
    <3>1. Enough(u) \subseteq Nat /\ Enough(u) \subseteq 0 .. Len(s)
      OBVIOUS
    <3>2. \E k \in Enough(u) : \A j \in Enough(u) : k <= j
      <4>. HIDE DEF Enough
      <4>. QED
        BY <2>2, <3>1, HasLeast
    <3>3. At(u) \in Enough(u) /\ \A m \in Enough(u) : At(u) <= m
      <4>. HIDE DEF Enough
      <4>. QED
        BY <2>2, <3>2
    <3>. QED
      BY <3>1, <3>3
  <2>. QED
    BY <2>1, <2>2
<1>3. \A u \in Nat : offset_from_utf16(s, u) = BytesTo(s)[At(u)]
  BY DEF offset_from_utf16
<1>. HIDE DEF At
<1>4. ASSUME NEW u \in Nat, NEW v \in Nat, u <= v PROVE offset_from_utf16(s, u) <= offset_from_utf16(s, v)
  <2>1. At(u) <= At(v)
    <3>1. CASE Enough(v) = {}
      <4>1. At(v) = Len(s)
        BY <3>1 DEF At
      <4>. QED
        BY <1>1, <1>2, <4>1
    <3>2. CASE Enough(v) # {}
      <4>1. At(v) \in Enough(v)
        BY <1>2, <3>2
      <4>2. At(v) \in Enough(u)
        BY <1>1, <1>4, <4>1
      <4>. QED
        BY <1>2, <4>2
    <3>. QED
      BY <3>1, <3>2
  <2>2. At(u) \in 0 .. Len(s) /\ At(v) \in At(u) .. Len(s)
    BY <1>1, <1>2, <2>1
  <2>. QED
    BY <1>3, <2>2, BytesGrow
<1>5. ASSUME NEW u \in Nat PROVE offset_from_utf16(s, u) \in Boundaries(s)
  <2>1. At(u) \in 0 .. Len(s)
    BY <1>2
  <2>. QED
    BY <1>3, <2>1, BoundaryIs
<1>. QED
  BY <1>4, <1>5

-----------------------------------------------------------------------------
(* TextInput: FieldIsSound                                                 *)

Marks == {<<>>} \cup (Nat \X Nat)
Fields == [content : Text, start : Nat, end : Nat, reversed : BOOLEAN, marked : Marks,
           selecting : BOOLEAN, strayed : BOOLEAN, uncommitted : BOOLEAN]
Entries == {e \in [content : Text, cursor : Nat] : e.cursor \in Boundaries(e.content)}
Histories == {h \in [entries : Seq(Entries), index : Nat] : h.index \in 1 .. Len(h.entries)}

\* SelectionStaysInText, of any field.
InText(f) ==
  ~f.strayed =>
    /\ f.start \in Boundaries(f.content) /\ f.end \in Boundaries(f.content) /\ f.start <= f.end
    /\ f.marked # <<>> => f.marked[1] \in Boundaries(f.content) /\ f.marked[2] \in Boundaries(f.content)

\* What a step that only moves the selection leaves alone.
SameText(f, g) == f.content = g.content /\ f.marked = g.marked /\ f.uncommitted = g.uncommitted

\* The inductive invariant: besides the property, every entry of the history has its
\* cursor on a boundary of its own text, and what is painted is a text.
FieldInv == field \in Fields /\ InText(field) /\ history \in Histories /\ painted \in Text /\ HistoryHasText

\* It starts with an empty field and an empty text in the history.
LEMMA FieldInvInit == TextInit => FieldInv
<1>. SUFFICES ASSUME TextInit PROVE FieldInv
  OBVIOUS
<1>1. <<>> \in Text /\ 0 \in Boundaries(<<>>)
  <2>1. PICK s : s = <<>>
    OBVIOUS
  <2>2. s \in Text
    BY <2>1 DEF Text
  <2>3. 0 \in Boundaries(s)
    BY <2>2, BoundaryIs
  <2>. QED
    BY <2>1, <2>2, <2>3
<1>2. field \in Fields /\ InText(field) /\ painted \in Text
  BY <1>1 DEF TextInit, Fields, Marks, InText
<1>3. PICK e : e = [content |-> <<>>, cursor |-> 0]
  OBVIOUS
<1>4. e \in Entries /\ e.content = <<>>
  BY <1>1, <1>3 DEF Entries
<1>5. history = [entries |-> <<e>>, index |-> 1] /\ field.content = <<>>
  BY <1>3 DEF TextInit
<1>6. history \in Histories /\ history.entries[history.index] = e
  <2>1. PICK es, i : es = <<e>> /\ i = 1
    OBVIOUS
  <2>2. es \in Seq(Entries) /\ Len(es) = 1 /\ es[i] = e /\ i \in Nat /\ i \in 1 .. Len(es)
    BY <1>4, <2>1
  <2>3. history = [entries |-> es, index |-> i]
    BY <1>5, <2>1
  <2>. QED
    BY <2>2, <2>3 DEF Histories
<1>. QED
  BY <1>2, <1>4, <1>5, <1>6 DEF FieldInv, HistoryHasText

\* UndoHistory::push keeps the history sound and ends on the text pushed.
LEMMA PushedIs ==
  ASSUME NEW h \in Histories, NEW content \in Text, NEW cursor \in Boundaries(content)
  PROVE  LET g == Pushed(h, content, cursor) IN g \in Histories /\ g.entries[g.index].content = content
<1>. DEFINE g == Pushed(h, content, cursor)
<1>1. PICK e : e = [content |-> content, cursor |-> cursor]
  OBVIOUS
<1>2. e \in Entries /\ e.content = content
  BY <1>1, BoundaryIs DEF Entries
<1>3. h.entries \in Seq(Entries) /\ h.index \in 1 .. Len(h.entries) /\ Len(h.entries) \in Nat
  BY DEF Histories
<1>4. CASE h.entries[h.index].content = content
  BY <1>4 DEF Pushed
<1>5. CASE h.entries[h.index].content # content
  <2>1. PICK before : before = SubSeq(h.entries, 1, h.index)
    OBVIOUS
  <2>2. before \in Seq(Entries) /\ Len(before) = h.index
    <3>1. 1 \in Int /\ h.index \in Int /\ \A n \in 1 .. h.index : h.entries[n] \in Entries
      BY <1>3
    <3>2. before \in Seq(Entries) /\ Len(before) = IF 1 <= h.index THEN h.index - 1 + 1 ELSE 0
      BY <2>1, <3>1, SubSeqProperties
    <3>. QED
      BY <1>3, <3>2
  <2>3. PICK longer : longer = Append(before, e)
    OBVIOUS
  <2>4. longer \in Seq(Entries) /\ Len(longer) = h.index + 1 /\ longer[Len(longer)] = e
    BY <1>2, <1>3, <2>2, <2>3
  <2>5. PICK kept : kept = IF Len(longer) > HistoryCap THEN Tail(longer) ELSE longer
    OBVIOUS
  <2>6. kept \in Seq(Entries) /\ Len(kept) \in Nat \ {0} /\ kept[Len(kept)] = e
    <3>1. CASE Len(longer) > HistoryCap
      <4>1. HistoryCap >= 2
        BY TextAssumption
      <4>2. kept = Tail(longer) /\ Len(longer) > 2
        BY <1>3, <2>4, <2>5, <3>1, <4>1, TextAssumption
      <4>3. kept \in Seq(Entries) /\ Len(kept) = Len(longer) - 1 /\ \A n \in 1 .. Len(kept) : kept[n] = longer[n + 1]
        BY <2>4, <4>2
      <4>4. Len(kept) \in 1 .. Len(kept) /\ Len(kept) + 1 = Len(longer)
        BY <1>3, <2>4, <4>2, <4>3
      <4>. QED
        BY <2>4, <4>3, <4>4
    <3>2. CASE ~(Len(longer) > HistoryCap)
      BY <1>3, <2>4, <2>5, <3>2
    <3>. QED
      BY <3>1, <3>2
  <2>7. g = [entries |-> kept, index |-> Len(kept)]
    BY <1>1, <1>5, <2>1, <2>3, <2>5 DEF Pushed
  <2>. QED
    BY <1>2, <2>6, <2>7 DEF Histories
<1>. QED
  BY <1>4, <1>5

\* TextInput::select_to moves the end that has the caret, and keeps the ends in order.
LEMMA SelectedToIs ==
  ASSUME NEW f \in Fields, NEW offset \in Nat
  PROVE  LET g == SelectedTo(f, offset) IN
         /\ g \in Fields /\ SameText(f, g) /\ g.strayed = f.strayed /\ g.selecting = f.selecting
         /\ g.start <= g.end /\ {g.start, g.end} \subseteq {f.start, f.end, offset}
<1>1. PICK start, end : /\ start = (IF f.reversed THEN offset ELSE f.start)
                        /\ end = (IF f.reversed THEN f.end ELSE offset)
  OBVIOUS
<1>2. start \in Nat /\ end \in Nat /\ {start, end} \subseteq {f.start, f.end, offset}
  BY <1>1 DEF Fields
<1>3. CASE end < start
  <2>1. SelectedTo(f, offset) = [f EXCEPT !.reversed = ~@, !.start = end, !.end = start]
    BY <1>1, <1>3 DEF SelectedTo
  <2>2. PICK g : g = SelectedTo(f, offset)
    OBVIOUS
  <2>3. g.start = end /\ g.end = start /\ g.strayed = f.strayed /\ g.selecting = f.selecting /\ SameText(f, g)
    BY <2>1, <2>2 DEF Fields, SameText
  <2>4. g \in Fields
    BY <1>2, <2>1, <2>2 DEF Fields
  <2>. QED
    BY <1>2, <1>3, <2>2, <2>3, <2>4
<1>4. CASE ~(end < start)
  <2>1. SelectedTo(f, offset) = [f EXCEPT !.start = start, !.end = end]
    BY <1>1, <1>4 DEF SelectedTo
  <2>2. PICK g : g = SelectedTo(f, offset)
    OBVIOUS
  <2>3. g.start = start /\ g.end = end /\ g.strayed = f.strayed /\ g.selecting = f.selecting /\ SameText(f, g)
    BY <2>1, <2>2 DEF Fields, SameText
  <2>4. g \in Fields
    BY <1>2, <2>1, <2>2 DEF Fields
  <2>. QED
    BY <1>2, <1>4, <2>2, <2>3, <2>4
<1>. QED
  BY <1>3, <1>4

\* Extending a selection to a boundary keeps it in the text.
LEMMA SelectingStays ==
  ASSUME NEW f \in Fields, InText(f), NEW offset \in Nat, f.strayed \/ offset \in Boundaries(f.content)
  PROVE  LET g == SelectedTo(f, offset) IN g \in Fields /\ InText(g) /\ SameText(f, g) /\ g.strayed = f.strayed
<1>1. PICK g : g = SelectedTo(f, offset)
  OBVIOUS
<1>2. /\ g \in Fields /\ SameText(f, g) /\ g.strayed = f.strayed
      /\ g.start <= g.end /\ {g.start, g.end} \subseteq {f.start, f.end, offset}
  BY <1>1, SelectedToIs
<1>3. InText(g)
  BY <1>2 DEF InText, SameText
<1>. QED
  BY <1>1, <1>2, <1>3

\* Moving the caret to a boundary brings a selection back, unless a mark strayed.
LEMMA MovingReturns ==
  ASSUME NEW f \in Fields, InText(f), NEW b \in Boundaries(f.content)
  PROVE  LET g == MovedOnto(f, b) IN
         /\ g \in Fields /\ InText(g) /\ SameText(f, g) /\ g.start = b /\ g.end = b
         /\ g.strayed = (f.strayed /\ f.marked # <<>>)
<1>1. f.content \in Text
  BY DEF Fields
<1>2. b \in Nat
  BY <1>1, BoundaryIs
<1>3. PICK g : g = MovedOnto(f, b)
  OBVIOUS
<1>4. /\ g \in Fields /\ SameText(f, g) /\ g.start = b /\ g.end = b
      /\ g.strayed = (f.strayed /\ f.marked # <<>>)
  BY <1>2, <1>3 DEF MovedOnto, MovedTo, Fields, SameText
<1>5. InText(g)
  <2>1. SUFFICES ASSUME ~g.strayed
                 PROVE  /\ g.start \in Boundaries(g.content) /\ g.end \in Boundaries(g.content) /\ g.start <= g.end
                        /\ g.marked # <<>> => g.marked[1] \in Boundaries(g.content) /\ g.marked[2] \in Boundaries(g.content)
    BY DEF InText
  <2>2. ~f.strayed \/ f.marked = <<>>
    BY <1>4, <2>1
  <2>3. g.marked # <<>> => g.marked[1] \in Boundaries(g.content) /\ g.marked[2] \in Boundaries(g.content)
    BY <1>4, <2>2 DEF InText, SameText
  <2>. QED
    BY <1>2, <1>4, <2>3 DEF SameText
<1>. QED
  BY <1>3, <1>4, <1>5

\* Select All.
LEMMA AllSelected ==
  ASSUME NEW f \in Fields, InText(f)
  PROVE  LET g == SelectedTo(MovedOnto(f, 0), Bytes(f.content)) IN g \in Fields /\ InText(g) /\ SameText(f, g)
<1>1. f.content \in Text
  BY DEF Fields
<1>2. PICK b, all : b = 0 /\ all = Bytes(f.content)
  OBVIOUS
<1>3. b \in Boundaries(f.content) /\ all \in Boundaries(f.content) /\ all \in Nat
  BY <1>1, <1>2, BoundaryIs
<1>4. PICK u : u = MovedOnto(f, b)
  OBVIOUS
<1>5. u \in Fields /\ InText(u) /\ SameText(f, u)
  BY <1>3, <1>4, MovingReturns
<1>6. all \in Boundaries(u.content)
  BY <1>3, <1>5 DEF SameText
<1>7. PICK g : g = SelectedTo(u, all)
  OBVIOUS
<1>8. g \in Fields /\ InText(g) /\ SameText(u, g)
  BY <1>3, <1>5, <1>6, <1>7, SelectingStays
<1>. QED
  BY <1>2, <1>4, <1>5, <1>7, <1>8 DEF SameText

\* A step that only moves the selection keeps the invariant if the selection stays in
\* the text.
LEMMA MovesKeep ==
  ASSUME FieldInv, field' \in Fields, InText(field'), SameText(field, field'), UNCHANGED <<history, painted>>
  PROVE  FieldInv'
BY DEF FieldInv, InText, SameText, HistoryHasText, Boundaries, BytesTo, SumTo

\* An offset past the end is the end, and a boundary stays where it is.
LEMMA ClampedIs ==
  ASSUME field.content \in Text
  PROVE  /\ \A offset \in Nat : Clamped(offset) \in Nat
         /\ \A b \in Boundaries(field.content) : Clamped(b) = b
BY BoundaryIs DEF Clamped

\* The caret is at an end of the selection.
LEMMA CaretIs ==
  ASSUME field \in Fields
  PROVE  /\ field.content \in Text /\ field.start \in Nat /\ field.end \in Nat /\ field.marked \in Marks
         /\ cursor_offset \in Nat /\ cursor_offset \in {field.start, field.end}
BY DEF Fields, cursor_offset

\* An edit leaves an empty selection at the end of what it put in, and commits it.
LEMMA ReplaceKeeps ==
  ASSUME FieldInv, NEW f \in Fields, NEW range, range[1] \in Nat, range[2] \in Nat, NEW new \in Text,
         ReplaceIn(f, range, new)
  PROVE  FieldInv'
<1>1. PICK from, to : from = Clamped(range[1]) /\ to = Clamped(range[2])
  OBVIOUS
<1>2. field.content \in Text /\ from \in Boundaries(field.content) /\ to \in Boundaries(field.content) /\ painted \in Text
  BY <1>1 DEF FieldInv, Fields, ReplaceIn, Sliceable
<1>3. PICK content, caret : content = Spliced(from, to, new) /\ caret = from + Bytes(new)
  OBVIOUS
<1>4. content \in Text /\ caret \in Boundaries(content) /\ caret \in Nat
  BY <1>2, <1>3, SplicedIs
<1>5. PICK h : h = history /\ h \in Histories
  BY DEF FieldInv
<1>6. PICK k : k = Pushed(h, content, caret)
  OBVIOUS
<1>7. k \in Histories /\ k.entries[k.index].content = content
  BY <1>4, <1>5, <1>6, PushedIs
<1>8. history' = k /\ painted' = painted
  BY <1>1, <1>3, <1>5, <1>6 DEF ReplaceIn
<1>9. field' = [f EXCEPT !.content = content, !.start = caret, !.end = caret, !.marked = <<>>,
                         !.strayed = FALSE, !.uncommitted = FALSE]
  BY <1>1, <1>3 DEF ReplaceIn
<1>10. /\ field'.content = content /\ field'.start = caret /\ field'.end = caret /\ field'.marked = <<>>
  BY <1>9 DEF Fields
<1>11. field' \in Fields
  BY <1>4, <1>9 DEF Fields, Marks
<1>12. InText(field')
  BY <1>4, <1>10 DEF InText
<1>. QED
  BY <1>2, <1>7, <1>8, <1>10, <1>11, <1>12 DEF FieldInv, HistoryHasText

\* The range an edit replaces has numbers for ends; boundaries, if nothing strayed.
LEMMA RangeIs ==
  ASSUME FieldInv, NEW range16 \in RangesUtf16
  PROVE  LET range == RangeFor(range16) IN
         /\ range[1] \in Nat /\ range[2] \in Nat
         /\ ~field.strayed => range[1] \in Boundaries(field.content) /\ range[2] \in Boundaries(field.content)
<1>1. field \in Fields /\ field.content \in Text /\ InText(field)
  BY CaretIs DEF FieldInv
<1>2. \A b \in Boundaries(field.content) : b \in Nat
  BY <1>1, BoundaryIs
<1>3. CASE range16 # NoRange
  <2>1. PICK u \in 0 .. Units(field.content) - 1 : range16 = <<u, u + 1>>
    BY <1>3 DEF RangesUtf16, NoRange
  <2>2. u \in Nat /\ u + 1 \in Nat
    BY <1>1, UnitsToIs
  <2>3. PICK v : v = u + 1
    OBVIOUS
  <2>4. offset_from_utf16(field.content, u) \in Boundaries(field.content) /\ offset_from_utf16(field.content, v) \in Boundaries(field.content)
    BY <1>1, <2>2, <2>3, FromUtf16Is
  <2>5. RangeFor(range16) = <<offset_from_utf16(field.content, u), offset_from_utf16(field.content, v)>>
    BY <1>3, <2>1, <2>3 DEF RangeFor
  <2>. QED
    BY <1>2, <2>4, <2>5
<1>4. CASE range16 = NoRange /\ field.marked # <<>>
  <2>1. RangeFor(range16) = field.marked /\ field.marked \in Nat \X Nat
    BY <1>1, <1>4 DEF RangeFor, Fields, Marks
  <2>. QED
    BY <1>1, <1>4, <2>1 DEF InText
<1>5. CASE range16 = NoRange /\ field.marked = <<>>
  <2>1. RangeFor(range16) = <<field.start, field.end>>
    BY <1>5 DEF RangeFor
  <2>. QED
    BY <1>1, <2>1, CaretIs DEF InText
<1>. QED
  BY <1>3, <1>4, <1>5

\* What is typed or pasted replaces a slice on boundaries, and is the history's latest.
LEMMA TypingKeeps ==
  ASSUME FieldInv, NEW range16 \in RangesUtf16, NEW new \in Text, replace_text_in_range(range16, new)
  PROVE  FieldInv'
<1>1. PICK range : range = RangeFor(range16)
  OBVIOUS
<1>2. range[1] \in Nat /\ range[2] \in Nat
  BY <1>1, RangeIs
<1>3. field \in Fields /\ ReplaceIn(field, range, new)
  BY <1>1 DEF FieldInv, replace_text_in_range
<1>. QED
  BY <1>2, <1>3, ReplaceKeeps

\* A deletion up to a boundary is an empty text typed over what lies between.
LEMMA DeletesKeep ==
  ASSUME FieldInv, NEW boundary \in Nat, Deletes(boundary)
  PROVE  FieldInv'
<1>1. PICK f : f = IF field.start = field.end THEN SelectedTo(field, boundary) ELSE field
  OBVIOUS
<1>2. f \in Fields
  BY <1>1, SelectedToIs DEF FieldInv
<1>3. PICK range, new : range = (IF field.marked # <<>> THEN field.marked ELSE <<f.start, f.end>>) /\ new = <<>>
  OBVIOUS
<1>4. range[1] \in Nat /\ range[2] \in Nat
  <2>1. field.marked = <<>> \/ field.marked \in Nat \X Nat
    BY DEF FieldInv, Fields, Marks
  <2>2. f.start \in Nat /\ f.end \in Nat
    BY <1>2 DEF Fields
  <2>. QED
    BY <1>3, <2>1, <2>2
<1>5. new \in Text
  BY <1>3 DEF Text
<1>6. ReplaceIn(f, range, new)
  BY <1>1, <1>3 DEF Deletes
<1>. QED
  BY <1>2, <1>4, <1>5, <1>6, ReplaceKeeps

\* Backspace and Delete delete up to the boundary before or after the caret.
LEMMA BackspaceKeeps ==
  ASSUME FieldInv, Backspace \/ Delete
  PROVE  FieldInv'
<1>1. PICK b, a : b = previous_boundary(cursor_offset) /\ a = next_boundary(cursor_offset)
  OBVIOUS
<1>2. b \in Nat /\ a \in Nat
  <2>1. field.content \in Text /\ cursor_offset \in Nat
    BY CaretIs DEF FieldInv
  <2>. QED
    BY <1>1, <2>1, NextToIs, BoundaryIs
<1>3. Deletes(b) \/ Deletes(a)
  BY <1>1 DEF Backspace, Delete
<1>. QED
  BY <1>2, <1>3, DeletesKeep

\* A composition marks what it put in, and its selection is on boundaries of the new
\* text unless the input method placed it in a text that does not start at the beginning.
LEMMA ComposingKeeps ==
  ASSUME FieldInv, ~field.strayed, NEW range16 \in RangesUtf16, NEW new \in Text,
         NEW selected16 \in {NoRange, <<0, Units(new)>>, <<Units(new), Units(new)>>},
         replace_and_mark_text_in_range(range16, new, selected16)
  PROVE  FieldInv'
<1>1. PICK range : range = RangeFor(range16)
  OBVIOUS
<1>2. field \in Fields /\ field.content \in Text /\ InText(field) /\ history \in Histories /\ painted \in Text
  BY CaretIs DEF FieldInv
<1>3. PICK from, to : from = range[1] /\ to = range[2]
  OBVIOUS
<1>4. from \in Boundaries(field.content) /\ to \in Boundaries(field.content) /\ from \in Nat /\ to \in Nat
  BY <1>1, <1>3, RangeIs
<1>5. Clamped(from) = from /\ Clamped(to) = to
  BY <1>2, <1>4, ClampedIs
<1>6. PICK content, caret : content = Spliced(from, to, new) /\ caret = from + Bytes(new)
  OBVIOUS
<1>7. content \in Text /\ caret \in Boundaries(content) /\ caret \in Nat /\ from \in Boundaries(content)
  BY <1>2, <1>4, <1>6, SplicedIs
<1>8. PICK start, end, marked, strayed, uncommitted :
        /\ marked = (IF new = <<>> THEN <<>> ELSE <<from, caret>>)
        /\ start = (IF selected16 = NoRange THEN caret ELSE offset_from_utf16(content, selected16[1]) + from)
        /\ end = (IF selected16 = NoRange THEN caret ELSE offset_from_utf16(content, selected16[2]) + to)
        /\ strayed = (field.strayed \/ (selected16 # NoRange /\ range # <<0, 0>>))
        /\ uncommitted = (new = <<>>)
  OBVIOUS
<1>9. /\ field' = [field EXCEPT !.content = content, !.marked = marked, !.start = start, !.end = end,
                                !.strayed = strayed, !.uncommitted = uncommitted]
      /\ UNCHANGED <<history, painted>>
  BY <1>1, <1>3, <1>5, <1>6, <1>8 DEF replace_and_mark_text_in_range
<1>10. ASSUME selected16 # NoRange
       PROVE  /\ offset_from_utf16(content, selected16[1]) \in Boundaries(content)
              /\ offset_from_utf16(content, selected16[2]) \in Boundaries(content)
              /\ offset_from_utf16(content, selected16[1]) <= offset_from_utf16(content, selected16[2])
  <2>1. PICK u, v : u = selected16[1] /\ v = selected16[2]
    OBVIOUS
  <2>2. u \in Nat /\ v \in Nat /\ u <= v
    BY <1>10, <2>1, UnitsToIs
  <2>. QED
    BY <1>7, <2>1, <2>2, FromUtf16Is
<1>11. start \in Nat /\ end \in Nat
  <2>1. CASE selected16 = NoRange
    BY <1>7, <1>8, <2>1
  <2>2. CASE selected16 # NoRange
    <3>1. PICK a, b : a = offset_from_utf16(content, selected16[1]) /\ b = offset_from_utf16(content, selected16[2])
      OBVIOUS
    <3>2. a \in Nat /\ b \in Nat
      BY <1>7, <1>10, <2>2, <3>1, BoundaryIs
    <3>3. start = a + from /\ end = b + to
      BY <1>8, <2>2, <3>1
    <3>. QED
      BY <1>4, <3>2, <3>3
  <2>. QED
    BY <2>1, <2>2
<1>12. /\ marked \in Marks /\ strayed \in BOOLEAN /\ uncommitted \in BOOLEAN
       /\ marked # <<>> => marked[1] \in Boundaries(content) /\ marked[2] \in Boundaries(content)
  BY <1>4, <1>7, <1>8 DEF Marks
<1>13. /\ field'.content = content /\ field'.marked = marked /\ field'.start = start /\ field'.end = end
       /\ field'.strayed = strayed /\ field'.uncommitted = uncommitted
  BY <1>2, <1>9 DEF Fields
<1>14. field' \in Fields
  BY <1>2, <1>7, <1>9, <1>11, <1>12 DEF Fields
<1>15. ASSUME ~strayed PROVE start \in Boundaries(content) /\ end \in Boundaries(content) /\ start <= end
  <2>1. CASE selected16 = NoRange
    BY <1>7, <1>8, <2>1
  <2>2. CASE selected16 # NoRange
    <3>1. range = <<0, 0>>
      BY <1>8, <1>15, <2>2
    <3>2. from = 0 /\ to = 0
      BY <1>3, <3>1
    <3>3. PICK a, b : a = offset_from_utf16(content, selected16[1]) /\ b = offset_from_utf16(content, selected16[2])
      OBVIOUS
    <3>4. a \in Boundaries(content) /\ b \in Boundaries(content) /\ a <= b /\ a \in Nat /\ b \in Nat
      BY <1>7, <1>10, <2>2, <3>3, BoundaryIs
    <3>5. start = a /\ end = b
      BY <1>8, <2>2, <3>2, <3>3, <3>4
    <3>. QED
      BY <3>4, <3>5
  <2>. QED
    BY <2>1, <2>2
<1>16. InText(field')
  BY <1>12, <1>13, <1>15 DEF InText
<1>17. HistoryHasText'
  <2>1. CASE new = <<>>
    <3>1. field'.uncommitted
      BY <1>8, <1>13, <2>1
    <3>. QED
      BY <3>1 DEF HistoryHasText
  <2>2. CASE new # <<>>
    <3>1. marked = <<from, caret>>
      BY <1>8, <2>2
    <3>2. field'.marked # <<>>
      BY <1>13, <3>1
    <3>. QED
      BY <3>2 DEF HistoryHasText
  <2>. QED
    BY <2>1, <2>2
<1>. QED
  BY <1>2, <1>9, <1>14, <1>16, <1>17 DEF FieldInv

\* The end of a composition leaves the text, uncommitted.
LEMMA UnmarkKeeps ==
  ASSUME FieldInv, unmark_text
  PROVE  FieldInv'
<1>1. /\ field' = [field EXCEPT !.marked = <<>>, !.uncommitted = TRUE] /\ field \in Fields
      /\ UNCHANGED <<history, painted>>
  BY DEF unmark_text, FieldInv
<1>2. /\ field'.content = field.content /\ field'.start = field.start /\ field'.end = field.end
      /\ field'.marked = <<>> /\ field'.strayed = field.strayed /\ field'.uncommitted = TRUE
  BY <1>1 DEF Fields
<1>3. field' \in Fields
  BY <1>1 DEF Fields, Marks
<1>4. InText(field')
  BY <1>2 DEF FieldInv, InText
<1>. QED
  BY <1>1, <1>2, <1>3, <1>4 DEF FieldInv, HistoryHasText

\* Undo, redo and set_value show an entry whose cursor is on a boundary of its text.
LEMMA ShowsKeeps ==
  ASSUME FieldInv, NEW e \in Entries, field' = Shows(field, e), UNCHANGED painted,
         history' \in Histories, history'.entries[history'.index].content = e.content
  PROVE  FieldInv'
<1>1. field \in Fields /\ e.content \in Text /\ e.cursor \in Nat /\ e.cursor \in Boundaries(e.content)
  BY DEF FieldInv, Entries
<1>2. PICK strayed : strayed = (field.marked # <<>>)
  OBVIOUS
<1>3. field' = [field EXCEPT !.content = e.content, !.start = e.cursor, !.end = e.cursor,
                             !.strayed = strayed, !.uncommitted = FALSE]
  BY <1>2 DEF Shows
<1>4. /\ field'.content = e.content /\ field'.start = e.cursor /\ field'.end = e.cursor
      /\ field'.strayed = strayed /\ field'.marked = field.marked
  BY <1>1, <1>3 DEF Fields
<1>5. field' \in Fields
  BY <1>1, <1>2, <1>3 DEF Fields
<1>6. InText(field')
  <2>1. CASE field.marked # <<>>
    <3>1. field'.strayed
      BY <1>2, <1>4, <2>1
    <3>. QED
      BY <3>1 DEF InText
  <2>2. CASE field.marked = <<>>
    BY <1>1, <1>4, <2>2 DEF InText
  <2>. QED
    BY <2>1, <2>2
<1>. QED
  BY <1>4, <1>5, <1>6 DEF FieldInv, HistoryHasText

\* Undo and Redo put the caret where the entry has it, on a boundary of the entry's text.
LEMMA UndoKeeps ==
  ASSUME FieldInv, Undo \/ Redo
  PROVE  FieldInv'
<1>1. PICK h : h = history
  OBVIOUS
<1>2. h \in Histories /\ h.entries \in Seq(Entries) /\ h.index \in 1 .. Len(h.entries) /\ Len(h.entries) \in Nat
  BY <1>1 DEF FieldInv, Histories
<1>3. PICK i : /\ i \in 1 .. Len(h.entries) /\ history' = [h EXCEPT !.index = i]
               /\ field' = Shows(field, h.entries[i]) /\ UNCHANGED painted
  <2>1. CASE Undo
    <3>1. h.index - 1 \in 1 .. Len(h.entries)
      BY <1>1, <1>2, <2>1 DEF Undo
    <3>. QED
      BY <1>1, <2>1, <3>1 DEF Undo
  <2>2. CASE Redo
    <3>1. h.index + 1 \in 1 .. Len(h.entries)
      BY <1>1, <1>2, <2>2 DEF Redo
    <3>. QED
      BY <1>1, <2>2, <3>1 DEF Redo
  <2>. QED
    BY <2>1, <2>2
<1>4. PICK e \in Entries : e = h.entries[i]
  BY <1>2, <1>3
<1>5. i \in Nat
  BY <1>2, <1>3
<1>6. history' \in Histories /\ history'.entries[history'.index] = e
  BY <1>2, <1>3, <1>4, <1>5 DEF Histories
<1>. QED
  BY <1>3, <1>4, <1>6, ShowsKeeps

\* A value that is set is the history's latest, with the caret at its end.
LEMMA SetValueKeeps ==
  ASSUME FieldInv, NEW text \in Text, SetValue(text)
  PROVE  FieldInv'
<1>1. PICK e, all : e = [content |-> text, cursor |-> all] /\ all = Bytes(text)
  OBVIOUS
<1>2. all \in Boundaries(text) /\ all \in Nat
  BY <1>1, BoundaryIs
<1>3. e \in Entries /\ e.content = text
  BY <1>1, <1>2 DEF Entries
<1>4. PICK h, k : h = history /\ k = Pushed(h, text, all)
  OBVIOUS
<1>5. h \in Histories
  BY <1>4 DEF FieldInv
<1>6. k \in Histories /\ k.entries[k.index].content = text
  BY <1>2, <1>4, <1>5, PushedIs
<1>7. field' = Shows(field, e) /\ history' = k /\ UNCHANGED painted
  BY <1>1, <1>4 DEF SetValue
<1>. QED
  BY <1>3, <1>6, <1>7, ShowsKeeps

\* The arrow keys, Home, End and Select All move onto boundaries of the text.
LEMMA ArrowsKeep ==
  ASSUME FieldInv, Moves
  PROVE  FieldInv'
<1>1. field \in Fields /\ InText(field) /\ UNCHANGED <<history, painted>>
  BY DEF FieldInv, Moves
<1>2. field.content \in Text /\ field.start \in Nat /\ field.end \in Nat /\ cursor_offset \in Nat
  BY <1>1, CaretIs
<1>3. CASE \E edge \in {field.start, field.end} : field' = MovedTo(field, edge)
  <2>1. PICK edge \in {field.start, field.end} : field' = MovedTo(field, edge)
    BY <1>3
  <2>2. /\ field'.start = edge /\ field'.end = edge /\ field'.strayed = field.strayed /\ SameText(field, field')
        /\ field' \in Fields
    BY <1>1, <1>2, <2>1 DEF MovedTo, Fields, SameText
  <2>3. InText(field')
    BY <1>1, <1>2, <2>2 DEF InText, SameText
  <2>. QED
    BY <1>1, <2>2, <2>3, MovesKeep
<1>4. CASE \E b \in Boundaries(field.content) : field' = MovedOnto(field, b)
  BY <1>1, <1>4, MovingReturns, MovesKeep
<1>5. CASE field' = SelectedTo(MovedOnto(field, 0), Bytes(field.content))
  BY <1>1, <1>5, AllSelected, MovesKeep
<1>6. /\ previous_boundary(cursor_offset) \in Boundaries(field.content) /\ next_boundary(field.end) \in Boundaries(field.content)
      /\ 0 \in Boundaries(field.content) /\ Bytes(field.content) \in Boundaries(field.content)
  BY <1>2, NextToIs, BoundaryIs
<1>. QED
  BY <1>3, <1>4, <1>5, <1>6 DEF Moves

\* Shift with an arrow key extends the selection to a boundary of the text.
LEMMA ExtendsKeeps ==
  ASSUME FieldInv, Extends
  PROVE  FieldInv'
<1>1. field \in Fields /\ InText(field) /\ UNCHANGED <<history, painted>> /\ field.content \in Text /\ cursor_offset \in Nat
  BY CaretIs DEF FieldInv, Extends
<1>2. PICK b \in Boundaries(field.content) : field' = SelectedTo(field, b)
  BY <1>1, NextToIs DEF Extends
<1>3. b \in Nat
  BY <1>1, BoundaryIs
<1>. QED
  BY <1>1, <1>2, <1>3, SelectingStays, MovesKeep

\* The mouse points to a boundary of the text if that is the text painted.
LEMMA PointsIs ==
  ASSUME FieldInv, NEW index \in index_for_mouse_position
  PROVE  index \in Nat /\ (painted = field.content => index \in Boundaries(field.content))
<1>1. field.content \in Text /\ painted \in Text
  BY CaretIs DEF FieldInv
<1>2. 0 \in Boundaries(field.content) /\ Bytes(field.content) \in Boundaries(field.content)
  BY <1>1, BoundaryIs
<1>3. (\A b \in Boundaries(field.content) : b \in Nat) /\ (\A b \in Boundaries(painted) : b \in Nat)
  BY <1>1, BoundaryIs
<1>4. index = 0 \/ index = Bytes(field.content) \/ index \in Boundaries(painted)
  BY DEF index_for_mouse_position
<1>. QED
  BY <1>2, <1>3, <1>4

\* A selection made with the mouse is in the text, or known to have strayed.
LEMMA PointedIs ==
  ASSUME FieldInv, ~field.strayed, NEW f \in Fields, SameText(field, f), ~f.strayed,
         painted = field.content => InText(f)
  PROVE  Pointed(f) \in Fields /\ InText(Pointed(f)) /\ SameText(field, Pointed(f))
<1>1. PICK strayed : strayed = (f.strayed \/ painted # field.content)
  OBVIOUS
<1>2. PICK g : g = [f EXCEPT !.strayed = strayed]
  OBVIOUS
<1>3. Pointed(f) = g
  BY <1>1, <1>2 DEF Pointed
<1>4. /\ g.strayed = strayed /\ g.content = f.content /\ g.start = f.start /\ g.end = f.end /\ g.marked = f.marked
      /\ g.uncommitted = f.uncommitted
  BY <1>2 DEF Fields
<1>5. strayed \in BOOLEAN
  BY <1>1
<1>6. g \in Fields
  BY <1>2, <1>5 DEF Fields
<1>7. SameText(field, g)
  BY <1>4 DEF SameText
<1>8. InText(g)
  <2>1. CASE painted # field.content
    BY <1>1, <1>4, <2>1 DEF InText
  <2>2. CASE painted = field.content
    BY <1>4, <2>2 DEF InText
  <2>. QED
    BY <2>1, <2>2
<1>. QED
  BY <1>3, <1>6, <1>7, <1>8

\* Extending the selection to where the mouse points.
LEMMA DraggedIs ==
  ASSUME FieldInv, ~field.strayed, NEW index \in index_for_mouse_position, NEW f, f = SelectedTo(field, index)
  PROVE  f \in Fields /\ SameText(field, f) /\ ~f.strayed /\ (painted = field.content => InText(f))
<1>1. field \in Fields /\ InText(field) /\ index \in Nat
  BY PointsIs DEF FieldInv
<1>2. f \in Fields /\ SameText(field, f) /\ ~f.strayed
  BY <1>1, SelectedToIs
<1>3. ASSUME painted = field.content PROVE InText(f)
  BY <1>1, <1>3, PointsIs, SelectingStays
<1>. QED
  BY <1>2, <1>3

\* A drag extends the selection to a boundary of the painted text, of the field's text unless they
\* differ.
LEMMA DragKeeps ==
  ASSUME FieldInv, ~field.strayed, DragSelect
  PROVE  FieldInv'
<1>1. PICK index \in index_for_mouse_position : field' = Pointed(SelectedTo(field, index))
  BY DEF DragSelect
<1>2. PICK f : f = SelectedTo(field, index)
  OBVIOUS
<1>3. f \in Fields /\ SameText(field, f) /\ ~f.strayed /\ (painted = field.content => InText(f))
  BY <1>2, DraggedIs
<1>4. Pointed(f) \in Fields /\ InText(Pointed(f)) /\ SameText(field, Pointed(f))
  BY <1>3, PointedIs
<1>5. UNCHANGED <<history, painted>>
  BY DEF DragSelect
<1>. QED
  BY <1>1, <1>2, <1>4, <1>5, MovesKeep

\* Whether a drag is going on is no part of where the selection is.
LEMMA SelectingIsFree ==
  ASSUME NEW f \in Fields, NEW dragging \in BOOLEAN
  PROVE  LET g == [f EXCEPT !.selecting = dragging] IN
         /\ g \in Fields /\ SameText(f, g) /\ g.strayed = f.strayed /\ (InText(f) => InText(g))
<1>1. PICK g : g = [f EXCEPT !.selecting = dragging]
  OBVIOUS
<1>2. /\ g \in Fields /\ SameText(f, g) /\ g.strayed = f.strayed /\ g.start = f.start /\ g.end = f.end
  BY <1>1 DEF Fields, SameText
<1>3. InText(f) => InText(g)
  BY <1>2 DEF InText, SameText
<1>. QED
  BY <1>1, <1>2, <1>3

\* A click puts the caret on a boundary of the painted text, of the field's text unless they differ.
LEMMA MouseDownKeeps ==
  ASSUME FieldInv, ~field.strayed, MouseDown
  PROVE  FieldInv'
<1>1. field \in Fields /\ InText(field) /\ field.content \in Text /\ UNCHANGED <<history, painted>>
  BY CaretIs DEF FieldInv, MouseDown
<1>2. PICK index \in index_for_mouse_position :
        \/ \E extend \in BOOLEAN :
             field' = Pointed([(IF extend THEN SelectedTo(field, index) ELSE MovedTo(field, index)) EXCEPT !.selecting = TRUE])
        \/ \E start, end \in Boundaries(field.content) :
             /\ start <= Clamped(index) /\ Clamped(index) <= end
             /\ field' = [MovedOnto(field, start) EXCEPT !.end = end, !.reversed = FALSE, !.selecting = FALSE]
        \/ field' = [SelectedTo(MovedOnto(field, 0), Bytes(field.content)) EXCEPT !.selecting = FALSE]
  BY DEF MouseDown
<1>3. index \in Nat /\ Clamped(index) \in Nat
  BY <1>1, PointsIs, ClampedIs
<1>4. CASE \E extend \in BOOLEAN :
             field' = Pointed([(IF extend THEN SelectedTo(field, index) ELSE MovedTo(field, index)) EXCEPT !.selecting = TRUE])
  <2>1. PICK f : f \in {SelectedTo(field, index), MovedTo(field, index)} /\ field' = Pointed([f EXCEPT !.selecting = TRUE])
    BY <1>4
  <2>2. f \in Fields /\ SameText(field, f) /\ ~f.strayed /\ (painted = field.content => InText(f))
    <3>1. CASE f = SelectedTo(field, index)
      BY <3>1, DraggedIs
    <3>2. CASE f = MovedTo(field, index)
      <4>1. f \in Fields /\ SameText(field, f) /\ ~f.strayed /\ f.start = index /\ f.end = index
        BY <1>1, <1>3, <3>2 DEF MovedTo, Fields, SameText
      <4>2. ASSUME painted = field.content PROVE InText(f)
        <5>1. index \in Boundaries(field.content)
          BY <4>2, PointsIs
        <5>. QED
          BY <1>1, <1>3, <4>1, <5>1 DEF InText, SameText
      <4>. QED
        BY <4>1, <4>2
    <3>. QED
      BY <2>1, <3>1, <3>2
  <2>3. PICK g : g = [f EXCEPT !.selecting = TRUE]
    OBVIOUS
  <2>4. g \in Fields /\ SameText(f, g) /\ ~g.strayed /\ (painted = field.content => InText(g))
    BY <2>2, <2>3, SelectingIsFree
  <2>5. SameText(field, g)
    BY <2>2, <2>4 DEF SameText
  <2>6. Pointed(g) \in Fields /\ InText(Pointed(g)) /\ SameText(field, Pointed(g))
    BY <2>4, <2>5, PointedIs
  <2>. QED
    BY <1>1, <2>1, <2>3, <2>6, MovesKeep
<1>5. CASE \E start, end \in Boundaries(field.content) :
             /\ start <= Clamped(index) /\ Clamped(index) <= end
             /\ field' = [MovedOnto(field, start) EXCEPT !.end = end, !.reversed = FALSE, !.selecting = FALSE]
  <2>1. PICK start, end \in Boundaries(field.content) :
          /\ start <= Clamped(index) /\ Clamped(index) <= end
          /\ field' = [MovedOnto(field, start) EXCEPT !.end = end, !.reversed = FALSE, !.selecting = FALSE]
    BY <1>5
  <2>2. start \in Nat /\ end \in Nat
    BY <1>1, BoundaryIs
  <2>3. start <= end
    BY <1>3, <2>1, <2>2
  <2>4. PICK f : f = MovedOnto(field, start)
    OBVIOUS
  <2>5. f \in Fields /\ InText(f) /\ SameText(field, f) /\ f.start = start /\ ~f.strayed
    BY <1>1, <2>4, MovingReturns
  <2>6. field' = [f EXCEPT !.end = end, !.reversed = FALSE, !.selecting = FALSE]
    BY <2>1, <2>4
  <2>7. /\ field' \in Fields /\ SameText(f, field') /\ field'.start = start /\ field'.end = end
    BY <2>2, <2>5, <2>6 DEF Fields, SameText
  <2>8. InText(field') /\ SameText(field, field')
    BY <2>3, <2>5, <2>7 DEF InText, SameText
  <2>. QED
    BY <1>1, <2>7, <2>8, MovesKeep
<1>6. CASE field' = [SelectedTo(MovedOnto(field, 0), Bytes(field.content)) EXCEPT !.selecting = FALSE]
  <2>1. PICK f : f = SelectedTo(MovedOnto(field, 0), Bytes(field.content))
    OBVIOUS
  <2>2. f \in Fields /\ InText(f) /\ SameText(field, f)
    BY <1>1, <2>1, AllSelected
  <2>3. field' = [f EXCEPT !.selecting = FALSE]
    BY <1>6, <2>1
  <2>4. field' \in Fields /\ InText(field') /\ SameText(f, field')
    BY <2>2, <2>3, SelectingIsFree
  <2>5. SameText(field, field')
    BY <2>2, <2>4 DEF SameText
  <2>. QED
    BY <1>1, <2>4, <2>5, MovesKeep
<1>. QED
  BY <1>2, <1>4, <1>5, <1>6

\* A release leaves the selection.
LEMMA MouseUpKeeps ==
  ASSUME FieldInv, MouseUp
  PROVE  FieldInv'
<1>1. field \in Fields /\ InText(field) /\ UNCHANGED <<history, painted>> /\ field' = [field EXCEPT !.selecting = FALSE]
  BY DEF FieldInv, MouseUp
<1>2. field' \in Fields /\ InText(field') /\ SameText(field, field')
  BY <1>1, SelectingIsFree
<1>. QED
  BY <1>1, <1>2, MovesKeep

\* A frame paints the text there is.
LEMMA PaintKeeps ==
  ASSUME FieldInv, Paint
  PROVE  FieldInv'
<1>1. painted' = field.content /\ UNCHANGED <<field, history>> /\ field.content \in Text
  BY CaretIs DEF Paint, FieldInv
<1>2. InText(field')
  BY <1>1 DEF FieldInv
<1>3. field' \in Fields /\ history' \in Histories /\ painted' \in Text
  BY <1>1 DEF FieldInv
<1>4. HistoryHasText'
  BY <1>1 DEF FieldInv, HistoryHasText
<1>. QED
  BY <1>2, <1>3, <1>4 DEF FieldInv

\* Every step keeps it.
LEMMA FieldInvNext == FieldInv /\ [TextNext]_text_vars => FieldInv'
<1>. SUFFICES ASSUME FieldInv, [TextNext]_text_vars PROVE FieldInv'
  OBVIOUS
<1>1. ASSUME NEW new \in Texts PROVE new \in Text
  <2>1. CASE new = <<>>
    BY <2>1 DEF Text
  <2>2. CASE new # <<>>
    <3>1. PICK c \in CharBytes : new = <<c>>
      BY <2>2 DEF Texts
    <3>. QED
      BY <3>1 DEF Text
  <2>. QED
    BY <2>1, <2>2
<1>2. CASE Undo \/ Redo
  BY <1>2, UndoKeeps
<1>3. CASE Moves
  BY <1>3, ArrowsKeep
<1>4. CASE MouseUp
  BY <1>4, MouseUpKeeps
<1>5. CASE Paint
  BY <1>5, PaintKeeps
<1>6. CASE unmark_text
  BY <1>6, UnmarkKeeps
<1>7. CASE \E new \in Texts : SetValue(new)
  BY <1>1, <1>7, SetValueKeeps
<1>8. CASE \E new \in Texts : \E range16 \in RangesUtf16 : replace_text_in_range(range16, new)
  BY <1>1, <1>8, TypingKeeps
<1>9. CASE Backspace \/ Delete
  BY <1>9, BackspaceKeeps
<1>10. CASE ~field.strayed /\ Extends
  BY <1>10, ExtendsKeeps
<1>11. CASE ~field.strayed /\ MouseDown
  BY <1>11, MouseDownKeeps
<1>12. CASE ~field.strayed /\ DragSelect
  BY <1>12, DragKeeps
<1>13. CASE /\ ~field.strayed
            /\ \E new \in Texts : \E range16 \in RangesUtf16, selected16 \in {NoRange, <<0, Units(new)>>, <<Units(new), Units(new)>>} :
                 replace_and_mark_text_in_range(range16, new, selected16)
  BY <1>1, <1>13, ComposingKeeps
<1>14. CASE UNCHANGED text_vars
  <2>1. UNCHANGED <<field, history, painted>>
    BY <1>14 DEF text_vars
  <2>2. field' \in Fields /\ InText(field') /\ SameText(field, field')
    BY <2>1 DEF FieldInv, SameText
  <2>. QED
    BY <2>1, <2>2, MovesKeep
<1>. QED
  BY <1>2, <1>3, <1>4, <1>5, <1>6, <1>7, <1>8, <1>9, <1>10, <1>11, <1>12, <1>13, <1>14 DEF TextNext

\* Outside the two causes that make a selection stray, no slice of the text is off a
\* boundary, and the current history entry is the text shown unless a composition is
\* going on or ended without a commit.
THEOREM FieldStaysSound == TextSpec => []FieldIsSound
<1>1. FieldInv => FieldIsSound
  <2>. SUFFICES ASSUME FieldInv PROVE FieldIsSound
    OBVIOUS
  <2>1. SelectionStaysInText
    BY DEF FieldInv, InText, SelectionStaysInText
  <2>. QED
    BY <2>1 DEF FieldInv, FieldIsSound
<1>. QED
  BY <1>1, FieldInvInit, FieldInvNext, PTL DEF TextSpec
=============================================================================
