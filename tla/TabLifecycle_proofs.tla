-------------------------- MODULE TabLifecycle_proofs --------------------------
(***************************************************************************)
(* Proofs about the tabs of the terminal panel, for any workspaces and any *)
(* number of tabs, saved rows and checkpoints: a tab's work is in hand,    *)
(* and nothing outlives the tab or the agent it belongs to.                *)
(***************************************************************************)
EXTENDS TabLifecycle, TLAPS, SequenceTheorems, FiniteSetTheorems

Boots(i) == <<"boot", i, 1>>
Waits(i) == <<"tui", i, 1>>
Shell(i) == <<"shell", i, 1>>
Saves(i, n) == <<"checkpoint", i, n>>

\* A row is saved once, under a number of its own.
RowsOnce ==
  /\ IsFiniteSet(rows)
  /\ \A r \in rows : r.row < next_row /\ \A s \in rows : r.row = s.row => r = s

\* A tab that was made keeps its kind, and a guest shell its agent, of the same workspace.
FamilyInv ==
  \A i \in Id :
    /\ made[i].kind # "none" => i < next_tab_id
    /\ made[i].kind = "shell" =>
         /\ made[i].parent \in Id /\ made[made[i].parent].kind # "none"
         /\ made[made[i].parent].ws = made[i].ws

\* Only an agent's tab has anything but a terminal.
PlainInv ==
  \A i \in Id : made[i].kind \in {"shell", "host"} =>
    /\ tab[i].terminal /\ ~tab[i].setup_steps /\ ~tab[i].checkpointing
    /\ ~tab[i].checkpoint_name /\ tab[i].tab_db_id = 0

\* What is in flight for a tab fits its kind, and no boot runs while its checkpoint does.
TasksFit ==
  \A i \in Id :
    /\ Boots(i) \in tasks => made[i].kind = "agent"
    /\ Shell(i) \in tasks => made[i].kind = "shell"
    /\ \A n \in 1 .. MaxSaves : Saves(i, n) \in tasks => made[i].kind = "agent" /\ Boots(i) \notin tasks

\* The tab whose secrets are asked for has not begun to boot.
PromptInv ==
  LET i == missing_secrets_prompt IN
  i # 0 =>
    /\ made[i].kind = "agent" /\ ~tab[i].terminal /\ ~tab[i].checkpoint_name
    /\ Boots(i) \notin tasks /\ \A n \in 1 .. MaxSaves : Saves(i, n) \notin tasks

TabInv ==
  /\ TypeOK /\ RowsOnce /\ FamilyInv /\ PlainInv /\ TasksFit /\ PromptInv
  /\ ProgressHasTask /\ BootsOnce /\ LiveTabAttachable /\ TabsOwnTheirRows

-----------------------------------------------------------------------------
(* The tabs a handler creates                                              *)

NewTab == [kind : {"none", "agent", "shell", "host"}, parent : Id \cup {0}, tab : TerminalTab]

\* What a new tab of a workspace may be.
Sound(t, ws) ==
  /\ t.kind \in {"shell", "host"} => t.tab.terminal /\ t.tab.tab_db_id = 0
  /\ t.kind = "agent" => ~t.tab.terminal
  /\ t.tab.setup_steps => t.kind = "agent" /\ ~t.tab.checkpoint_name
  /\ t.tab.setup_error = "missing" => t.kind = "agent" /\ ~t.tab.checkpoint_name /\ ~t.tab.setup_steps
  /\ t.tab.checkpoint_name => t.kind = "agent"
  /\ ~t.tab.checkpointing
  /\ t.kind = "shell" =>
       t.parent \in Id /\ made[t.parent].kind # "none" /\ made[t.parent].ws = ws
  /\ t.tab.tab_db_id # 0 => [row |-> t.tab.tab_db_id, ws |-> ws] \in rows /\ ws \notin sessions

Asks(t) == t.tab.setup_error = "missing"

\* No two of them stand for one row, and one of those that ask is the last.
AllSound(new, ws) ==
  /\ new \in Seq(NewTab)
  /\ \A k \in 1 .. Len(new) : Sound(new[k], ws)
  /\ \A j, k \in 1 .. Len(new) :
       new[j].tab.tab_db_id # 0 /\ new[j].tab.tab_db_id = new[k].tab.tab_db_id => j = k
  /\ \/ \A j \in 1 .. Len(new) : ~Asks(new[j])
     \/ \E k \in 1 .. Len(new) : Asks(new[k]) /\ \A j \in 1 .. Len(new) : Asks(new[j]) => j <= k

\* A handler may create nothing, or one tab.
LEMMA FewAreSound ==
  ASSUME NEW ws, NEW t \in NewTab, Sound(t, ws)
  PROVE  AllSound(<<>>, ws) /\ AllSound(<<t>>, ws)
<1>1. <<>> \in Seq(NewTab) /\ Len(<<>>) = 0
  BY EmptySeq
<1>2. <<t>> \in Seq(NewTab) /\ Len(<<t>>) = 1 /\ <<t>>[1] = t
  OBVIOUS
<1>3. AllSound(<<>>, ws)
  BY <1>1 DEF AllSound
<1>4. 1 .. Len(<<t>>) = {1}
  BY <1>2
<1>5. AllSound(<<t>>, ws)
  BY <1>2, <1>4 DEF AllSound
<1>. QED
  BY <1>3, <1>5

\* A tab may follow the tabs a workspace comes back with.
LEMMA OneMoreIsSound ==
  ASSUME NEW ws, NEW first, AllSound(first, ws),
         NEW t \in NewTab, Sound(t, ws), t.tab.tab_db_id = 0
  PROVE  AllSound(first \o <<>>, ws) /\ AllSound(first \o <<t>>, ws)
<1>1. first \in Seq(NewTab) /\ <<t>> \in Seq(NewTab) /\ Len(<<t>>) = 1 /\ <<t>>[1] = t
  BY DEF AllSound
<1>2. first \o <<>> = first
  BY <1>1, ConcatEmptySeq
<1>. DEFINE new == first \o <<t>>
            last == Len(first) + 1
<1>3. new \in Seq(NewTab) /\ Len(new) = Len(first) + 1 /\ Len(first) \in Nat
      /\ \A k \in 1 .. Len(first) + 1 : new[k] = IF k <= Len(first) THEN first[k] ELSE <<t>>[k - Len(first)]
  BY <1>1, ConcatProperties, LenProperties
<1>4. new[last] = t /\ \A k \in 1 .. Len(new) : k \in 1 .. Len(first) \/ k = last
  BY <1>1, <1>3
<1>5. \A k \in 1 .. Len(first) : k \in 1 .. Len(new) /\ new[k] = first[k] /\ k <= last /\ last \in 1 .. Len(new)
  BY <1>3
<1>6. last \in 1 .. Len(new) /\ \A k \in 1 .. Len(new) : k <= last
  BY <1>3
<1>. HIDE DEF new, last
<1>7. \A k \in 1 .. Len(new) : Sound(new[k], ws)
  BY <1>4, <1>5 DEF AllSound
<1>8. \A j, k \in 1 .. Len(new) :
        new[j].tab.tab_db_id # 0 /\ new[j].tab.tab_db_id = new[k].tab.tab_db_id => j = k
  BY <1>4, <1>5 DEF AllSound
<1>9. \/ \A j \in 1 .. Len(new) : ~Asks(new[j])
      \/ \E k \in 1 .. Len(new) : Asks(new[k]) /\ \A j \in 1 .. Len(new) : Asks(new[j]) => j <= k
  <2>1. CASE Asks(t)
    BY <2>1, <1>4, <1>6
  <2>2. CASE ~Asks(t) /\ \A j \in 1 .. Len(first) : ~Asks(first[j])
    BY <2>2, <1>4, <1>5
  <2>3. CASE ~Asks(t) /\ \E k \in 1 .. Len(first) : Asks(first[k]) /\ \A j \in 1 .. Len(first) : Asks(first[j]) => j <= k
    <3>1. PICK k \in 1 .. Len(first) : Asks(first[k]) /\ \A j \in 1 .. Len(first) : Asks(first[j]) => j <= k
      BY <2>3
    <3>. QED
      BY <2>3, <3>1, <1>4, <1>5
  <2>. QED
    BY <2>1, <2>2, <2>3 DEF AllSound
<1>10. AllSound(new, ws)
  BY <1>3, <1>7, <1>8, <1>9 DEF AllSound
<1>. QED
  BY <1>2, <1>10 DEF new

\* The fields of the tabs a handler can create.
LEMMA NewTabsAreSound ==
  ASSUME NEW ws
  PROVE  /\ \A m \in BOOLEAN : NewAgent(m) \in NewTab /\ Sound(NewAgent(m), ws) /\ NewAgent(m).tab.tab_db_id = 0
         /\ HostShell \in NewTab /\ Sound(HostShell, ws) /\ HostShell.tab.tab_db_id = 0
         /\ NoShell \in NewTab /\ Sound(NoShell, ws) /\ NoShell.tab.tab_db_id = 0
         /\ \A p \in Id : made[p].kind # "none" /\ made[p].ws = ws =>
              GuestShell(p) \in NewTab /\ Sound(GuestShell(p), ws) /\ GuestShell(p).tab.tab_db_id = 0
         /\ \A r \in [row : Row, ws : {ws}] : r \in rows /\ ws \notin sessions =>
              Restored(r) \in NewTab /\ Sound(Restored(r), ws) /\ Restored(r).tab.tab_db_id = r.row /\ ~Asks(Restored(r))
<1>1. /\ Blank \in TerminalTab /\ ~Blank.setup_steps /\ Blank.setup_error = "none" /\ ~Blank.terminal
      /\ ~Blank.checkpointing /\ ~Blank.checkpoint_name /\ Blank.tab_db_id = 0
  BY DEF Blank, TerminalTab
<1>2. ASSUME NEW t \in TerminalTab, NEW kind \in {"none", "agent", "shell", "host"}, NEW p \in Id \cup {0}
      PROVE  LET n == [kind |-> kind, parent |-> p, tab |-> t] IN
               n \in NewTab /\ n.kind = kind /\ n.parent = p /\ n.tab = t
  BY DEF NewTab
<1>3. ASSUME NEW m \in BOOLEAN
      PROVE  NewAgent(m) \in NewTab /\ Sound(NewAgent(m), ws) /\ NewAgent(m).tab.tab_db_id = 0
  <2>1. CASE m
    <3>. DEFINE t == [Blank EXCEPT !.setup_error = "missing"]
    <3>1. t \in TerminalTab /\ ~t.setup_steps /\ t.setup_error = "missing" /\ ~t.terminal
          /\ ~t.checkpointing /\ ~t.checkpoint_name /\ t.tab_db_id = 0
      BY <1>1 DEF TerminalTab
    <3>2. NewAgent(m) = [kind |-> "agent", parent |-> 0, tab |-> t]
      BY <2>1 DEF NewAgent, Agent
    <3>. HIDE DEF t
    <3>. QED
      BY <3>1, <3>2, <1>2 DEF Sound
  <2>2. CASE ~m
    <3>. DEFINE t == [Blank EXCEPT !.setup_steps = TRUE]
    <3>1. t \in TerminalTab /\ t.setup_steps /\ t.setup_error = "none" /\ ~t.terminal
          /\ ~t.checkpointing /\ ~t.checkpoint_name /\ t.tab_db_id = 0
      BY <1>1 DEF TerminalTab
    <3>2. NewAgent(m) = [kind |-> "agent", parent |-> 0, tab |-> t]
      BY <2>2 DEF NewAgent, Agent
    <3>. HIDE DEF t
    <3>. QED
      BY <3>1, <3>2, <1>2 DEF Sound
  <2>. QED
    BY <2>1, <2>2
<1>. DEFINE shell == [Blank EXCEPT !.terminal = TRUE]
<1>4. shell \in TerminalTab /\ ~shell.setup_steps /\ shell.setup_error = "none" /\ shell.terminal
      /\ ~shell.checkpointing /\ ~shell.checkpoint_name /\ shell.tab_db_id = 0
  BY <1>1 DEF TerminalTab
<1>5. HostShell = [kind |-> "host", parent |-> 0, tab |-> shell]
      /\ \A p : GuestShell(p) = [kind |-> "shell", parent |-> p, tab |-> shell]
  BY DEF HostShell, GuestShell
<1>. HIDE DEF shell
<1>6. HostShell \in NewTab /\ Sound(HostShell, ws) /\ HostShell.tab.tab_db_id = 0
  BY <1>2, <1>4, <1>5 DEF Sound
<1>7. NoShell \in NewTab /\ Sound(NoShell, ws) /\ NoShell.tab.tab_db_id = 0
  BY <1>2, <1>1 DEF Sound, NoShell
<1>8. ASSUME NEW p \in Id, made[p].kind # "none" /\ made[p].ws = ws
      PROVE  GuestShell(p) \in NewTab /\ Sound(GuestShell(p), ws) /\ GuestShell(p).tab.tab_db_id = 0
  BY <1>2, <1>4, <1>5, <1>8 DEF Sound
<1>9. ASSUME NEW r \in [row : Row, ws : {ws}], r \in rows /\ ws \notin sessions
      PROVE  Restored(r) \in NewTab /\ Sound(Restored(r), ws) /\ Restored(r).tab.tab_db_id = r.row /\ ~Asks(Restored(r))
  <2>. DEFINE t == [Blank EXCEPT !.checkpoint_name = TRUE, !.tab_db_id = r.row]
  <2>1. t \in TerminalTab /\ ~t.setup_steps /\ t.setup_error = "none" /\ ~t.terminal
        /\ ~t.checkpointing /\ t.checkpoint_name /\ t.tab_db_id = r.row
    BY <1>1 DEF TerminalTab
  <2>2. Restored(r) = [kind |-> "agent", parent |-> 0, tab |-> t]
    BY DEF Restored, Agent
  <2>3. [row |-> r.row, ws |-> ws] = r
    OBVIOUS
  <2>. HIDE DEF t
  <2>. QED
    BY <2>1, <2>2, <2>3, <1>2, <1>9 DEF Sound, Asks
<1>. QED
  BY <1>3, <1>6, <1>7, <1>8, <1>9

\* A finite set, listed.
LEMMA SetToSeqProperties ==
  ASSUME NEW S, IsFiniteSet(S)
  PROVE  LET s == SetToSeq(S) IN
         /\ Len(s) \in Nat /\ DOMAIN s = 1 .. Len(s) /\ s \in Seq(S)
         /\ \A j, k \in 1 .. Len(s) : s[j] = s[k] => j = k
         /\ s = <<>> <=> S = {}
<1>. DEFINE n == Cardinality(S)
            s == SetToSeq(S)
<1>1. n \in Nat /\ ExistsBijection(1 .. n, S)
  BY FS_CardinalityType
<1>2. PICK f \in [1 .. n -> S] : IsInjective(f)
  BY <1>1 DEF ExistsBijection, Bijection, Injection
<1>3. s \in [1 .. n -> S] /\ IsInjective(s)
  BY <1>2 DEF SetToSeq
<1>4. s \in Seq(S) /\ Len(s) = n /\ DOMAIN s = 1 .. n
  BY <1>1, <1>3, LenProperties
<1>5. \A j, k \in 1 .. n : s[j] = s[k] => j = k
  BY <1>3 DEF IsInjective
<1>6. n = 0 <=> S = {}
  BY FS_EmptySet
<1>7. s = <<>> <=> n = 0
  BY <1>1, <1>4, EmptySeq
<1>. QED
  BY <1>1, <1>4, <1>5, <1>6, <1>7

\* The tabs numbered in fresh are new, as at has them, and the others as they were.
AddsTabs(ws, prompt, fresh, at) ==
  /\ next_tab_id' \in 1 .. MaxTabs + 1 /\ next_tab_id' >= next_tab_id
  /\ \A i \in fresh : /\ Sound(at[i], ws) /\ i >= next_tab_id /\ i < next_tab_id'
                      /\ i \notin open /\ made[i].kind = "none"
                      /\ made'[i] = [ws |-> ws, kind |-> at[i].kind, parent |-> at[i].parent]
                      /\ tab'[i] = at[i].tab
  /\ \A i, j \in fresh : at[i].tab.tab_db_id # 0 /\ at[i].tab.tab_db_id = at[j].tab.tab_db_id => i = j
  /\ \A i \in Id \ fresh : made'[i] = made[i] /\ tab'[i] = tab[i]
  /\ made' = [i \in Id |-> made'[i]] /\ tab' = [i \in Id |-> tab'[i]]
  /\ open' = open \cup {i \in fresh : at[i].kind \in {"agent", "host"}}
  /\ pty_map' = pty_map \cup {i \in fresh : at[i].kind = "host"}
  /\ tasks' = tasks \cup {Boots(i) : i \in {j \in fresh : at[j].tab.setup_steps}}
                    \cup {Shell(i) : i \in {j \in fresh : at[j].kind = "shell"}}
  /\ \/ missing_secrets_prompt' = prompt
     \/ missing_secrets_prompt' \in fresh /\ Asks(at[missing_secrets_prompt'])

\* What Adds does, tab by tab: the new tabs are sound, the others as they were.
LEMMA AddsEffect ==
  ASSUME TypeOK, FamilyInv, TasksFit,
         NEW ws \in Workspace, NEW new, AllSound(new, ws),
         NEW prompt \in {0, missing_secrets_prompt},
         ws \in sessions', Adds(ws, new, prompt)
  PROVE  \E fresh \in SUBSET Id : \E at \in [fresh -> NewTab] :
    AddsTabs(ws, prompt, fresh, at)
<1>. DEFINE fresh == next_tab_id .. next_tab_id + Len(new) - 1
            at == [i \in fresh |-> new[i - next_tab_id + 1]]
            asking == {i \in fresh : at[i].tab.setup_error = "missing"}
<1>1. next_tab_id \in 1 .. MaxTabs + 1 /\ MaxTabs \in Nat /\ new \in Seq(NewTab) /\ Len(new) \in Nat
  BY BoundAssumption, LenProperties DEF TypeOK, AllSound
<1>2. next_tab_id + Len(new) <= MaxTabs + 1 /\ next_tab_id' = next_tab_id + Len(new)
  BY DEF Adds
<1>3. fresh \subseteq Id /\ next_tab_id' \in 1 .. MaxTabs + 1 /\ next_tab_id' >= next_tab_id
  BY <1>1, <1>2 DEF Id
<1>4. \A i \in fresh : i - next_tab_id + 1 \in 1 .. Len(new) /\ i >= next_tab_id /\ i < next_tab_id'
                       /\ ~(i < next_tab_id)
  BY <1>1, <1>2
<1>5. \A i, j \in fresh : i - next_tab_id + 1 = j - next_tab_id + 1 => i = j
  BY <1>1
<1>6. \A i, j \in fresh : i - next_tab_id + 1 <= j - next_tab_id + 1 => i <= j
  BY <1>1
<1>7. \A k \in 1 .. Len(new) : next_tab_id + k - 1 \in fresh /\ (next_tab_id + k - 1) - next_tab_id + 1 = k
  BY <1>1
<1>8. \A i \in fresh : at[i] = new[i - next_tab_id + 1]
  OBVIOUS
<1>9. at \in [fresh -> NewTab]
  BY <1>1, <1>4
<1>10. made' = [i \in Id |-> IF i \in fresh THEN [ws |-> ws, kind |-> new[i - next_tab_id + 1].kind,
                               parent |-> new[i - next_tab_id + 1].parent] ELSE made[i]]
  BY DEF Adds
<1>11. tab' = [i \in Id |-> IF i \in fresh THEN new[i - next_tab_id + 1].tab ELSE tab[i]]
  BY DEF Adds
<1>12. open' = open \cup {i \in fresh : new[i - next_tab_id + 1].kind = "agent"}
                   \cup {i \in fresh : new[i - next_tab_id + 1].kind = "host"}
  BY DEF Adds
<1>13. pty_map' = pty_map \cup {i \in fresh : new[i - next_tab_id + 1].kind = "host"}
  BY DEF Adds
<1>14. tasks' = tasks \cup {<<"boot", i, 1>> : i \in {j \in fresh : new[j - next_tab_id + 1].tab.setup_steps}}
                \cup {<<"shell", i, 1>> : i \in {j \in fresh : new[j - next_tab_id + 1].kind = "shell"}}
  BY DEF Adds
<1>15. missing_secrets_prompt' = IF {i \in fresh : new[i - next_tab_id + 1].tab.setup_error = "missing"} = {} THEN prompt
          ELSE Max({i \in fresh : new[i - next_tab_id + 1].tab.setup_error = "missing"})
  BY DEF Adds
<1>16. {i \in fresh : new[i - next_tab_id + 1].tab.setup_error = "missing"} = asking
  BY <1>8
<1>17. asking = {} \/ Max(asking) \in asking
  <2>1. CASE \A j \in 1 .. Len(new) : ~Asks(new[j])
    BY <2>1, <1>4, <1>8 DEF Asks
  <2>2. CASE \E k \in 1 .. Len(new) : Asks(new[k]) /\ \A j \in 1 .. Len(new) : Asks(new[j]) => j <= k
    <3>1. PICK k \in 1 .. Len(new) : Asks(new[k]) /\ \A j \in 1 .. Len(new) : Asks(new[j]) => j <= k
      BY <2>2
    <3>2. PICK i \in fresh : i - next_tab_id + 1 = k
      BY <1>7
    <3>3. i \in asking
      BY <3>1, <3>2, <1>8 DEF Asks
    <3>4. \A j \in asking : j - next_tab_id + 1 <= i - next_tab_id + 1
      BY <3>1, <3>2, <1>4, <1>8 DEF Asks
    <3>5. \A j \in asking : i >= j
      BY <3>4, <1>6, <1>1
    <3>. QED
      BY <3>3, <3>5 DEF Max
  <2>. QED
    BY <2>1, <2>2 DEF AllSound
<1>18. \A i \in fresh : Sound(at[i], ws)
  BY <1>4, <1>8 DEF AllSound
<1>19. \A i, j \in fresh : at[i].tab.tab_db_id # 0 /\ at[i].tab.tab_db_id = at[j].tab.tab_db_id => i = j
  BY <1>4, <1>5, <1>8 DEF AllSound
<1>20. \A i \in fresh : i \notin open /\ made[i].kind = "none"
  <2>1. \A i \in fresh : i \in Id /\ ~(i < next_tab_id)
    BY <1>3, <1>4
  <2>2. \A i \in open : i < next_tab_id
    BY DEF TypeOK
  <2>3. \A i \in Id : made[i].kind # "none" => i < next_tab_id
    BY DEF FamilyInv
  <2>. QED
    BY <2>1, <2>2, <2>3
<1>21. \A i \in fresh : made[i].kind = "none"
  BY <1>20
<1>. HIDE DEF fresh, at
<1>22. \A i \in fresh : /\ made'[i] = [ws |-> ws, kind |-> at[i].kind, parent |-> at[i].parent]
                        /\ tab'[i] = at[i].tab
  BY <1>3, <1>8, <1>10, <1>11
<1>23. \A i \in Id \ fresh : made'[i] = made[i] /\ tab'[i] = tab[i]
  BY <1>10, <1>11
<1>24. made' = [i \in Id |-> made'[i]] /\ tab' = [i \in Id |-> tab'[i]]
  BY <1>10, <1>11
<1>25. open' = open \cup {i \in fresh : at[i].kind \in {"agent", "host"}}
  BY <1>8, <1>12
<1>26. pty_map' = pty_map \cup {i \in fresh : at[i].kind = "host"}
  BY <1>8, <1>13
<1>27. /\ {j \in fresh : new[j - next_tab_id + 1].tab.setup_steps} = {j \in fresh : at[j].tab.setup_steps}
       /\ {j \in fresh : new[j - next_tab_id + 1].kind = "shell"} = {j \in fresh : at[j].kind = "shell"}
  BY <1>8
<1>28. tasks' = tasks \cup {Boots(i) : i \in {j \in fresh : at[j].tab.setup_steps}}
                \cup {Shell(i) : i \in {j \in fresh : at[j].kind = "shell"}}
  BY <1>14, <1>27 DEF Boots, Shell
<1>29. \/ missing_secrets_prompt' = prompt
       \/ missing_secrets_prompt' \in fresh /\ Asks(at[missing_secrets_prompt'])
  BY <1>15, <1>16, <1>17 DEF Asks
<1>. HIDE DEF asking
<1>30. AddsTabs(ws, prompt, fresh, at)
  BY <1>3, <1>4, <1>9, <1>18, <1>19, <1>20, <1>22, <1>23, <1>24, <1>25, <1>26, <1>28, <1>29 DEF AddsTabs
<1>. QED
  BY <1>3, <1>9, <1>30

-----------------------------------------------------------------------------
(* Opening tabs                                                            *)

\* Tabs that are added leave the invariant as it was, and every open tab as it is.
LEMMA AddsKeep ==
  ASSUME TabInv,
         NEW ws \in Workspace, NEW new, AllSound(new, ws),
         NEW prompt \in {0, missing_secrets_prompt},
         Adds(ws, new, prompt),
         active_workspace_id' = ws, sessions' = sessions \cup {ws}, pending_close' = pending_close,
         UNCHANGED db
  PROVE  /\ TabInv' /\ open \subseteq open'
         /\ \A i \in open : Running(i) => Running(i)'
<1>1. ws \in sessions' /\ TypeOK /\ FamilyInv /\ TasksFit
  BY DEF TabInv
<1>2. PICK fresh \in SUBSET Id : \E at \in [fresh -> NewTab] : AddsTabs(ws, prompt, fresh, at)
  BY <1>1, AddsEffect
<1>3a. PICK at \in [fresh -> NewTab] : AddsTabs(ws, prompt, fresh, at)
  BY <1>2
<1>3. /\ next_tab_id' \in 1 .. MaxTabs + 1 /\ next_tab_id' >= next_tab_id
      /\ \A i \in fresh : /\ Sound(at[i], ws) /\ i >= next_tab_id /\ i < next_tab_id'
                          /\ i \notin open /\ made[i].kind = "none"
                          /\ made'[i] = [ws |-> ws, kind |-> at[i].kind, parent |-> at[i].parent]
                          /\ tab'[i] = at[i].tab
      /\ \A i, j \in fresh : at[i].tab.tab_db_id # 0 /\ at[i].tab.tab_db_id = at[j].tab.tab_db_id => i = j
      /\ \A i \in Id \ fresh : made'[i] = made[i] /\ tab'[i] = tab[i]
      /\ made' = [i \in Id |-> made'[i]] /\ tab' = [i \in Id |-> tab'[i]]
      /\ open' = open \cup {i \in fresh : at[i].kind \in {"agent", "host"}}
      /\ pty_map' = pty_map \cup {i \in fresh : at[i].kind = "host"}
      /\ tasks' = tasks \cup {Boots(i) : i \in {j \in fresh : at[j].tab.setup_steps}}
                        \cup {Shell(i) : i \in {j \in fresh : at[j].kind = "shell"}}
      /\ \/ missing_secrets_prompt' = prompt
         \/ missing_secrets_prompt' \in fresh /\ Asks(at[missing_secrets_prompt'])
  BY <1>3a DEF AddsTabs
<1>4. /\ \A i \in Id : i \in fresh \/ i \in Id \ fresh
      /\ \A i \in fresh : i \in Id /\ made[i].kind = "none" /\ i \notin open
      /\ \A i \in fresh : at[i] \in NewTab
      /\ \A i \in fresh : at[i].kind \in {"none", "agent", "shell", "host"} /\ at[i].parent \in Id \cup {0}
                          /\ at[i].tab \in TerminalTab /\ Sound(at[i], ws)
  BY <1>3 DEF NewTab
<1>5. \A i \in fresh : made'[i].ws = ws /\ made'[i].kind = at[i].kind /\ made'[i].parent = at[i].parent
                       /\ made'[i] \in Made /\ tab'[i] = at[i].tab
  <2>1. ASSUME NEW kind \in {"none", "agent", "shell", "host"}, NEW p \in Id \cup {0}
        PROVE  LET m == [ws |-> ws, kind |-> kind, parent |-> p] IN
                 m \in Made /\ m.ws = ws /\ m.kind = kind /\ m.parent = p
    BY DEF Made
  <2>. SUFFICES ASSUME NEW i \in fresh
                PROVE  /\ made'[i].ws = ws /\ made'[i].kind = at[i].kind /\ made'[i].parent = at[i].parent
                       /\ made'[i] \in Made /\ tab'[i] = at[i].tab
    OBVIOUS
  <2>2. at[i].kind \in {"none", "agent", "shell", "host"} /\ at[i].parent \in Id \cup {0}
    BY <1>4
  <2>3. made'[i] = [ws |-> ws, kind |-> at[i].kind, parent |-> at[i].parent] /\ tab'[i] = at[i].tab
    BY <1>3
  <2>. QED
    BY <2>1, <2>2, <2>3
<1>6. \A i \in Id \ fresh : made'[i] = made[i] /\ tab'[i] = tab[i]
  BY <1>3
<1>7. \A i \in open : i \in Id \ fresh
  BY <1>4 DEF TabInv, TypeOK
<1>8. /\ \A i, n : <<"checkpoint", i, n>> \in tasks' <=> <<"checkpoint", i, n>> \in tasks
      /\ \A i : <<"tui", i, 1>> \in tasks' <=> <<"tui", i, 1>> \in tasks
      /\ \A i : <<"boot", i, 1>> \in tasks' <=> <<"boot", i, 1>> \in tasks \/ (i \in fresh /\ at[i].tab.setup_steps)
      /\ \A i : <<"shell", i, 1>> \in tasks' <=> <<"shell", i, 1>> \in tasks \/ (i \in fresh /\ at[i].kind = "shell")
  BY <1>3 DEF Boots, Shell
<1>9. \A i \in fresh : /\ Boots(i) \notin tasks /\ Shell(i) \notin tasks
                       /\ \A n \in 1 .. MaxSaves : Saves(i, n) \notin tasks
  BY <1>4 DEF TabInv, TasksFit
<1>10. /\ rows' = rows /\ next_row' = next_row /\ workspaces' = workspaces
  BY DEF db
<1>11. missing_secrets_prompt \notin fresh
  <2>1. missing_secrets_prompt # 0 => made[missing_secrets_prompt].kind = "agent"
    BY DEF TabInv, PromptInv
  <2>2. 0 \notin Id
    BY DEF Id
  <2>. QED
    BY <2>1, <2>2, <1>4
<1>12. TypeOK'
  <2>1. made' \in [Id -> Made]
    <3>1. \A i \in Id : made'[i] \in Made
      BY <1>4, <1>5, <1>6 DEF TabInv, TypeOK
    <3>. QED
      BY <3>1, <1>3
  <2>2. tab' \in [Id -> TerminalTab]
    <3>1. \A i \in Id : tab'[i] \in TerminalTab
      BY <1>4, <1>5, <1>6 DEF TabInv, TypeOK
    <3>. QED
      BY <3>1, <1>3
  <2>3. \A i \in open' : i \in Id /\ i < next_tab_id' /\ made'[i].ws \in sessions'
    <3>1. ASSUME NEW i \in open PROVE i \in Id /\ i < next_tab_id' /\ made'[i].ws \in sessions'
      <4>1. i \in Id /\ i < next_tab_id /\ made[i].ws \in sessions
        BY DEF TabInv, TypeOK
      <4>2. i < next_tab_id'
        BY <4>1, <1>3 DEF Id, TabInv, TypeOK
      <4>. QED
        BY <4>1, <4>2, <1>6, <1>7
    <3>2. \A i \in fresh : i \in Id /\ i < next_tab_id' /\ made'[i].ws \in sessions'
      BY <1>1, <1>3, <1>4, <1>5
    <3>. QED
      BY <3>1, <3>2, <1>3
  <2>4. tasks' \subseteq {"boot", "tui", "shell", "checkpoint"} \X Id \X (1 .. MaxSaves \cup {1})
    <3>1. \A i \in Id : /\ Boots(i) \in {"boot", "tui", "shell", "checkpoint"} \X Id \X (1 .. MaxSaves \cup {1})
                        /\ Shell(i) \in {"boot", "tui", "shell", "checkpoint"} \X Id \X (1 .. MaxSaves \cup {1})
      BY DEF Boots, Shell
    <3>2. tasks \subseteq {"boot", "tui", "shell", "checkpoint"} \X Id \X (1 .. MaxSaves \cup {1})
      BY DEF TabInv, TypeOK
    <3>. QED
      BY <3>1, <3>2, <1>3, <1>4
  <2>5. missing_secrets_prompt' \in Id \cup {0}
    BY <1>3, <1>4 DEF TabInv, TypeOK
  <2>6. pty_map' \subseteq Id
    BY <1>3 DEF TabInv, TypeOK
  <2>7. sessions' \subseteq Workspace /\ active_workspace_id' \in sessions' \cup {NoWorkspace}
    BY DEF TabInv, TypeOK
  <2>. QED
    BY <1>3, <1>10, <2>1, <2>2, <2>3, <2>4, <2>5, <2>6, <2>7 DEF TabInv, TypeOK
<1>13. RowsOnce'
  BY <1>10 DEF TabInv, RowsOnce
<1>14. FamilyInv'
  <2>1. ASSUME NEW i \in Id PROVE made'[i].kind # "none" => i < next_tab_id'
    <3>1. CASE i \in fresh
      BY <3>1, <1>3
    <3>2. CASE i \notin fresh
      <4>1. made[i].kind # "none" => i < next_tab_id
        BY DEF TabInv, FamilyInv
      <4>2. made'[i].kind = made[i].kind
        BY <3>2, <1>6
      <4>. QED
        BY <4>1, <4>2, <1>3 DEF Id, TabInv, TypeOK
    <3>. QED
      BY <3>1, <3>2
  <2>2. ASSUME NEW p \in Id, made[p].kind # "none"
        PROVE  made'[p] = made[p]
    BY <2>2, <1>4, <1>6
  <2>3. ASSUME NEW i \in Id, made'[i].kind = "shell"
        PROVE  /\ made'[i].parent \in Id /\ made'[made'[i].parent].kind # "none"
               /\ made'[made'[i].parent].ws = made'[i].ws
    <3>1. CASE i \in fresh
      <4>1. at[i].kind = "shell" /\ Sound(at[i], ws) /\ made'[i].parent = at[i].parent /\ made'[i].ws = ws
        BY <3>1, <2>3, <1>4, <1>5
      <4>2. at[i].parent \in Id /\ made[at[i].parent].kind # "none" /\ made[at[i].parent].ws = ws
        BY <4>1 DEF Sound
      <4>. QED
        BY <4>1, <4>2, <2>2
    <3>2. CASE i \notin fresh
      <4>1. made'[i] = made[i]
        BY <3>2, <1>6
      <4>2. made[i].parent \in Id /\ made[made[i].parent].kind # "none" /\ made[made[i].parent].ws = made[i].ws
        BY <4>1, <2>3 DEF TabInv, FamilyInv
      <4>. QED
        BY <4>1, <4>2, <2>2
    <3>. QED
      BY <3>1, <3>2
  <2>. QED
    BY <2>1, <2>3 DEF FamilyInv
<1>15. PlainInv'
  <2>. SUFFICES ASSUME NEW i \in Id, made'[i].kind \in {"shell", "host"}
                PROVE  /\ tab'[i].terminal /\ ~tab'[i].setup_steps /\ ~tab'[i].checkpointing
                       /\ ~tab'[i].checkpoint_name /\ tab'[i].tab_db_id = 0
    BY DEF PlainInv
  <2>1. CASE i \in fresh
    <3>1. Sound(at[i], ws) /\ at[i].kind \in {"shell", "host"} /\ tab'[i] = at[i].tab
      BY <2>1, <1>4, <1>5
    <3>. QED
      BY <3>1 DEF Sound
  <2>2. CASE i \notin fresh
    BY <2>2, <1>6 DEF TabInv, PlainInv
  <2>. QED
    BY <2>1, <2>2
<1>16. TasksFit'
  <2>. SUFFICES ASSUME NEW i \in Id
                PROVE  /\ Boots(i) \in tasks' => made'[i].kind = "agent"
                       /\ Shell(i) \in tasks' => made'[i].kind = "shell"
                       /\ \A n \in 1 .. MaxSaves : Saves(i, n) \in tasks' =>
                            made'[i].kind = "agent" /\ Boots(i) \notin tasks'
    BY DEF TasksFit, Boots, Shell, Saves
  <2>1. CASE i \in fresh
    <3>1. at[i].tab.setup_steps => at[i].kind = "agent"
      BY <2>1, <1>4 DEF Sound
    <3>. QED
      BY <2>1, <3>1, <1>5, <1>8, <1>9 DEF Boots, Shell, Saves
  <2>2. CASE i \notin fresh
    <3>1. made'[i] = made[i]
      BY <2>2, <1>6
    <3>. QED
      BY <2>2, <3>1, <1>8 DEF Boots, Shell, Saves, TabInv, TasksFit
  <2>. QED
    BY <2>1, <2>2
<1>17. PromptInv'
  <2>1. CASE missing_secrets_prompt' = prompt
    <3>1. CASE prompt = 0
      BY <2>1, <3>1 DEF PromptInv
    <3>2. CASE prompt # 0
      <4>1. missing_secrets_prompt' = missing_secrets_prompt /\ missing_secrets_prompt # 0
        BY <2>1, <3>2
      <4>. DEFINE i == missing_secrets_prompt
      <4>2. i \in Id \ fresh
        BY <4>1, <1>11 DEF TabInv, TypeOK
      <4>3. /\ made[i].kind = "agent" /\ ~tab[i].terminal /\ ~tab[i].checkpoint_name
            /\ Boots(i) \notin tasks /\ \A n \in 1 .. MaxSaves : Saves(i, n) \notin tasks
        BY <4>1 DEF TabInv, PromptInv
      <4>4. made'[i] = made[i] /\ tab'[i] = tab[i]
        BY <4>2, <1>6
      <4>5. Boots(i) \notin tasks' /\ \A n \in 1 .. MaxSaves : Saves(i, n) \notin tasks'
        BY <4>2, <4>3, <1>8 DEF Boots, Saves
      <4>. QED
        BY <4>1, <4>3, <4>4, <4>5 DEF PromptInv, Boots, Saves
    <3>. QED
      BY <3>1, <3>2
  <2>2. CASE missing_secrets_prompt' \in fresh /\ Asks(at[missing_secrets_prompt'])
    <3>1. ASSUME NEW i \in fresh, Asks(at[i])
          PROVE  /\ made'[i].kind = "agent" /\ ~tab'[i].terminal /\ ~tab'[i].checkpoint_name
                 /\ Boots(i) \notin tasks' /\ \A n \in 1 .. MaxSaves : Saves(i, n) \notin tasks'
      <4>1. at[i].kind = "agent" /\ ~at[i].tab.terminal /\ ~at[i].tab.checkpoint_name /\ ~at[i].tab.setup_steps
        BY <3>1, <1>4 DEF Sound, Asks
      <4>. QED
        BY <4>1, <1>5, <1>8, <1>9 DEF Boots, Saves
    <3>. QED
      BY <2>2, <3>1 DEF PromptInv, Boots, Saves
  <2>. QED
    BY <2>1, <2>2, <1>3
<1>18. ProgressHasTask'
  <2>. SUFFICES ASSUME NEW i \in open'
                PROVE  /\ tab'[i].setup_steps /\ tab'[i].setup_error = "none" =>
                            <<"boot", i, 1>> \in tasks' \/ <<"tui", i, 1>> \in tasks'
                       /\ tab'[i].checkpointing => \E n \in 1 .. MaxSaves : <<"checkpoint", i, n>> \in tasks'
    BY DEF ProgressHasTask
  <2>1. CASE i \in fresh
    BY <2>1, <1>4, <1>5, <1>8 DEF Sound
  <2>2. CASE i \in open
    BY <2>2, <1>6, <1>7, <1>8 DEF TabInv, ProgressHasTask
  <2>. QED
    BY <2>1, <2>2, <1>3
<1>19. BootsOnce'
  <2>. SUFFICES ASSUME NEW i \in Id, <<"boot", i, 1>> \in tasks', i \in open'
                PROVE  ~tab'[i].terminal /\ ~tab'[i].checkpoint_name
    BY DEF BootsOnce
  <2>1. CASE i \in fresh
    <3>1. at[i].tab.setup_steps /\ Sound(at[i], ws)
      BY <2>1, <1>4, <1>8, <1>9 DEF Boots
    <3>. QED
      BY <2>1, <3>1, <1>5 DEF Sound
  <2>2. CASE i \notin fresh
    <3>1. i \in open /\ <<"boot", i, 1>> \in tasks /\ tab'[i] = tab[i]
      BY <2>2, <1>3, <1>6, <1>8
    <3>. QED
      BY <3>1 DEF TabInv, BootsOnce
  <2>. QED
    BY <2>1, <2>2
<1>20. LiveTabAttachable'
  <2>. SUFFICES ASSUME NEW i \in open', tab'[i].terminal PROVE i \in pty_map'
    BY DEF LiveTabAttachable
  <2>1. CASE i \in open
    BY <2>1, <1>3, <1>6, <1>7 DEF TabInv, LiveTabAttachable
  <2>2. CASE i \in fresh /\ at[i].kind = "host"
    BY <2>2, <1>3
  <2>3. CASE i \in fresh /\ at[i].kind = "agent"
    BY <2>3, <1>4, <1>5 DEF Sound
  <2>. QED
    BY <2>1, <2>2, <2>3, <1>3
<1>21. TabsOwnTheirRows'
  <2>1. ASSUME NEW i \in open', tab'[i].tab_db_id # 0
        PROVE  /\ [row |-> tab'[i].tab_db_id, ws |-> made'[i].ws] \in rows
               /\ i \in fresh => made'[i].ws \notin sessions
               /\ i \in open => made'[i].ws \in sessions
    <3>1. CASE i \in fresh
      BY <3>1, <2>1, <1>4, <1>5 DEF Sound
    <3>2. CASE i \in open
      <4>1. i \in Id \ fresh /\ made'[i] = made[i] /\ tab'[i] = tab[i] /\ made[i].ws \in sessions
        BY <3>2, <1>6, <1>7 DEF TabInv, TypeOK
      <4>. QED
        BY <4>1, <3>2, <2>1 DEF TabInv, TabsOwnTheirRows
    <3>. QED
      BY <3>1, <3>2, <1>3
  <2>2. ASSUME NEW i \in open', tab'[i].tab_db_id # 0, NEW j \in open' \ {i}, tab'[j].tab_db_id = tab'[i].tab_db_id
        PROVE  FALSE
    <3>1. [row |-> tab'[i].tab_db_id, ws |-> made'[i].ws] \in rows /\ [row |-> tab'[i].tab_db_id, ws |-> made'[j].ws] \in rows
      BY <2>1, <2>2
    <3>2. made'[i].ws = made'[j].ws
      <4>1. \A r, s \in rows : r.row = s.row => r = s
        BY DEF TabInv, RowsOnce
      <4>2. [row |-> tab'[i].tab_db_id, ws |-> made'[i].ws].row = [row |-> tab'[i].tab_db_id, ws |-> made'[j].ws].row
        OBVIOUS
      <4>3. [row |-> tab'[i].tab_db_id, ws |-> made'[i].ws] = [row |-> tab'[i].tab_db_id, ws |-> made'[j].ws]
        BY <3>1, <4>1, <4>2
      <4>. QED
        BY <4>3
    <3>3. CASE i \in fresh /\ j \in fresh
      BY <3>3, <2>2, <1>3, <1>5
    <3>4. CASE i \in open /\ j \in open
      <4>1. tab'[i] = tab[i] /\ tab'[j] = tab[j]
        BY <3>4, <1>6, <1>7
      <4>. QED
        BY <4>1, <3>4, <2>2 DEF TabInv, TabsOwnTheirRows
    <3>5. i \in fresh \/ i \in open
      BY <1>3
    <3>6. j \in fresh \/ j \in open
      BY <1>3
    <3>7. CASE i \in fresh /\ j \in open
      BY <3>7, <3>2, <2>1, <2>2
    <3>8. CASE i \in open /\ j \in fresh
      BY <3>8, <3>2, <2>1, <2>2
    <3>. QED
      BY <3>3, <3>4, <3>5, <3>6, <3>7, <3>8
  <2>. QED
    BY <2>1, <2>2, <1>10 DEF TabsOwnTheirRows
<1>22. open \subseteq open'
  BY <1>3
<1>23. \A i \in open : Running(i) => Running(i)'
  BY <1>6, <1>7, <1>22 DEF Running
<1>24. TabInv'
  BY <1>12, <1>13, <1>14, <1>15, <1>16, <1>17, <1>18, <1>19, <1>20, <1>21 DEF TabInv
<1>. QED
  BY <1>22, <1>23, <1>24

\* What a workspace comes back with, or starts with, is sound.
LEMMA ActivationIsSound ==
  ASSUME TabInv, NEW ws \in Workspace, NEW new \in ActivationTabs(ws)
  PROVE  AllSound(new, ws)
<1>. DEFINE own == {r \in rows : r.ws = ws}
            saved == SetToSeq(own)
            back == [n \in DOMAIN saved |-> Restored(saved[n])]
<1>1. IsFiniteSet(own)
  BY FS_Subset DEF TabInv, RowsOnce
<1>2. /\ Len(saved) \in Nat /\ DOMAIN saved = 1 .. Len(saved) /\ saved \in Seq(own)
      /\ \A j, k \in 1 .. Len(saved) : saved[j] = saved[k] => j = k
  BY <1>1, SetToSeqProperties
<1>3. AllSound(<<>>, ws) /\ \A m \in BOOLEAN : AllSound(<<NewAgent(m)>>, ws)
  BY NewTabsAreSound, FewAreSound
<1>4. CASE ws \in sessions
  <2>1. new = <<>>
    BY <1>4 DEF ActivationTabs
  <2>. QED
    BY <2>1, <1>3
<1>5. CASE ws \notin sessions /\ saved # <<>>
  <2>1. new = back
    BY <1>5 DEF ActivationTabs
  <2>2. ASSUME NEW k \in 1 .. Len(saved)
        PROVE  /\ Restored(saved[k]) \in NewTab /\ Sound(Restored(saved[k]), ws)
               /\ Restored(saved[k]).tab.tab_db_id = saved[k].row /\ ~Asks(Restored(saved[k]))
               /\ saved[k] \in rows
    <3>1. saved[k] \in own
      BY <1>2, ElementOfSeq
    <3>2. saved[k] \in [row : Row, ws : {ws}] /\ saved[k] \in rows
      BY <3>1 DEF TabInv, TypeOK
    <3>. QED
      BY <3>2, <1>5, NewTabsAreSound
  <2>. HIDE DEF saved
  <2>3. back \in Seq(NewTab) /\ Len(back) = Len(saved) /\ \A k \in 1 .. Len(saved) : back[k] = Restored(saved[k])
    <3>1. back \in [1 .. Len(saved) -> NewTab]
      BY <1>2, <2>2
    <3>. QED
      BY <3>1, <1>2, LenProperties
  <2>4. \A j, k \in 1 .. Len(saved) : saved[j].row = saved[k].row => j = k
    <3>1. \A r, s \in rows : r.row = s.row => r = s
      BY DEF TabInv, RowsOnce
    <3>. QED
      BY <3>1, <1>2, <2>2
  <2>. HIDE DEF back
  <2>5. \A k \in 1 .. Len(back) : Sound(back[k], ws) /\ ~Asks(back[k]) /\ back[k].tab.tab_db_id = saved[k].row
    BY <2>2, <2>3
  <2>6. \A j, k \in 1 .. Len(back) : back[j].tab.tab_db_id = back[k].tab.tab_db_id => j = k
    BY <2>3, <2>4, <2>5
  <2>7. AllSound(back, ws)
    BY <2>3, <2>5, <2>6 DEF AllSound
  <2>. QED
    BY <2>1, <2>7
<1>6. CASE ws \notin sessions /\ saved = <<>>
  <2>1. new \in {<<>>, <<NewAgent(FALSE)>>, <<NewAgent(TRUE)>>}
    BY <1>6 DEF ActivationTabs
  <2>. QED
    BY <2>1, <1>3
<1>. QED
  BY <1>4, <1>5, <1>6

\* A step takes no tab out of its session and leaves its bus, and stops or closes no agent
\* and leaves one of its guest shells.
ClosesCleanly ==
  /\ \A i \in open \ open' : i \notin pty_map'
  /\ \A i \in open : Running(i) /\ ~Running(i)' => Children(i)' = {}

\* The handlers that open tabs.
LEMMA OpeningKeeps ==
  ASSUME TabInv,
         \/ \E ws \in Workspace : ActivateWorkspace(ws) \/ RemoteCreateTab(ws)
         \/ OpenAgentTab \/ OpenHostShellTab
         \/ \E i \in Id : OpenShellTab(i) \/ ForkTab(i)
  PROVE  TabInv' /\ ClosesCleanly
<1>0. ASSUME NEW ws \in Workspace, NEW new, AllSound(new, ws), NEW prompt \in {0, missing_secrets_prompt},
             Adds(ws, new, prompt), active_workspace_id' = ws, sessions' = sessions \cup {ws},
             pending_close' = pending_close, UNCHANGED db
      PROVE  TabInv' /\ ClosesCleanly
  BY <1>0, AddsKeep DEF ClosesCleanly
<1>1. \A ws : PromptOnSwitch(ws) \in {0, missing_secrets_prompt}
  BY DEF PromptOnSwitch
<1>2. ASSUME NEW ws \in Workspace, ActivateWorkspace(ws)
      PROVE  TabInv' /\ ClosesCleanly
  <2>1. PICK new \in ActivationTabs(ws) : Adds(ws, new, PromptOnSwitch(ws))
    BY <1>2 DEF ActivateWorkspace
  <2>2. AllSound(new, ws)
    BY ActivationIsSound
  <2>. QED
    BY <1>0, <1>1, <1>2, <2>1, <2>2 DEF ActivateWorkspace
<1>3. ASSUME NEW ws \in Workspace, RemoteCreateTab(ws)
      PROVE  TabInv' /\ ClosesCleanly
  <2>. DEFINE parents == {p \in open : Running(p) /\ made[p].ws = ws}
              wanted == {<<>>} \cup {<<NewAgent(m)>> : m \in BOOLEAN}
                \cup {<<GuestShell(p)>> : p \in parents} \cup {<<HostShell>>, <<NoShell>>}
              firsts == IF active_workspace_id = ws THEN {<<>>} ELSE ActivationTabs(ws)
  <2>1. PICK first \in firsts, w \in wanted : Adds(ws, first \o w, PromptOnSwitch(ws))
    BY <1>3 DEF RemoteCreateTab
  <2>2. AllSound(first, ws)
    BY ActivationIsSound, NewTabsAreSound, FewAreSound
  <2>3. /\ active_workspace_id' = ws /\ sessions' = sessions \cup {ws} /\ pending_close' = pending_close
        /\ UNCHANGED db
    BY <1>3 DEF RemoteCreateTab
  <2>4. w = <<>> \/ \E t \in NewTab : w = <<t>> /\ Sound(t, ws) /\ t.tab.tab_db_id = 0
    <3>1. CASE \E m \in BOOLEAN : w = <<NewAgent(m)>>
      BY <3>1, NewTabsAreSound
    <3>2. CASE w \in {<<HostShell>>, <<NoShell>>}
      BY <3>2, NewTabsAreSound
    <3>3. CASE \E p \in parents : w = <<GuestShell(p)>>
      <4>1. PICK p \in parents : w = <<GuestShell(p)>>
        BY <3>3
      <4>2. p \in Id /\ made[p].kind # "none" /\ made[p].ws = ws
        BY DEF Running, TabInv, TypeOK
      <4>. QED
        BY <4>1, <4>2, NewTabsAreSound
    <3>. QED
      BY <3>1, <3>2, <3>3
  <2>5. AllSound(first \o w, ws)
    <3>1. CASE w = <<>>
      BY <3>1, <2>2, OneMoreIsSound, NewTabsAreSound
    <3>2. CASE \E t \in NewTab : w = <<t>> /\ Sound(t, ws) /\ t.tab.tab_db_id = 0
      BY <3>2, <2>2, OneMoreIsSound
    <3>. QED
      BY <3>1, <3>2, <2>4
  <2>. QED
    BY <1>0, <1>1, <2>1, <2>3, <2>5
<1>4. ASSUME NEW t \in NewTab, Sound(t, active_workspace_id), Opens(t)
      PROVE  TabInv' /\ ClosesCleanly
  <2>1. active_workspace_id \in sessions /\ active_workspace_id \in Workspace
    BY <1>4 DEF Opens, TabInv, TypeOK
  <2>2. AllSound(<<t>>, active_workspace_id)
    BY <1>4, FewAreSound
  <2>3. sessions' = sessions \cup {active_workspace_id} /\ active_workspace_id' = active_workspace_id
        /\ pending_close' = pending_close /\ UNCHANGED db
        /\ Adds(active_workspace_id, <<t>>, missing_secrets_prompt)
    BY <1>4, <2>1 DEF Opens
  <2>. QED
    BY <1>0, <2>1, <2>2, <2>3
<1>5. ASSUME OpenAgentTab PROVE TabInv' /\ ClosesCleanly
  BY <1>4, <1>5, NewTabsAreSound DEF OpenAgentTab
<1>6. ASSUME OpenHostShellTab PROVE TabInv' /\ ClosesCleanly
  BY <1>4, <1>6, NewTabsAreSound DEF OpenHostShellTab
<1>7. ASSUME NEW p \in Id, OpenShellTab(p) PROVE TabInv' /\ ClosesCleanly
  <2>1. made[p].kind # "none" /\ made[p].ws = active_workspace_id /\ Opens(GuestShell(p))
    BY <1>7 DEF OpenShellTab, Visible, Running
  <2>. QED
    BY <1>4, <2>1, NewTabsAreSound
<1>8. ASSUME NEW i \in Id, ForkTab(i) PROVE TabInv' /\ ClosesCleanly
  BY <1>5, <1>8 DEF ForkTab
<1>. QED
  BY <1>2, <1>3, <1>5, <1>6, <1>7, <1>8

-----------------------------------------------------------------------------
(* Steps that concern one tab                                              *)

\* The invariant of one tab.
AtTab(i) ==
  /\ made[i].kind \in {"shell", "host"} =>
       /\ tab[i].terminal /\ ~tab[i].setup_steps /\ ~tab[i].checkpointing
       /\ ~tab[i].checkpoint_name /\ tab[i].tab_db_id = 0
  /\ Boots(i) \in tasks => made[i].kind = "agent"
  /\ Shell(i) \in tasks => made[i].kind = "shell"
  /\ \A n \in 1 .. MaxSaves : Saves(i, n) \in tasks => made[i].kind = "agent" /\ Boots(i) \notin tasks
  /\ missing_secrets_prompt = i =>
       /\ made[i].kind = "agent" /\ ~tab[i].terminal /\ ~tab[i].checkpoint_name
       /\ Boots(i) \notin tasks /\ \A n \in 1 .. MaxSaves : Saves(i, n) \notin tasks
  /\ i \in open =>
       /\ tab[i].setup_steps /\ tab[i].setup_error = "none" => Boots(i) \in tasks \/ Waits(i) \in tasks
       /\ tab[i].checkpointing => \E n \in 1 .. MaxSaves : Saves(i, n) \in tasks
       /\ Boots(i) \in tasks => ~tab[i].terminal /\ ~tab[i].checkpoint_name
       /\ tab[i].terminal => i \in pty_map

\* The invariant, tab by tab.
LEMMA TabByTab ==
  TypeOK => ((\A i \in Id : AtTab(i)) <=>
    PlainInv /\ TasksFit /\ PromptInv /\ ProgressHasTask /\ BootsOnce /\ LiveTabAttachable)
<1>. SUFFICES ASSUME TypeOK
              PROVE  (\A i \in Id : AtTab(i)) <=>
                PlainInv /\ TasksFit /\ PromptInv /\ ProgressHasTask /\ BootsOnce /\ LiveTabAttachable
  OBVIOUS
<1>0. \A i \in open : i \in Id
  BY DEF TypeOK
<1>1. ASSUME \A i \in Id : AtTab(i)
      PROVE  PlainInv /\ TasksFit /\ PromptInv /\ ProgressHasTask /\ BootsOnce /\ LiveTabAttachable
  <2>1. PlainInv
    BY <1>1 DEF AtTab, PlainInv
  <2>2. TasksFit
    BY <1>1 DEF AtTab, TasksFit
  <2>3. PromptInv
    <3>1. missing_secrets_prompt # 0 => missing_secrets_prompt \in Id
      BY DEF TypeOK
    <3>. QED
      BY <1>1, <3>1 DEF AtTab, PromptInv
  <2>4. ProgressHasTask /\ BootsOnce /\ LiveTabAttachable
    BY <1>0, <1>1 DEF AtTab, ProgressHasTask, BootsOnce, LiveTabAttachable, Boots, Waits, Saves
  <2>. QED
    BY <2>1, <2>2, <2>3, <2>4
<1>2. ASSUME PlainInv, TasksFit, PromptInv, ProgressHasTask, BootsOnce, LiveTabAttachable, NEW i \in Id
      PROVE  AtTab(i)
  <2>1. i # 0
    BY DEF Id
  <2>2. missing_secrets_prompt = i =>
          /\ made[i].kind = "agent" /\ ~tab[i].terminal /\ ~tab[i].checkpoint_name
          /\ Boots(i) \notin tasks /\ \A n \in 1 .. MaxSaves : Saves(i, n) \notin tasks
    BY <1>2, <2>1 DEF PromptInv
  <2>3. i \in open =>
          /\ tab[i].setup_steps /\ tab[i].setup_error = "none" => Boots(i) \in tasks \/ Waits(i) \in tasks
          /\ tab[i].checkpointing => \E n \in 1 .. MaxSaves : Saves(i, n) \in tasks
          /\ Boots(i) \in tasks => ~tab[i].terminal /\ ~tab[i].checkpoint_name
          /\ tab[i].terminal => i \in pty_map
    BY <1>2 DEF ProgressHasTask, BootsOnce, LiveTabAttachable, Boots, Waits, Saves
  <2>4. /\ Boots(i) \in tasks => made[i].kind = "agent"
        /\ Shell(i) \in tasks => made[i].kind = "shell"
        /\ \A n \in 1 .. MaxSaves : Saves(i, n) \in tasks => made[i].kind = "agent" /\ Boots(i) \notin tasks
    BY <1>2 DEF TasksFit
  <2>5. made[i].kind \in {"shell", "host"} =>
          /\ tab[i].terminal /\ ~tab[i].setup_steps /\ ~tab[i].checkpointing
          /\ ~tab[i].checkpoint_name /\ tab[i].tab_db_id = 0
    BY <1>2 DEF PlainInv
  <2>. QED
    BY <2>2, <2>3, <2>4, <2>5 DEF AtTab
<1>. QED
  BY <1>1, <1>2

\* The same of the state a step leads to.
LEMMA TabByTabAfter ==
  TypeOK' => ((\A i \in Id : AtTab(i))' <=>
    (PlainInv /\ TasksFit /\ PromptInv /\ ProgressHasTask /\ BootsOnce /\ LiveTabAttachable)')
BY TabByTab, PTL

\* What is in flight for a tab is what it was.
SameTasks(j) ==
  /\ Boots(j) \in tasks' <=> Boots(j) \in tasks
  /\ Waits(j) \in tasks' <=> Waits(j) \in tasks
  /\ Shell(j) \in tasks' <=> Shell(j) \in tasks
  /\ \A n \in 1 .. MaxSaves : Saves(j, n) \in tasks' <=> Saves(j, n) \in tasks

\* A step that changes one tab and closes some keeps the invariant if it keeps that tab's.
LEMMA OneTabKeeps ==
  ASSUME TabInv, NEW i \in Id, AtTab(i)', TypeOK', RowsOnce',
         made' = made, next_tab_id' = next_tab_id,
         missing_secrets_prompt' \in {0, missing_secrets_prompt},
         \A j \in Id \ {i} : tab'[j] = tab[j] /\ SameTasks(j),
         \A j \in Id \ {i} : j \in open' => j \in open /\ (j \in pty_map => j \in pty_map'),
         \A r \in rows : r \in rows' \/ (i \in open \ open' /\ r.row = tab[i].tab_db_id),
         i \in open' =>
           \/ tab'[i].tab_db_id = 0
           \/ i \in open /\ tab'[i].tab_db_id = tab[i].tab_db_id
           \/ /\ [row |-> tab'[i].tab_db_id, ws |-> made[i].ws] \in rows'
              /\ \A r \in rows : r.row # tab'[i].tab_db_id
  PROVE  TabInv'
<1>1. \A j \in Id : AtTab(j)
  BY TabByTab DEF TabInv
<1>2. \A j \in Id \ {i} : AtTab(j)'
  <2>. SUFFICES ASSUME NEW j \in Id \ {i} PROVE AtTab(j)'
    OBVIOUS
  <2>1. AtTab(j) /\ tab'[j] = tab[j] /\ SameTasks(j)
    BY <1>1
  <2>2. missing_secrets_prompt' = j => missing_secrets_prompt = j
    BY DEF Id
  <2>3. Boots(j)' = Boots(j) /\ Waits(j)' = Waits(j) /\ Shell(j)' = Shell(j)
        /\ \A n \in 1 .. MaxSaves : Saves(j, n)' = Saves(j, n)
    BY DEF Boots, Waits, Shell, Saves
  <2>4. j \in open' => j \in open /\ (j \in pty_map => j \in pty_map')
    OBVIOUS
  <2>. QED
    BY <2>1, <2>2, <2>3, <2>4 DEF AtTab, SameTasks
<1>3. (PlainInv /\ TasksFit /\ PromptInv /\ ProgressHasTask /\ BootsOnce /\ LiveTabAttachable)'
  <2>1. \A j \in Id : AtTab(j)'
    BY <1>2
  <2>2. (\A j \in Id : AtTab(j))'
    BY <2>1
  <2>. QED
    BY <2>2, TabByTabAfter
<1>4. FamilyInv'
  BY DEF TabInv, FamilyInv
<1>5. TabsOwnTheirRows'
  <2>1. ASSUME NEW j \in open', j # i
        PROVE  j \in open /\ tab'[j] = tab[j]
    BY <2>1 DEF TypeOK
  <2>2. ASSUME NEW j \in open', tab'[j].tab_db_id # 0
        PROVE  [row |-> tab'[j].tab_db_id, ws |-> made[j].ws] \in rows'
    <3>1. CASE j # i
      <4>1. j \in open /\ tab'[j] = tab[j] /\ [row |-> tab[j].tab_db_id, ws |-> made[j].ws] \in rows
        BY <3>1, <2>1, <2>2 DEF TabInv, TabsOwnTheirRows
      <4>2. i \in open => tab[i].tab_db_id # tab[j].tab_db_id
        BY <3>1, <4>1, <2>2 DEF TabInv, TabsOwnTheirRows
      <4>3. [row |-> tab[j].tab_db_id, ws |-> made[j].ws].row = tab[j].tab_db_id
        OBVIOUS
      <4>. QED
        BY <4>1, <4>2, <4>3
    <3>2. CASE j = i
      <4>1. \A r \in rows : r \in rows'
        BY <3>2
      <4>. QED
        BY <3>2, <4>1, <2>2 DEF TabInv, TabsOwnTheirRows
    <3>. QED
      BY <3>1, <3>2
  <2>3. ASSUME NEW j \in open', NEW k \in open' \ {j}, tab'[j].tab_db_id # 0, tab'[j].tab_db_id = tab'[k].tab_db_id
        PROVE  FALSE
    <3>1. ASSUME NEW o \in open', o # i, i \in open', tab'[o].tab_db_id # 0, tab'[i].tab_db_id = tab'[o].tab_db_id
          PROVE  FALSE
      <4>1. o \in open /\ tab'[o] = tab[o]
        BY <2>1, <3>1
      <4>2. [row |-> tab[o].tab_db_id, ws |-> made[o].ws] \in rows
        BY <4>1, <3>1 DEF TabInv, TabsOwnTheirRows
      <4>3. i \in open /\ tab'[i].tab_db_id = tab[i].tab_db_id
        BY <4>1, <4>2, <3>1
      <4>. QED
        BY <4>1, <4>3, <3>1 DEF TabInv, TabsOwnTheirRows
    <3>2. CASE j # i /\ k # i
      BY <3>2, <2>1, <2>3 DEF TabInv, TabsOwnTheirRows
    <3>. QED
      BY <3>1, <3>2, <2>3
  <2>. QED
    BY <2>2, <2>3 DEF TabsOwnTheirRows
<1>. QED
  BY <1>3, <1>4, <1>5 DEF TabInv

\* What the handlers do to a tab's record.
LEMMA TabBecomes ==
  ASSUME NEW t \in TerminalTab
  PROVE  /\ LET q == [t EXCEPT !.terminal = TRUE] IN
              /\ q \in TerminalTab /\ q.terminal /\ q.setup_error = t.setup_error /\ q.tab_db_id = t.tab_db_id
              /\ (q.setup_steps <=> t.setup_steps) /\ (q.checkpointing <=> t.checkpointing)
              /\ (q.checkpoint_name <=> t.checkpoint_name)
         /\ LET q == [t EXCEPT !.setup_error = "failed"] IN
              /\ q \in TerminalTab /\ q.setup_error = "failed" /\ q.tab_db_id = t.tab_db_id
              /\ (q.setup_steps <=> t.setup_steps) /\ (q.checkpointing <=> t.checkpointing)
              /\ (q.checkpoint_name <=> t.checkpoint_name) /\ (q.terminal <=> t.terminal)
         /\ LET q == [t EXCEPT !.setup_steps = FALSE, !.setup_error = "none"] IN
              /\ q \in TerminalTab /\ ~q.setup_steps /\ q.tab_db_id = t.tab_db_id
              /\ (q.checkpointing <=> t.checkpointing)
              /\ (q.checkpoint_name <=> t.checkpoint_name) /\ (q.terminal <=> t.terminal)
         /\ LET q == [t EXCEPT !.setup_error = "none", !.setup_steps = TRUE] IN
              /\ q \in TerminalTab /\ q.setup_steps /\ q.tab_db_id = t.tab_db_id
              /\ (q.checkpointing <=> t.checkpointing)
              /\ (q.checkpoint_name <=> t.checkpoint_name) /\ (q.terminal <=> t.terminal)
         /\ LET q == [t EXCEPT !.checkpointing = FALSE] IN
              /\ q \in TerminalTab /\ ~q.checkpointing /\ q.tab_db_id = t.tab_db_id /\ q.setup_error = t.setup_error
              /\ (q.setup_steps <=> t.setup_steps)
              /\ (q.checkpoint_name <=> t.checkpoint_name) /\ (q.terminal <=> t.terminal)
         /\ LET q == [t EXCEPT !.checkpointing = TRUE] IN
              /\ q \in TerminalTab /\ q.checkpointing /\ q.tab_db_id = t.tab_db_id /\ q.setup_error = t.setup_error
              /\ (q.setup_steps <=> t.setup_steps)
              /\ (q.checkpoint_name <=> t.checkpoint_name) /\ (q.terminal <=> t.terminal)
<1>1. LET q == [t EXCEPT !.terminal = TRUE] IN
              /\ q \in TerminalTab /\ q.terminal /\ q.setup_error = t.setup_error /\ q.tab_db_id = t.tab_db_id
              /\ (q.setup_steps <=> t.setup_steps) /\ (q.checkpointing <=> t.checkpointing)
              /\ (q.checkpoint_name <=> t.checkpoint_name)
  BY DEF TerminalTab
<1>2. LET q == [t EXCEPT !.setup_error = "failed"] IN
              /\ q \in TerminalTab /\ q.setup_error = "failed" /\ q.tab_db_id = t.tab_db_id
              /\ (q.setup_steps <=> t.setup_steps) /\ (q.checkpointing <=> t.checkpointing)
              /\ (q.checkpoint_name <=> t.checkpoint_name) /\ (q.terminal <=> t.terminal)
  BY DEF TerminalTab
<1>3. LET q == [t EXCEPT !.setup_steps = FALSE, !.setup_error = "none"] IN
              /\ q \in TerminalTab /\ ~q.setup_steps /\ q.tab_db_id = t.tab_db_id
              /\ (q.checkpointing <=> t.checkpointing)
              /\ (q.checkpoint_name <=> t.checkpoint_name) /\ (q.terminal <=> t.terminal)
  BY DEF TerminalTab
<1>4. LET q == [t EXCEPT !.setup_error = "none", !.setup_steps = TRUE] IN
              /\ q \in TerminalTab /\ q.setup_steps /\ q.tab_db_id = t.tab_db_id
              /\ (q.checkpointing <=> t.checkpointing)
              /\ (q.checkpoint_name <=> t.checkpoint_name) /\ (q.terminal <=> t.terminal)
  BY DEF TerminalTab
<1>5. LET q == [t EXCEPT !.checkpointing = FALSE] IN
              /\ q \in TerminalTab /\ ~q.checkpointing /\ q.tab_db_id = t.tab_db_id /\ q.setup_error = t.setup_error
              /\ (q.setup_steps <=> t.setup_steps)
              /\ (q.checkpoint_name <=> t.checkpoint_name) /\ (q.terminal <=> t.terminal)
  BY DEF TerminalTab
<1>6. LET q == [t EXCEPT !.checkpointing = TRUE] IN
              /\ q \in TerminalTab /\ q.checkpointing /\ q.tab_db_id = t.tab_db_id /\ q.setup_error = t.setup_error
              /\ (q.setup_steps <=> t.setup_steps)
              /\ (q.checkpoint_name <=> t.checkpoint_name) /\ (q.terminal <=> t.terminal)
  BY DEF TerminalTab
<1>. QED
  BY <1>1, <1>2, <1>3, <1>4, <1>5, <1>6

\* A tab that stops.
LEMMA TabStops ==
  ASSUME NEW t \in TerminalTab, NEW id \in Row \cup {0}
  PROVE  LET q == [t EXCEPT !.checkpointing = FALSE, !.terminal = FALSE,
                            !.checkpoint_name = TRUE, !.tab_db_id = id] IN
           /\ q \in TerminalTab /\ ~q.checkpointing /\ ~q.terminal /\ q.checkpoint_name
           /\ q.tab_db_id = id /\ q.setup_error = t.setup_error /\ (q.setup_steps <=> t.setup_steps)
BY DEF TerminalTab

\* One task ends, and perhaps another begins: what is in flight for the other tabs stays.
LEMMA TasksOfOthers ==
  ASSUME TypeOK, NEW i \in Id, NEW what \in {"boot", "tui", "shell", "checkpoint"},
         NEW n \in 1 .. MaxSaves \cup {1},
         \/ tasks' = tasks \ {<<what, i, n>>}
         \/ tasks' = (tasks \ {<<what, i, n>>}) \cup {Waits(i)}
         \/ tasks' = tasks \cup {<<what, i, n>>}
  PROVE  /\ tasks' \subseteq {"boot", "tui", "shell", "checkpoint"} \X Id \X (1 .. MaxSaves \cup {1})
         /\ \A j \in Id \ {i} : SameTasks(j)
<1>1. /\ <<what, i, n>> \in {"boot", "tui", "shell", "checkpoint"} \X Id \X (1 .. MaxSaves \cup {1})
      /\ Waits(i) \in {"boot", "tui", "shell", "checkpoint"} \X Id \X (1 .. MaxSaves \cup {1})
      /\ tasks \subseteq {"boot", "tui", "shell", "checkpoint"} \X Id \X (1 .. MaxSaves \cup {1})
  BY DEF TypeOK, Waits
<1>2. ASSUME NEW j \in Id \ {i}
      PROVE  /\ Boots(j) # <<what, i, n>> /\ Waits(j) # <<what, i, n>> /\ Shell(j) # <<what, i, n>>
             /\ Boots(j) # Waits(i) /\ Waits(j) # Waits(i) /\ Shell(j) # Waits(i)
             /\ \A m \in 1 .. MaxSaves : Saves(j, m) # <<what, i, n>> /\ Saves(j, m) # Waits(i)
  BY DEF Boots, Waits, Shell, Saves
<1>3. ASSUME NEW j \in Id \ {i} PROVE SameTasks(j)
  <2>1. \A x : x # <<what, i, n>> /\ x # Waits(i) => (x \in tasks' <=> x \in tasks)
    OBVIOUS
  <2>. QED
    BY <2>1, <1>2 DEF SameTasks
<1>. QED
  BY <1>1, <1>3

\* A change of one open tab's record.
LEMMA TabsOfOthers ==
  ASSUME TypeOK, NEW i \in Id, NEW t \in TerminalTab,
         tab' = IF i \in open THEN [tab EXCEPT ![i] = t] ELSE tab
  PROVE  /\ tab' \in [Id -> TerminalTab]
         /\ \A j \in Id \ {i} : tab'[j] = tab[j]
         /\ tab'[i] = IF i \in open THEN t ELSE tab[i]
BY DEF TypeOK

\* A step that closes and stops nothing closes cleanly.
LEMMA NothingCloses ==
  ASSUME open \subseteq open', made' = made, \A i \in open : tab[i].terminal => tab'[i].terminal
  PROVE  ClosesCleanly
BY DEF ClosesCleanly, Running

\* What the end of a task leaves alone.
Elsewhere == <<panel, next_tab_id, made, db>>

\* The parts of the types that the end of a task can disturb.
LEMMA TypesElsewhere ==
  ASSUME TabInv, UNCHANGED Elsewhere, open' \subseteq open, pty_map' \subseteq Id,
         tab' \in [Id -> TerminalTab],
         tasks' \subseteq {"boot", "tui", "shell", "checkpoint"} \X Id \X (1 .. MaxSaves \cup {1})
  PROVE  TypeOK' /\ RowsOnce' /\ rows \subseteq rows' /\ made' = made /\ next_tab_id' = next_tab_id
         /\ missing_secrets_prompt' = missing_secrets_prompt
<1>1. TypeOK'
  BY DEF TabInv, TypeOK, Elsewhere, panel, db
<1>2. RowsOnce'
  BY DEF TabInv, RowsOnce, Elsewhere, db
<1>. QED
  BY <1>1, <1>2 DEF Elsewhere, panel, db

\* A boot that succeeds hands the tab its terminal, and goes on waiting for the screen.
LEMMA BootFinishesKeeps ==
  ASSUME TabInv, NEW i \in Id, BootFinishes(i)
  PROVE  TabInv' /\ ClosesCleanly
<1>. DEFINE t == [tab[i] EXCEPT !.terminal = TRUE]
<1>0. TypeOK /\ tab[i] \in TerminalTab /\ tab \in [Id -> TerminalTab] /\ AtTab(i)
  BY TabByTab DEF TabInv, TypeOK
<1>1. /\ t \in TerminalTab /\ t.terminal /\ t.setup_error = tab[i].setup_error /\ t.tab_db_id = tab[i].tab_db_id
      /\ (t.setup_steps <=> tab[i].setup_steps) /\ (t.checkpointing <=> tab[i].checkpointing)
      /\ (t.checkpoint_name <=> tab[i].checkpoint_name)
  BY <1>0, TabBecomes
<1>2. [tab EXCEPT ![i].terminal = TRUE] = [tab EXCEPT ![i] = t]
  BY <1>0
<1>3. Boots(i) \in tasks /\ tasks' = (tasks \ {Boots(i)}) \cup {Waits(i)}
      /\ tab' = (IF i \in open THEN [tab EXCEPT ![i] = t] ELSE tab)
      /\ pty_map' = pty_map \cup {i} /\ open' = open /\ UNCHANGED Elsewhere
  BY <1>2 DEF BootFinishes, Boots, Waits, Elsewhere
<1>. HIDE DEF t
<1>4. /\ tab' \in [Id -> TerminalTab] /\ (\A j \in Id \ {i} : tab'[j] = tab[j])
      /\ tab'[i] = IF i \in open THEN t ELSE tab[i]
  BY <1>0, <1>1, <1>3, TabsOfOthers
<1>5. /\ tasks' \subseteq {"boot", "tui", "shell", "checkpoint"} \X Id \X (1 .. MaxSaves \cup {1})
      /\ \A j \in Id \ {i} : SameTasks(j)
  BY <1>0, <1>3, TasksOfOthers DEF Boots
<1>6. /\ Boots(i) \notin tasks' /\ Waits(i) \in tasks' /\ (Shell(i) \in tasks' <=> Shell(i) \in tasks)
      /\ \A n \in 1 .. MaxSaves : Saves(i, n) \in tasks' <=> Saves(i, n) \in tasks
  BY <1>3 DEF Boots, Waits, Shell, Saves
<1>7. TypeOK' /\ RowsOnce' /\ rows \subseteq rows' /\ made' = made /\ next_tab_id' = next_tab_id
      /\ missing_secrets_prompt' = missing_secrets_prompt
  BY <1>3, <1>4, <1>5, TypesElsewhere DEF TabInv, TypeOK
<1>8. AtTab(i)'
  <2>1. made[i].kind = "agent" /\ missing_secrets_prompt # i
    BY <1>0, <1>3 DEF AtTab
  <2>2. Boots(i)' = Boots(i) /\ Waits(i)' = Waits(i) /\ Shell(i)' = Shell(i)
        /\ \A n \in 1 .. MaxSaves : Saves(i, n)' = Saves(i, n)
    BY DEF Boots, Waits, Shell, Saves
  <2>. QED
    BY <2>1, <2>2, <1>0, <1>1, <1>3, <1>4, <1>6, <1>7 DEF AtTab
<1>9. i \in open => tab'[i].tab_db_id = tab[i].tab_db_id
  BY <1>1, <1>4
<1>10. TabInv'
  BY <1>3, <1>4, <1>5, <1>7, <1>8, <1>9, OneTabKeeps
<1>11. ClosesCleanly
  BY <1>0, <1>1, <1>3, <1>4, <1>7, NothingCloses DEF TypeOK
<1>. QED
  BY <1>10, <1>11

\* The end of a task that leaves every terminal as it is.
LEMMA TaskEndKeeps ==
  ASSUME TabInv, NEW i \in Id, NEW what \in {"boot", "tui", "shell", "checkpoint"},
         NEW n \in 1 .. MaxSaves \cup {1}, tasks' = tasks \ {<<what, i, n>>},
         NEW t \in TerminalTab, t.tab_db_id = tab[i].tab_db_id, t.terminal <=> tab[i].terminal,
         tab' = IF i \in open THEN [tab EXCEPT ![i] = t] ELSE tab,
         open' = open, pty_map' = pty_map, UNCHANGED Elsewhere, AtTab(i)'
  PROVE  TabInv' /\ ClosesCleanly
<1>0. TypeOK /\ tab \in [Id -> TerminalTab]
  BY DEF TabInv, TypeOK
<1>1. /\ tab' \in [Id -> TerminalTab] /\ (\A j \in Id \ {i} : tab'[j] = tab[j])
      /\ tab'[i] = IF i \in open THEN t ELSE tab[i]
  BY <1>0, TabsOfOthers
<1>2. /\ tasks' \subseteq {"boot", "tui", "shell", "checkpoint"} \X Id \X (1 .. MaxSaves \cup {1})
      /\ \A j \in Id \ {i} : SameTasks(j)
  BY <1>0, TasksOfOthers
<1>3. TypeOK' /\ RowsOnce' /\ rows \subseteq rows' /\ made' = made /\ next_tab_id' = next_tab_id
      /\ missing_secrets_prompt' = missing_secrets_prompt
  BY <1>1, <1>2, TypesElsewhere DEF TabInv, TypeOK
<1>4. i \in open => tab'[i].tab_db_id = tab[i].tab_db_id
  BY <1>1
<1>5. TabInv'
  BY <1>1, <1>2, <1>3, <1>4, OneTabKeeps
<1>6. ClosesCleanly
  BY <1>0, <1>1, <1>3, NothingCloses DEF TypeOK
<1>. QED
  BY <1>5, <1>6

\* A boot that fails says so on its tab.
LEMMA BootFailsKeeps ==
  ASSUME TabInv, NEW i \in Id, BootFails(i)
  PROVE  TabInv' /\ ClosesCleanly
<1>. DEFINE t == [tab[i] EXCEPT !.setup_error = "failed"]
<1>0. TypeOK /\ tab[i] \in TerminalTab /\ tab \in [Id -> TerminalTab] /\ AtTab(i)
  BY TabByTab DEF TabInv, TypeOK
<1>1. /\ t \in TerminalTab /\ t.setup_error = "failed" /\ t.tab_db_id = tab[i].tab_db_id
      /\ (t.setup_steps <=> tab[i].setup_steps) /\ (t.checkpointing <=> tab[i].checkpointing)
      /\ (t.checkpoint_name <=> tab[i].checkpoint_name) /\ (t.terminal <=> tab[i].terminal)
  BY <1>0, TabBecomes
<1>2. [tab EXCEPT ![i].setup_error = "failed"] = [tab EXCEPT ![i] = t]
  BY <1>0
<1>3. /\ tasks' = tasks \ {<<"boot", i, 1>>} /\ open' = open /\ pty_map' = pty_map /\ UNCHANGED Elsewhere
      /\ tab' = (IF i \in open THEN [tab EXCEPT ![i] = t] ELSE tab)
  BY <1>2 DEF BootFails, Elsewhere
<1>. HIDE DEF t
<1>4. tab'[i] = IF i \in open THEN t ELSE tab[i]
  BY <1>0, <1>1, <1>3, TabsOfOthers
<1>5. /\ Boots(i) \notin tasks' /\ (Waits(i) \in tasks' <=> Waits(i) \in tasks) /\ (Shell(i) \in tasks' <=> Shell(i) \in tasks)
      /\ \A n \in 1 .. MaxSaves : Saves(i, n) \in tasks' <=> Saves(i, n) \in tasks
  BY <1>3 DEF Boots, Waits, Shell, Saves
<1>6. made' = made /\ missing_secrets_prompt' = missing_secrets_prompt
  BY <1>3 DEF Elsewhere, panel
<1>7. AtTab(i)'
  <2>2. Boots(i)' = Boots(i) /\ Waits(i)' = Waits(i) /\ Shell(i)' = Shell(i)
        /\ \A n \in 1 .. MaxSaves : Saves(i, n)' = Saves(i, n)
    BY DEF Boots, Waits, Shell, Saves
  <2>. QED
    BY <2>2, <1>0, <1>1, <1>3, <1>4, <1>5, <1>6 DEF AtTab
<1>. QED
  BY <1>1, <1>3, <1>7, TaskEndKeeps

\* The screen is there: setup is over.
LEMMA TuiReadyKeeps ==
  ASSUME TabInv, NEW i \in Id, TuiReady(i)
  PROVE  TabInv' /\ ClosesCleanly
<1>. DEFINE t == [tab[i] EXCEPT !.setup_steps = FALSE, !.setup_error = "none"]
<1>0. TypeOK /\ tab[i] \in TerminalTab /\ tab \in [Id -> TerminalTab] /\ AtTab(i)
  BY TabByTab DEF TabInv, TypeOK
<1>1. /\ t \in TerminalTab /\ ~t.setup_steps /\ t.tab_db_id = tab[i].tab_db_id
      /\ (t.checkpointing <=> tab[i].checkpointing)
      /\ (t.checkpoint_name <=> tab[i].checkpoint_name) /\ (t.terminal <=> tab[i].terminal)
  BY <1>0, TabBecomes
<1>2. [tab EXCEPT ![i].setup_steps = FALSE, ![i].setup_error = "none"] = [tab EXCEPT ![i] = t]
  BY <1>0
<1>3. /\ tasks' = tasks \ {<<"tui", i, 1>>} /\ open' = open /\ pty_map' = pty_map /\ UNCHANGED Elsewhere
      /\ tab' = (IF i \in open THEN [tab EXCEPT ![i] = t] ELSE tab)
  BY <1>2 DEF TuiReady, Elsewhere
<1>. HIDE DEF t
<1>4. tab'[i] = IF i \in open THEN t ELSE tab[i]
  BY <1>0, <1>1, <1>3, TabsOfOthers
<1>5. /\ (Boots(i) \in tasks' <=> Boots(i) \in tasks) /\ (Shell(i) \in tasks' <=> Shell(i) \in tasks)
      /\ \A n \in 1 .. MaxSaves : Saves(i, n) \in tasks' <=> Saves(i, n) \in tasks
  BY <1>3 DEF Boots, Waits, Shell, Saves
<1>6. made' = made /\ missing_secrets_prompt' = missing_secrets_prompt
  BY <1>3 DEF Elsewhere, panel
<1>6a. \/ i \in open /\ tab'[i] = t
       \/ i \notin open /\ tab'[i] = tab[i]
  BY <1>4
<1>7. AtTab(i)'
  <2>1. made[i].kind \in {"shell", "host"} =>
          /\ tab'[i].terminal /\ ~tab'[i].setup_steps /\ ~tab'[i].checkpointing
          /\ ~tab'[i].checkpoint_name /\ tab'[i].tab_db_id = 0
    BY <1>0, <1>1, <1>6a DEF AtTab
  <2>2. Boots(i)' = Boots(i) /\ Waits(i)' = Waits(i) /\ Shell(i)' = Shell(i)
        /\ \A n \in 1 .. MaxSaves : Saves(i, n)' = Saves(i, n)
    BY DEF Boots, Waits, Shell, Saves
  <2>3. i \in open' =>
       /\ ~tab'[i].setup_steps
       /\ tab'[i].checkpointing => \E n \in 1 .. MaxSaves : Saves(i, n) \in tasks'
       /\ Boots(i) \in tasks' => ~tab'[i].terminal /\ ~tab'[i].checkpoint_name
       /\ tab'[i].terminal => i \in pty_map'
    BY <1>0, <1>1, <1>3, <1>5, <1>6a DEF AtTab
  <2>. QED
    BY <2>1, <2>2, <2>3, <1>0, <1>1, <1>3, <1>6a, <1>5, <1>6 DEF AtTab
<1>. QED
  BY <1>1, <1>3, <1>7, TaskEndKeeps

\* A guest shell that does not open leaves nothing.
LEMMA ShellFailedKeeps ==
  ASSUME TabInv, NEW i \in Id, ShellFailed(i)
  PROVE  TabInv' /\ ClosesCleanly
<1>0. TypeOK /\ tab[i] \in TerminalTab /\ tab \in [Id -> TerminalTab] /\ AtTab(i)
  BY TabByTab DEF TabInv, TypeOK
<1>1. /\ tasks' = tasks \ {<<"shell", i, 1>>} /\ open' = open /\ pty_map' = pty_map /\ UNCHANGED Elsewhere
      /\ tab' = tab
  BY DEF ShellFailed, Elsewhere, tabs
<1>2. tab' = IF i \in open THEN [tab EXCEPT ![i] = tab[i]] ELSE tab
  BY <1>0, <1>1
<1>3. /\ (Boots(i) \in tasks' <=> Boots(i) \in tasks) /\ (Waits(i) \in tasks' <=> Waits(i) \in tasks)
      /\ Shell(i) \notin tasks'
      /\ \A n \in 1 .. MaxSaves : Saves(i, n) \in tasks' <=> Saves(i, n) \in tasks
  BY <1>1 DEF Boots, Waits, Shell, Saves
<1>4. made' = made /\ missing_secrets_prompt' = missing_secrets_prompt
  BY <1>1 DEF Elsewhere, panel
<1>5. AtTab(i)'
  <2>2. Boots(i)' = Boots(i) /\ Waits(i)' = Waits(i) /\ Shell(i)' = Shell(i)
        /\ \A n \in 1 .. MaxSaves : Saves(i, n)' = Saves(i, n)
    BY DEF Boots, Waits, Shell, Saves
  <2>. QED
    BY <2>2, <1>0, <1>1, <1>3, <1>4 DEF AtTab
<1>. QED
  BY <1>0, <1>1, <1>2, <1>5, TaskEndKeeps

\* A guest shell that opens joins its session, if that is still there.
LEMMA ShellOpenedKeeps ==
  ASSUME TabInv, NEW i \in Id, ShellOpened(i)
  PROVE  TabInv' /\ ClosesCleanly
<1>0. TypeOK /\ AtTab(i)
  BY TabByTab DEF TabInv
<1>1. /\ tasks' = tasks \ {<<"shell", i, 1>>} /\ pty_map' = pty_map \cup {i} /\ UNCHANGED Elsewhere
      /\ tab' = tab /\ Shell(i) \in tasks
      /\ open' = IF made[i].ws \in sessions THEN open \cup {i} ELSE open
  BY DEF ShellOpened, Elsewhere, Shell
<1>2. /\ tasks' \subseteq {"boot", "tui", "shell", "checkpoint"} \X Id \X (1 .. MaxSaves \cup {1})
      /\ \A j \in Id \ {i} : SameTasks(j)
  BY <1>0, <1>1, TasksOfOthers
<1>3. /\ (Boots(i) \in tasks' <=> Boots(i) \in tasks) /\ (Waits(i) \in tasks' <=> Waits(i) \in tasks)
      /\ Shell(i) \notin tasks'
      /\ \A n \in 1 .. MaxSaves : Saves(i, n) \in tasks' <=> Saves(i, n) \in tasks
  BY <1>1 DEF Boots, Waits, Shell, Saves
<1>4. made' = made /\ missing_secrets_prompt' = missing_secrets_prompt /\ next_tab_id' = next_tab_id
      /\ rows' = rows /\ sessions' = sessions
  BY <1>1 DEF Elsewhere, panel, db
<1>5. made[i].kind = "shell" /\ i < next_tab_id
  BY <1>0, <1>1 DEF AtTab, TabInv, FamilyInv
<1>6. tab[i].terminal /\ ~tab[i].setup_steps /\ ~tab[i].checkpointing /\ tab[i].tab_db_id = 0
  BY <1>0, <1>5 DEF AtTab
<1>7. TypeOK'
  <2>1. open' \subseteq {j \in Id : j < next_tab_id' /\ made'[j].ws \in sessions'}
    BY <1>1, <1>4, <1>5 DEF TabInv, TypeOK
  <2>. QED
    BY <2>1, <1>1, <1>2 DEF TabInv, TypeOK, Elsewhere, panel, db
<1>8. RowsOnce'
  BY <1>1 DEF TabInv, RowsOnce, Elsewhere, db
<1>9. AtTab(i)'
  <2>2. Boots(i)' = Boots(i) /\ Waits(i)' = Waits(i) /\ Shell(i)' = Shell(i)
        /\ \A n \in 1 .. MaxSaves : Saves(i, n)' = Saves(i, n)
    BY DEF Boots, Waits, Shell, Saves
  <2>3. Boots(i) \notin tasks'
    BY <1>0, <1>3, <1>5 DEF AtTab
  <2>. QED
    BY <2>2, <2>3, <1>0, <1>1, <1>3, <1>4, <1>5, <1>6 DEF AtTab
<1>10. TabInv'
  BY <1>1, <1>2, <1>4, <1>6, <1>7, <1>8, <1>9, OneTabKeeps
<1>11. ClosesCleanly
  BY <1>1, <1>4, NothingCloses
<1>. QED
  BY <1>10, <1>11

\* A checkpoint that fails leaves the tab as it was.
LEMMA CheckpointFailsKeeps ==
  ASSUME TabInv, NEW i \in Id, NEW n \in 1 .. MaxSaves, CheckpointFails(i, n)
  PROVE  TabInv' /\ ClosesCleanly
<1>. DEFINE t == [tab[i] EXCEPT !.checkpointing = FALSE]
<1>0. TypeOK /\ tab[i] \in TerminalTab /\ tab \in [Id -> TerminalTab] /\ AtTab(i)
  BY TabByTab DEF TabInv, TypeOK
<1>1. /\ t \in TerminalTab /\ ~t.checkpointing /\ t.tab_db_id = tab[i].tab_db_id /\ t.setup_error = tab[i].setup_error
      /\ (t.setup_steps <=> tab[i].setup_steps)
      /\ (t.checkpoint_name <=> tab[i].checkpoint_name) /\ (t.terminal <=> tab[i].terminal)
  BY <1>0, TabBecomes
<1>2. [tab EXCEPT ![i].checkpointing = FALSE] = [tab EXCEPT ![i] = t]
  BY <1>0
<1>3. /\ tasks' = tasks \ {<<"checkpoint", i, n>>} /\ open' = open /\ pty_map' = pty_map /\ UNCHANGED Elsewhere
      /\ tab' = (IF i \in open THEN [tab EXCEPT ![i] = t] ELSE tab)
  BY <1>2 DEF CheckpointFails, Elsewhere
<1>. HIDE DEF t
<1>4. tab'[i] = IF i \in open THEN t ELSE tab[i]
  BY <1>0, <1>1, <1>3, TabsOfOthers
<1>5. /\ (Boots(i) \in tasks' <=> Boots(i) \in tasks) /\ (Shell(i) \in tasks' <=> Shell(i) \in tasks)
      /\ (Waits(i) \in tasks' <=> Waits(i) \in tasks)
      /\ \A m \in 1 .. MaxSaves : Saves(i, m) \in tasks' => Saves(i, m) \in tasks
  BY <1>3 DEF Boots, Waits, Shell, Saves
<1>6. made' = made /\ missing_secrets_prompt' = missing_secrets_prompt
  BY <1>3 DEF Elsewhere, panel
<1>7. AtTab(i)'
  <2>2. Boots(i)' = Boots(i) /\ Waits(i)' = Waits(i) /\ Shell(i)' = Shell(i)
        /\ \A m \in 1 .. MaxSaves : Saves(i, m)' = Saves(i, m)
    BY DEF Boots, Waits, Shell, Saves
  <2>. QED
    BY <2>2, <1>0, <1>1, <1>3, <1>4, <1>5, <1>6 DEF AtTab
<1>. QED
  BY <1>1, <1>3, <1>7, TaskEndKeeps

-----------------------------------------------------------------------------
(* Checkpoints and closing                                                 *)

\* The guest shells of an agent's tab.
LEMMA ChildrenAreShells ==
  ASSUME TabInv, NEW i \in Id
  PROVE  /\ \A c \in Children(i) : c \in open /\ made[c].kind = "shell" /\ made[c].ws = made[i].ws
         /\ made[i].kind # "shell" => i \notin Children(i)
BY DEF Children, TabInv, FamilyInv, TypeOK

\* A step that closes a tab with its guest shells, or stops it, closes cleanly.
LEMMA FamilyCloses ==
  ASSUME TabInv, NEW i \in Id, made' = made,
         open' \in {open \ Children(i), open \ ({i} \cup Children(i))},
         pty_map' = pty_map \ ({i} \cup Children(i)),
         \A j \in open \ {i} : tab'[j] = tab[j]
  PROVE  ClosesCleanly
<1>1. \A j \in open \ open' : j \notin pty_map'
  OBVIOUS
<1>2. ASSUME NEW j \in open, Running(j), ~Running(j)' PROVE Children(j)' = {}
  <2>1. CASE j = i
    BY <2>1 DEF Children
  <2>2. CASE j # i
    <3>1. j \notin Children(i)
      BY <1>2 DEF Running, Children
    <3>2. j \in open' /\ tab'[j] = tab[j]
      BY <2>2, <3>1
    <3>. QED
      BY <1>2, <3>2 DEF Running
  <2>. QED
    BY <2>1, <2>2
<1>. QED
  BY <1>1, <1>2 DEF ClosesCleanly

\* A checkpoint that succeeds stops its tab, saves it or not, and closes its shells.
LEMMA CheckpointFinishesKeeps ==
  ASSUME TabInv, NEW i \in Id, NEW n \in 1 .. MaxSaves, CheckpointFinishes(i, n)
  PROVE  TabInv' /\ ClosesCleanly
<1>0. TypeOK /\ tab[i] \in TerminalTab /\ tab \in [Id -> TerminalTab] /\ AtTab(i)
  BY TabByTab DEF TabInv, TypeOK
<1>1. PICK id \in {0} \cup (IF made[i].ws \in workspaces THEN {next_row} \cap Row ELSE {}) :
       /\ rows' = IF id = 0 THEN rows ELSE rows \cup {[row |-> id, ws |-> made[i].ws]}
       /\ next_row' = IF id = 0 THEN next_row ELSE next_row + 1
       /\ tab' = IF i \notin open THEN tab ELSE
                 [tab EXCEPT ![i].checkpointing = FALSE, ![i].terminal = FALSE,
                             ![i].checkpoint_name = TRUE, ![i].tab_db_id = id]
  BY DEF CheckpointFinishes
<1>2. /\ id \in Row \cup {0} /\ (id # 0 => id = next_row /\ id \in Row /\ made[i].ws \in workspaces)
  BY <1>1
<1>. DEFINE t == [tab[i] EXCEPT !.checkpointing = FALSE, !.terminal = FALSE,
                                !.checkpoint_name = TRUE, !.tab_db_id = id]
<1>3. /\ t \in TerminalTab /\ ~t.checkpointing /\ ~t.terminal /\ t.checkpoint_name
      /\ t.tab_db_id = id /\ t.setup_error = tab[i].setup_error /\ (t.setup_steps <=> tab[i].setup_steps)
  BY <1>0, <1>2, TabStops
<1>4. [tab EXCEPT ![i].checkpointing = FALSE, ![i].terminal = FALSE,
                  ![i].checkpoint_name = TRUE, ![i].tab_db_id = id] = [tab EXCEPT ![i] = t]
  BY <1>0
<1>5. tab' = IF i \in open THEN [tab EXCEPT ![i] = t] ELSE tab
  BY <1>1, <1>4
<1>. HIDE DEF t
<1>6. /\ tasks' = tasks \ {<<"checkpoint", i, n>>} /\ Saves(i, n) \in tasks
      /\ pty_map' = pty_map \ ({i} \cup Children(i)) /\ open' = open \ Children(i)
      /\ made' = made /\ next_tab_id' = next_tab_id /\ workspaces' = workspaces /\ UNCHANGED panel
  BY DEF CheckpointFinishes, Saves
<1>7. /\ tab' \in [Id -> TerminalTab] /\ (\A j \in Id \ {i} : tab'[j] = tab[j])
      /\ tab'[i] = IF i \in open THEN t ELSE tab[i]
  BY <1>0, <1>3, <1>5, TabsOfOthers
<1>8. /\ tasks' \subseteq {"boot", "tui", "shell", "checkpoint"} \X Id \X (1 .. MaxSaves \cup {1})
      /\ \A j \in Id \ {i} : SameTasks(j)
  BY <1>0, <1>6, TasksOfOthers
<1>9. /\ (Boots(i) \in tasks' <=> Boots(i) \in tasks) /\ (Shell(i) \in tasks' <=> Shell(i) \in tasks)
      /\ (Waits(i) \in tasks' <=> Waits(i) \in tasks)
      /\ \A m \in 1 .. MaxSaves : Saves(i, m) \in tasks' => Saves(i, m) \in tasks
  BY <1>6 DEF Boots, Waits, Shell, Saves
<1>10. made[i].kind = "agent" /\ Boots(i) \notin tasks /\ missing_secrets_prompt # i
  BY <1>0, <1>6 DEF AtTab
<1>11. i \notin Children(i) /\ (i \in open <=> i \in open')
  BY <1>6, <1>10, ChildrenAreShells
<1>12. AtTab(i)'
  <2>1. Boots(i)' = Boots(i) /\ Waits(i)' = Waits(i) /\ Shell(i)' = Shell(i)
        /\ \A m \in 1 .. MaxSaves : Saves(i, m)' = Saves(i, m)
    BY DEF Boots, Waits, Shell, Saves
  <2>2. missing_secrets_prompt' = missing_secrets_prompt
    BY <1>6 DEF panel
  <2>. QED
    BY <2>1, <2>2, <1>0, <1>3, <1>6, <1>7, <1>9, <1>10, <1>11 DEF AtTab
<1>13. next_row \in Nat /\ next_row' \in Nat /\ next_row <= next_row' /\ \A r \in rows : r.row \in Nat /\ r.row < next_row
  BY <1>1 DEF TabInv, TypeOK, RowsOnce, Row
<1>14. TypeOK'
  <2>1. rows' \subseteq [row : Row, ws : Workspace]
    BY <1>1, <1>2 DEF TabInv, TypeOK
  <2>. QED
    BY <2>1, <1>6, <1>7, <1>8, <1>13 DEF TabInv, TypeOK, panel
<1>15. RowsOnce'
  <2>1. CASE id = 0
    BY <2>1, <1>1 DEF TabInv, RowsOnce
  <2>2. CASE id # 0
    <3>. DEFINE new == [row |-> id, ws |-> made[i].ws]
    <3>1. rows' = rows \cup {new} /\ next_row' = next_row + 1 /\ new.row = next_row
      BY <2>2, <1>1, <1>2
    <3>2. IsFiniteSet(rows')
      BY <3>1, FS_AddElement DEF TabInv, RowsOnce
    <3>. HIDE DEF new
    <3>3. \A r \in rows' : r.row < next_row'
      BY <3>1, <1>13
    <3>4. \A r \in rows : r.row # new.row
      BY <3>1, <1>13
    <3>5. \A r, s \in rows' : r.row = s.row => r = s
      BY <3>1, <3>4 DEF TabInv, RowsOnce
    <3>. QED
      BY <3>2, <3>3, <3>5 DEF RowsOnce
  <2>. QED
    BY <2>1, <2>2
<1>16. i \in open' =>
         \/ tab'[i].tab_db_id = 0
         \/ /\ [row |-> tab'[i].tab_db_id, ws |-> made[i].ws] \in rows'
            /\ \A r \in rows : r.row # tab'[i].tab_db_id
  <2>1. i \in open => tab'[i].tab_db_id = id
    BY <1>3, <1>7
  <2>2. id # 0 => \A r \in rows : r.row # id
    BY <1>2, <1>13
  <2>3. id # 0 => [row |-> id, ws |-> made[i].ws] \in rows'
    BY <1>1
  <2>. QED
    BY <2>1, <2>2, <2>3, <1>11
<1>17. rows \subseteq rows' /\ missing_secrets_prompt' = missing_secrets_prompt
  BY <1>1, <1>6 DEF panel
<1>18. TabInv'
  BY <1>6, <1>7, <1>8, <1>12, <1>14, <1>15, <1>16, <1>17, OneTabKeeps
<1>19. ClosesCleanly
  <2>1. \A j \in open \ {i} : tab'[j] = tab[j]
    BY <1>0, <1>7 DEF TypeOK
  <2>. QED
    BY <2>1, <1>6, FamilyCloses
<1>. QED
  BY <1>18, <1>19

\* A tab closes with its guest shells; its row may go with it.
LEMMA ForceCloseKeeps ==
  ASSUME TabInv, NEW i \in Id, ForceCloseTab(i), workspaces' = workspaces, next_row' = next_row,
         \/ rows' = rows
         \/ i \in open /\ rows' = {r \in rows : r.row # tab[i].tab_db_id}
  PROVE  TabInv' /\ ClosesCleanly
<1>0. TypeOK /\ AtTab(i)
  BY TabByTab DEF TabInv
<1>1. /\ pty_map' = pty_map \ ({i} \cup Children(i)) /\ open' = open \ ({i} \cup Children(i))
      /\ active_workspace_id' = active_workspace_id /\ sessions' = sessions
      /\ missing_secrets_prompt' = missing_secrets_prompt /\ next_tab_id' = next_tab_id
      /\ made' = made /\ tab' = tab /\ tasks' = tasks /\ pending_close' = 0
  BY DEF ForceCloseTab
<1>2. TypeOK' /\ RowsOnce'
  <2>1. rows' \subseteq rows
    OBVIOUS
  <2>2. TypeOK'
    BY <2>1, <1>1 DEF TabInv, TypeOK
  <2>3. IsFiniteSet(rows')
    BY <2>1, FS_Subset DEF TabInv, RowsOnce
  <2>4. RowsOnce'
    BY <2>1, <2>3 DEF TabInv, RowsOnce
  <2>. QED
    BY <2>2, <2>4
<1>3. AtTab(i)'
  <2>1. Boots(i)' = Boots(i) /\ Waits(i)' = Waits(i) /\ Shell(i)' = Shell(i)
        /\ \A m \in 1 .. MaxSaves : Saves(i, m)' = Saves(i, m)
    BY DEF Boots, Waits, Shell, Saves
  <2>2. i \notin open'
    BY <1>1
  <2>. QED
    BY <2>1, <2>2, <1>0, <1>1 DEF AtTab
<1>4. \A j \in Id \ {i} : tab'[j] = tab[j] /\ SameTasks(j)
  BY <1>1 DEF SameTasks, Boots, Waits, Shell, Saves
<1>5. \A r \in rows : r \in rows' \/ (i \in open \ open' /\ r.row = tab[i].tab_db_id)
  BY <1>1
<1>6. TabInv'
  BY <1>1, <1>2, <1>3, <1>4, <1>5, OneTabKeeps
<1>7. ClosesCleanly
  BY <1>1, FamilyCloses
<1>. QED
  BY <1>6, <1>7

\* A checkpoint begins on a tab that runs; of any other, only the close bar goes.
LEMMA CheckpointTabKeeps ==
  ASSUME TabInv, NEW i \in Id, CheckpointTab(i)
  PROVE  TabInv' /\ ClosesCleanly
<1>0. TypeOK /\ tab[i] \in TerminalTab /\ tab \in [Id -> TerminalTab] /\ AtTab(i)
  BY TabByTab DEF TabInv, TypeOK
<1>1. /\ pending_close' = 0 /\ active_workspace_id' = active_workspace_id /\ sessions' = sessions
      /\ missing_secrets_prompt' = missing_secrets_prompt /\ next_tab_id' = next_tab_id
      /\ made' = made /\ open' = open /\ pty_map' = pty_map
      /\ rows' = rows /\ workspaces' = workspaces /\ next_row' = next_row
  BY DEF CheckpointTab, db
<1>2. RowsOnce'
  BY <1>1 DEF TabInv, RowsOnce
<1>3. CASE Running(i)
  <2>. DEFINE t == [tab[i] EXCEPT !.checkpointing = TRUE]
  <2>1. PICK n \in 1 .. MaxSaves : tab' = [tab EXCEPT ![i].checkpointing = TRUE]
                                   /\ tasks' = tasks \cup {<<"checkpoint", i, n>>}
    BY <1>3 DEF CheckpointTab
  <2>2. /\ t \in TerminalTab /\ t.checkpointing /\ t.tab_db_id = tab[i].tab_db_id /\ t.setup_error = tab[i].setup_error
        /\ (t.setup_steps <=> tab[i].setup_steps)
        /\ (t.checkpoint_name <=> tab[i].checkpoint_name) /\ (t.terminal <=> tab[i].terminal)
    BY <1>0, TabBecomes
  <2>3. [tab EXCEPT ![i].checkpointing = TRUE] = [tab EXCEPT ![i] = t]
    BY <1>0
  <2>4. i \in open /\ tab[i].terminal /\ made[i].kind = "agent"
    BY <1>3 DEF Running
  <2>5. tab' = IF i \in open THEN [tab EXCEPT ![i] = t] ELSE tab
    BY <2>1, <2>3, <2>4
  <2>. HIDE DEF t
  <2>6. /\ tab' \in [Id -> TerminalTab] /\ (\A j \in Id \ {i} : tab'[j] = tab[j]) /\ tab'[i] = t
    BY <1>0, <2>2, <2>4, <2>5, TabsOfOthers
  <2>7. /\ tasks' \subseteq {"boot", "tui", "shell", "checkpoint"} \X Id \X (1 .. MaxSaves \cup {1})
        /\ \A j \in Id \ {i} : SameTasks(j)
    BY <1>0, <2>1, TasksOfOthers
  <2>8. /\ (Boots(i) \in tasks' <=> Boots(i) \in tasks) /\ (Shell(i) \in tasks' <=> Shell(i) \in tasks)
        /\ (Waits(i) \in tasks' <=> Waits(i) \in tasks)
        /\ Saves(i, n) \in tasks'
    BY <2>1 DEF Boots, Waits, Shell, Saves
  <2>9. Boots(i) \notin tasks /\ missing_secrets_prompt # i /\ (tab[i].terminal => i \in pty_map)
    BY <1>0, <2>4 DEF AtTab
  <2>10. AtTab(i)'
    <3>1. Boots(i)' = Boots(i) /\ Waits(i)' = Waits(i) /\ Shell(i)' = Shell(i)
          /\ \A m \in 1 .. MaxSaves : Saves(i, m)' = Saves(i, m)
      BY DEF Boots, Waits, Shell, Saves
    <3>. QED
      BY <3>1, <1>0, <1>1, <2>2, <2>4, <2>6, <2>8, <2>9 DEF AtTab
  <2>11. TypeOK'
    BY <1>1, <2>6, <2>7 DEF TabInv, TypeOK
  <2>12. TabInv'
    BY <1>1, <1>2, <2>2, <2>4, <2>6, <2>7, <2>10, <2>11, OneTabKeeps
  <2>13. ClosesCleanly
    BY <1>0, <1>1, <2>2, <2>6, NothingCloses DEF TypeOK
  <2>. QED
    BY <2>12, <2>13
<1>4. CASE ~Running(i)
  <2>1. tab' = tab /\ tasks' = tasks
    BY <1>4 DEF CheckpointTab
  <2>2. TypeOK'
    BY <1>1, <2>1 DEF TabInv, TypeOK
  <2>3. (FamilyInv /\ PlainInv /\ TasksFit /\ PromptInv)'
    BY <1>1, <2>1 DEF TabInv, FamilyInv, PlainInv, TasksFit, PromptInv, Boots, Shell, Saves
  <2>4. (ProgressHasTask /\ BootsOnce /\ LiveTabAttachable /\ TabsOwnTheirRows)'
    BY <1>1, <2>1 DEF TabInv, ProgressHasTask, BootsOnce, LiveTabAttachable, TabsOwnTheirRows
  <2>. QED
    BY <1>1, <1>2, <2>1, <2>2, <2>3, <2>4, NothingCloses DEF TabInv
<1>. QED
  BY <1>3, <1>4

\* The close bar comes or goes.
LEMMA CloseBarKeeps ==
  ASSUME TabInv, pending_close' \in Id \cup {0},
         UNCHANGED <<active_workspace_id, sessions, missing_secrets_prompt, tabs, pty_map, tasks, db>>
  PROVE  TabInv' /\ ClosesCleanly
<1>1. TypeOK' /\ RowsOnce'
  BY DEF TabInv, TypeOK, RowsOnce, tabs, db
<1>2. (FamilyInv /\ PlainInv /\ TasksFit /\ PromptInv)'
  BY DEF TabInv, FamilyInv, PlainInv, TasksFit, PromptInv, Boots, Shell, Saves, tabs
<1>3. (ProgressHasTask /\ BootsOnce /\ LiveTabAttachable /\ TabsOwnTheirRows)'
  BY DEF TabInv, ProgressHasTask, BootsOnce, LiveTabAttachable, TabsOwnTheirRows, tabs, db
<1>. QED
  BY <1>1, <1>2, <1>3, NothingCloses DEF TabInv, tabs

\* The tab that waited for its secrets boots.
LEMMA ResumeKeeps ==
  ASSUME TabInv, missing_secrets_prompt # 0, ResumeBoot
  PROVE  TabInv' /\ ClosesCleanly
<1>i. PICK i \in Id : i = missing_secrets_prompt
  BY DEF TabInv, TypeOK
<1>. DEFINE t == [tab[i] EXCEPT !.setup_error = "none", !.setup_steps = TRUE]
<1>0. TypeOK /\ i \in Id /\ tab[i] \in TerminalTab /\ tab \in [Id -> TerminalTab] /\ AtTab(i)
  BY TabByTab DEF TabInv, TypeOK
<1>1. /\ t \in TerminalTab /\ t.setup_steps /\ t.tab_db_id = tab[i].tab_db_id
      /\ (t.checkpointing <=> tab[i].checkpointing)
      /\ (t.checkpoint_name <=> tab[i].checkpoint_name) /\ (t.terminal <=> tab[i].terminal)
  BY <1>0, TabBecomes
<1>2. [tab EXCEPT ![i].setup_error = "none", ![i].setup_steps = TRUE] = [tab EXCEPT ![i] = t]
  BY <1>0
<1>3. /\ tasks' = tasks \cup {<<"boot", i, 1>>} /\ open' = open /\ pty_map' = pty_map
      /\ tab' = (IF i \in open THEN [tab EXCEPT ![i] = t] ELSE tab)
      /\ missing_secrets_prompt' = 0 /\ made' = made /\ next_tab_id' = next_tab_id
      /\ active_workspace_id' = active_workspace_id /\ sessions' = sessions /\ pending_close' = pending_close
      /\ rows' = rows /\ workspaces' = workspaces /\ next_row' = next_row
  BY <1>i, <1>2 DEF ResumeBoot, db
<1>4. /\ made[i].kind = "agent" /\ ~tab[i].terminal /\ ~tab[i].checkpoint_name
      /\ \A n \in 1 .. MaxSaves : Saves(i, n) \notin tasks
  BY <1>i, <1>0 DEF AtTab
<1>. HIDE DEF t
<1>5. /\ tab' \in [Id -> TerminalTab] /\ (\A j \in Id \ {i} : tab'[j] = tab[j])
      /\ tab'[i] = IF i \in open THEN t ELSE tab[i]
  BY <1>0, <1>1, <1>3, TabsOfOthers
<1>6. /\ tasks' \subseteq {"boot", "tui", "shell", "checkpoint"} \X Id \X (1 .. MaxSaves \cup {1})
      /\ \A j \in Id \ {i} : SameTasks(j)
  BY <1>0, <1>3, TasksOfOthers
<1>7. /\ Boots(i) \in tasks' /\ (Shell(i) \in tasks' <=> Shell(i) \in tasks)
      /\ \A n \in 1 .. MaxSaves : Saves(i, n) \in tasks' <=> Saves(i, n) \in tasks
  BY <1>3 DEF Boots, Shell, Saves
<1>8. TypeOK' /\ RowsOnce'
  BY <1>3, <1>5, <1>6 DEF TabInv, TypeOK, RowsOnce
<1>9. AtTab(i)'
  <2>1. Boots(i)' = Boots(i) /\ Waits(i)' = Waits(i) /\ Shell(i)' = Shell(i)
        /\ \A n \in 1 .. MaxSaves : Saves(i, n)' = Saves(i, n)
    BY <1>0 DEF Boots, Waits, Shell, Saves
  <2>2. i # 0
    BY <1>0 DEF Id
  <2>3. i \in open /\ tab[i].checkpointing => \E n \in 1 .. MaxSaves : Saves(i, n) \in tasks
    BY <1>0 DEF AtTab
  <2>4. \/ i \in open /\ tab'[i] = t
        \/ i \notin open /\ tab'[i] = tab[i]
    BY <1>5
  <2>5. i \in open' => /\ ~tab'[i].checkpointing /\ ~tab'[i].terminal /\ ~tab'[i].checkpoint_name
    BY <2>3, <2>4, <1>1, <1>3, <1>4
  <2>. QED
    BY <2>1, <2>2, <2>5, <1>3, <1>4, <1>7, <1>0 DEF AtTab
<1>10. i \in open => tab'[i].tab_db_id = tab[i].tab_db_id
  BY <1>1, <1>5
<1>11. TabInv'
  BY <1>3, <1>5, <1>6, <1>8, <1>9, <1>10, OneTabKeeps
<1>12. ClosesCleanly
  BY <1>0, <1>1, <1>3, <1>5, NothingCloses DEF TypeOK
<1>. QED
  BY <1>11, <1>12

\* A workspace goes with its tabs, and with its rows unless the database refuses.
LEMMA RemoveWorkspaceKeeps ==
  ASSUME TabInv, NEW ws, RemoveWorkspace(ws)
  PROVE  TabInv' /\ ClosesCleanly
<1>1. /\ pty_map' = {i \in pty_map : made[i].ws # ws} /\ open' = {i \in open : made[i].ws # ws}
      /\ sessions' = sessions \ {ws} /\ missing_secrets_prompt' = missing_secrets_prompt
      /\ pending_close' = pending_close /\ next_tab_id' = next_tab_id /\ made' = made /\ tab' = tab
      /\ tasks' = tasks /\ next_row' = next_row
      /\ active_workspace_id' \in {NoWorkspace, active_workspace_id}
      /\ (active_workspace_id = ws => active_workspace_id' = NoWorkspace)
      /\ workspaces' \subseteq workspaces /\ rows' \subseteq rows
      /\ \A r \in rows : r.ws # ws => r \in rows'
  BY DEF RemoveWorkspace
<1>2. TypeOK'
  BY <1>1 DEF TabInv, TypeOK
<1>3. RowsOnce'
  <2>1. IsFiniteSet(rows')
    BY <1>1, FS_Subset DEF TabInv, RowsOnce
  <2>. QED
    BY <2>1, <1>1 DEF TabInv, RowsOnce
<1>4. (FamilyInv /\ PlainInv /\ TasksFit /\ PromptInv)'
  BY <1>1 DEF TabInv, FamilyInv, PlainInv, TasksFit, PromptInv, Boots, Shell, Saves
<1>5. (ProgressHasTask /\ BootsOnce /\ LiveTabAttachable)'
  BY <1>1 DEF TabInv, ProgressHasTask, BootsOnce, LiveTabAttachable
<1>6. TabsOwnTheirRows'
  <2>1. ASSUME NEW i \in open', tab[i].tab_db_id # 0
        PROVE  /\ [row |-> tab[i].tab_db_id, ws |-> made[i].ws] \in rows'
               /\ \A j \in open' \ {i} : tab[j].tab_db_id # tab[i].tab_db_id
    <3>1. i \in open /\ made[i].ws # ws
      BY <1>1
    <3>2. [row |-> tab[i].tab_db_id, ws |-> made[i].ws] \in rows
          /\ \A j \in open \ {i} : tab[j].tab_db_id # tab[i].tab_db_id
      BY <2>1, <3>1 DEF TabInv, TabsOwnTheirRows
    <3>3. [row |-> tab[i].tab_db_id, ws |-> made[i].ws].ws = made[i].ws
      OBVIOUS
    <3>. QED
      BY <3>1, <3>2, <3>3, <1>1
  <2>. QED
    BY <2>1, <1>1 DEF TabsOwnTheirRows
<1>7. ClosesCleanly
  <2>1. \A i \in open \ open' : i \notin pty_map'
    BY <1>1
  <2>2. ASSUME NEW i \in open, Running(i), ~Running(i)', NEW c \in Children(i)' PROVE FALSE
    <3>1. i \notin open' /\ made[i].ws = ws
      BY <2>2, <1>1 DEF Running
    <3>2. c \in open /\ made[c].kind = "shell" /\ made[c].parent = i /\ made[c].ws # ws /\ c \in Id
      BY <1>1 DEF Children, TabInv, TypeOK
    <3>3. made[c].ws = made[i].ws
      BY <3>2 DEF TabInv, FamilyInv
    <3>. QED
      BY <3>1, <3>2, <3>3
  <2>. QED
    BY <2>1, <2>2 DEF ClosesCleanly
<1>. QED
  BY <1>2, <1>3, <1>4, <1>5, <1>6, <1>7 DEF TabInv

\* Nothing is open when the program starts, whatever is saved.
LEMMA StartIsSound ==
  ASSUME active_workspace_id = NoWorkspace, sessions = {}, missing_secrets_prompt = 0, pending_close = 0,
         next_tab_id = 1, open = {}, made = [i \in Id |-> Unmade], tab = [i \in Id |-> Blank],
         pty_map = {}, tasks = {}
  PROVE  /\ FamilyInv /\ PlainInv /\ TasksFit /\ PromptInv
         /\ ProgressHasTask /\ BootsOnce /\ LiveTabAttachable /\ TabsOwnTheirRows
         /\ active_workspace_id \in sessions \cup {NoWorkspace} /\ sessions \subseteq Workspace
         /\ next_tab_id \in 1 .. MaxTabs + 1 /\ made \in [Id -> Made] /\ tab \in [Id -> TerminalTab]
         /\ open \subseteq {i \in Id : i < next_tab_id /\ made[i].ws \in sessions}
         /\ pty_map \subseteq Id /\ missing_secrets_prompt \in Id \cup {0} /\ pending_close \in Id \cup {0}
         /\ tasks \subseteq {"boot", "tui", "shell", "checkpoint"} \X Id \X (1 .. MaxSaves \cup {1})
<1>1. Unmade \in Made /\ Unmade.kind = "none"
  BY DEF Unmade, Made
<1>2. Blank \in TerminalTab
  BY DEF Blank, TerminalTab
<1>3. 1 \in 1 .. MaxTabs + 1
  BY BoundAssumption
<1>4. FamilyInv /\ PlainInv /\ TasksFit /\ PromptInv
  BY <1>1 DEF FamilyInv, PlainInv, TasksFit, PromptInv
<1>5. ProgressHasTask /\ BootsOnce /\ LiveTabAttachable /\ TabsOwnTheirRows
  BY DEF ProgressHasTask, BootsOnce, LiveTabAttachable, TabsOwnTheirRows
<1>. QED
  BY <1>1, <1>2, <1>3, <1>4, <1>5

\* A restart loses everything but the database.
LEMMA RestartKeeps ==
  ASSUME TabInv, Restart
  PROVE  TabInv' /\ ClosesCleanly
<1>1. /\ active_workspace_id' = NoWorkspace /\ sessions' = {} /\ missing_secrets_prompt' = 0 /\ pending_close' = 0
      /\ next_tab_id' = 1 /\ open' = {} /\ made' = [i \in Id |-> Unmade] /\ tab' = [i \in Id |-> Blank]
      /\ pty_map' = {} /\ tasks' = {} /\ workspaces' = workspaces /\ rows' = rows /\ next_row' = next_row
  BY DEF Restart, db
<1>2. Unmade \in Made /\ Unmade.kind = "none" /\ Blank \in TerminalTab /\ 1 \in 1 .. MaxTabs + 1
  BY BoundAssumption DEF Unmade, Made, Blank, TerminalTab
<1>3. TypeOK' /\ RowsOnce'
  <2>1. RowsOnce'
    BY <1>1 DEF TabInv, RowsOnce
  <2>2. made' \in [Id -> Made] /\ tab' \in [Id -> TerminalTab]
    BY <1>1, <1>2
  <2>. QED
    BY <2>1, <2>2, <1>1, <1>2 DEF TabInv, TypeOK
<1>4. (FamilyInv /\ PlainInv /\ TasksFit /\ PromptInv)'
  BY <1>1, <1>2 DEF FamilyInv, PlainInv, TasksFit, PromptInv
<1>5. (ProgressHasTask /\ BootsOnce /\ LiveTabAttachable /\ TabsOwnTheirRows)'
  BY <1>1 DEF ProgressHasTask, BootsOnce, LiveTabAttachable, TabsOwnTheirRows
<1>6. ClosesCleanly
  BY <1>1 DEF ClosesCleanly, Children
<1>. QED
  BY <1>3, <1>4, <1>5, <1>6 DEF TabInv

\* The handlers that close tabs or ask about it.
LEMMA ClosingKeeps ==
  ASSUME TabInv, NEW i \in Id, RequestCloseTab(i) \/ RemoteCloseTab(i) \/ RemoveStoppedTab(i)
  PROVE  TabInv' /\ ClosesCleanly
<1>1. ASSUME RequestCloseTab(i) PROVE TabInv' /\ ClosesCleanly
  <2>1. CASE ForceCloseTab(i)
    BY <1>1, <2>1, ForceCloseKeeps DEF RequestCloseTab, db
  <2>2. CASE ~ForceCloseTab(i)
    <3>1. /\ pending_close' = i
          /\ UNCHANGED <<active_workspace_id, sessions, missing_secrets_prompt, tabs, pty_map, tasks, db>>
      BY <1>1, <2>2 DEF RequestCloseTab
    <3>. QED
      BY <3>1, CloseBarKeeps
  <2>. QED
    BY <2>1, <2>2
<1>2. ASSUME RemoteCloseTab(i) PROVE TabInv' /\ ClosesCleanly
  <2>1. CASE CheckpointTab(i)
    BY <2>1, CheckpointTabKeeps
  <2>2. CASE ForceCloseTab(i) /\ UNCHANGED db
    BY <2>2, ForceCloseKeeps DEF db
  <2>3. CASE pending_close' = 0
             /\ UNCHANGED <<active_workspace_id, sessions, missing_secrets_prompt, tabs, pty_map, tasks, db>>
    BY <2>3, CloseBarKeeps
  <2>. QED
    BY <1>2, <2>1, <2>2, <2>3 DEF RemoteCloseTab
<1>3. ASSUME RemoveStoppedTab(i) PROVE TabInv' /\ ClosesCleanly
  BY <1>3, ForceCloseKeeps DEF RemoveStoppedTab, Visible
<1>. QED
  BY <1>1, <1>2, <1>3

\* The answer to the close bar.
LEMMA AnswerKeeps ==
  ASSUME TabInv, AnswerCloseBar
  PROVE  TabInv' /\ ClosesCleanly
<1>1. pending_close \in Id
  BY DEF AnswerCloseBar, TabInv, TypeOK
<1>2. CASE CheckpointTab(pending_close)
  BY <1>1, <1>2, CheckpointTabKeeps
<1>3. CASE ForceCloseTab(pending_close) /\ UNCHANGED db
  BY <1>1, <1>3, ForceCloseKeeps DEF db
<1>4. CASE pending_close' = 0
           /\ UNCHANGED <<active_workspace_id, sessions, missing_secrets_prompt, tabs, pty_map, tasks, db>>
  BY <1>4, CloseBarKeeps
<1>. QED
  BY <1>2, <1>3, <1>4 DEF AnswerCloseBar

\* Every step keeps the invariant and closes cleanly.
LEMMA StepKeeps ==
  ASSUME TabInv, Next
  PROVE  TabInv' /\ ClosesCleanly
<1>1. CASE \E ws \in Workspace : ActivateWorkspace(ws) \/ RemoteCreateTab(ws)
  BY <1>1, OpeningKeeps
<1>2. CASE \E ws \in Workspace : RemoveWorkspace(ws)
  BY <1>2, RemoveWorkspaceKeeps
<1>3. CASE OpenAgentTab \/ OpenHostShellTab
  BY <1>3, OpeningKeeps
<1>4. CASE \E i \in Id : OpenShellTab(i) \/ ForkTab(i)
  BY <1>4, OpeningKeeps
<1>5. CASE \E i \in Id : RequestCloseTab(i) \/ RemoteCloseTab(i) \/ RemoveStoppedTab(i)
  BY <1>5, ClosingKeeps
<1>6. CASE \E i \in Id : BootEnds(i) \/ TuiReady(i) \/ ShellEnds(i)
  BY <1>6, BootFinishesKeeps, BootFailsKeeps, TuiReadyKeeps, ShellOpenedKeeps, ShellFailedKeeps
     DEF BootEnds, ShellEnds
<1>7. CASE \E i \in Id, n \in 1 .. MaxSaves : CheckpointEnds(i, n)
  BY <1>7, CheckpointFinishesKeeps, CheckpointFailsKeeps DEF CheckpointEnds
<1>8. CASE AnswerCloseBar
  BY <1>8, AnswerKeeps
<1>9. CASE DismissMissingSecrets \/ SettingsClosed
  BY <1>9, ResumeKeeps DEF DismissMissingSecrets, SettingsClosed
<1>10. CASE Restart
  BY <1>10, RestartKeeps
<1>. QED
  BY <1>1, <1>2, <1>3, <1>4, <1>5, <1>6, <1>7, <1>8, <1>9, <1>10 DEF Next

\* The invariant of the tabs, at every step.
LEMMA TabInvHolds == Spec => []TabInv
<1>1. Init => TabInv
  <2>. SUFFICES ASSUME Init PROVE TabInv
    OBVIOUS
  <2>1. /\ FamilyInv /\ PlainInv /\ TasksFit /\ PromptInv
        /\ ProgressHasTask /\ BootsOnce /\ LiveTabAttachable /\ TabsOwnTheirRows
        /\ active_workspace_id \in sessions \cup {NoWorkspace} /\ sessions \subseteq Workspace
        /\ next_tab_id \in 1 .. MaxTabs + 1 /\ made \in [Id -> Made] /\ tab \in [Id -> TerminalTab]
        /\ open \subseteq {i \in Id : i < next_tab_id /\ made[i].ws \in sessions}
        /\ pty_map \subseteq Id /\ missing_secrets_prompt \in Id \cup {0} /\ pending_close \in Id \cup {0}
        /\ tasks \subseteq {"boot", "tui", "shell", "checkpoint"} \X Id \X (1 .. MaxSaves \cup {1})
    BY StartIsSound DEF Init
  <2>2. RowsOnce
    BY FS_EmptySet DEF Init, RowsOnce
  <2>3. TypeOK
    BY <2>1 DEF Init, TypeOK
  <2>. QED
    BY <2>1, <2>2, <2>3 DEF TabInv
<1>2. TabInv /\ [Next]_vars => TabInv'
  <2>1. CASE Next
    BY <2>1, StepKeeps
  <2>2. CASE UNCHANGED vars
    BY <2>2 DEF TabInv, TypeOK, RowsOnce, FamilyInv, PlainInv, TasksFit, PromptInv, Boots, Shell, Saves,
      ProgressHasTask, BootsOnce, LiveTabAttachable, TabsOwnTheirRows, vars, panel, tabs, db
  <2>. QED
    BY <2>1, <2>2
<1>. QED
  BY <1>1, <1>2, PTL DEF Spec

\* A tab's work is in hand and a tab is known wherever it has to be, for any workspaces and any
\* number of tabs, rows and checkpoints, through closings, failures and restarts.
THEOREM TabsStayInHand == Spec => [](TypeOK /\ TabsAreInHand)
<1>1. TabInv => TypeOK /\ TabsAreInHand
  BY DEF TabInv, TabsAreInHand
<1>. QED
  BY <1>1, TabInvHolds, PTL

\* No step takes a tab out of its session and leaves its bus to remote clients, or closes or
\* stops an agent and leaves one of its guest shells.
THEOREM ClosingStaysClean == Spec => ClosingIsClean
<1>1. TabInv /\ [Next]_vars => [\A i \in open \ open' : i \notin pty_map']_vars
                            /\ [\A i \in open : Running(i) /\ ~Running(i)' => Children(i)' = {}]_vars
  BY StepKeeps DEF ClosesCleanly
<1>. QED
  BY <1>1, TabInvHolds, PTL DEF Spec, ClosingIsClean, ClosedTabUnregistered, ClosingTakesShells
=============================================================================
