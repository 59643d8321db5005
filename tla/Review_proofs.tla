----------------------------- MODULE Review_proofs ------------------------------
(***************************************************************************)
(* Proofs about the review panel, for every number of workspaces, tabs,    *)
(* sandboxes, contents and operations: which sandbox the visible list is   *)
(* of, and what it says of a file; and about a file's diff, for any number *)
(* of lines and any selection: what Apply writes of it and Copy takes.     *)
(***************************************************************************)
EXTENDS ReviewPanel, ReviewFile, ReviewDiff, Induction, TLAPS, SequenceTheorems, FiniteSetTheorems

-------------------------------------------------------------------------------
(* Which sandbox the panel shows (ReviewPanel) *)

\* A list is with its sandbox: the visible one with the sandbox in front, and any other that is
\* kept with the one it is kept for; and a sandbox that is watched has a list.
WithItsBox(p) ==
  /\ p \in Panels
  /\ p.key # Nothing => p.tab.service.box = p.key
  /\ \A box \in Boxes : p.stored[box] # Nothing /\ box # p.key => p.stored[box].service.box = box
  /\ \A box \in Boxes : p.watching[box] # "no" => p.stored[box] # Nothing

PanelInv ==
  /\ tabs \in [Projects -> Seq(Boxes \cup {HostTab})] /\ ready \subseteq Boxes
  /\ {active_ws, sidebar_ws} \subseteq Projects \cup {Nothing}
  /\ WithItsBox(panel)

\* The sandbox that is active among some tabs is one that has booted.
LEMMA ActiveIsBox ==
  ASSUME NEW s \in Seq(Boxes \cup {HostTab}), NEW i, NEW booted \in SUBSET Boxes
  PROVE  ActiveBox(s, i, booted) \in Boxes \cup {Nothing}
<1>. DEFINE running == {k \in DOMAIN s : s[k] \in booted}
<1>1. CASE running = {}
  BY <1>1 DEF ActiveBox
<1>2. CASE running # {}
  <2>1. running \subseteq Nat
    OBVIOUS
  <2>2. PICK k \in running : \A m \in running : k <= m
    <3>. HIDE DEF running
    <3>. QED
      BY <1>2, <2>1, HasLeast
  <2>. DEFINE first == CHOOSE n \in running : \A j \in running : n <= j
  <2>4. first \in running
    BY <2>2
  <2>5. s[first] \in Boxes
    BY <2>4
  <2>. QED
    BY <2>5 DEF ActiveBox
<1>. QED
  BY <1>1, <1>2

\* Starting to watch a sandbox gives it a list of its own.
LEMMA WatchedKeeps ==
  ASSUME NEW p, WithItsBox(p), NEW box \in Boxes
  PROVE  /\ WithItsBox(Watched(p, box)) /\ Watched(p, box).stored[box] # Nothing
         /\ Watched(p, box).key = p.key
<1>. DEFINE new == [service |-> [box |-> box, mount |-> p.mount], shows |-> Nothing]
<1>1. CASE p.watching[box] # "no"
  BY <1>1 DEF Watched, WithItsBox
<1>2. CASE p.watching[box] = "no"
  <2>1. new \in ChangeLists /\ new # Nothing /\ new.service.box = box
    BY PanelAssumption DEF ChangeLists, WithItsBox, Panels
  <2>. HIDE DEF new
  <2>2. ASSUME NEW w \in [Boxes -> {"no", "yes", "ended"}], NEW st \in [Boxes -> ChangeLists \cup {Nothing}]
        PROVE  /\ [p EXCEPT !.watching = w, !.stored = st] \in Panels
               /\ [p EXCEPT !.watching = w, !.stored = st].watching = w
               /\ [p EXCEPT !.watching = w, !.stored = st].stored = st
               /\ [p EXCEPT !.watching = w, !.stored = st].key = p.key
               /\ [p EXCEPT !.watching = w, !.stored = st].tab = p.tab
    BY DEF WithItsBox, Panels
  <2>3. p.watching \in [Boxes -> {"no", "yes", "ended"}] /\ p.stored \in [Boxes -> ChangeLists \cup {Nothing}]
    BY DEF WithItsBox, Panels
  <2>. DEFINE w1 == [p.watching EXCEPT ![box] = "yes"]
              s1 == [p.stored EXCEPT ![box] = new]
              q == Watched(p, box)
  <2>4. w1 \in [Boxes -> {"no", "yes", "ended"}] /\ s1 \in [Boxes -> ChangeLists \cup {Nothing}]
    BY <2>1, <2>3
  <2>5. q = [p EXCEPT !.watching = w1, !.stored = s1]
    BY <1>2 DEF Watched, new, WithItsBox, Panels
  <2>7. \A b \in Boxes : /\ w1[b] = IF b = box THEN "yes" ELSE p.watching[b]
                         /\ s1[b] = IF b = box THEN new ELSE p.stored[b]
    BY <2>3
  <2>. HIDE DEF q, w1, s1
  <2>6. /\ q \in Panels /\ q.key = p.key /\ q.tab = p.tab /\ q.watching = w1 /\ q.stored = s1
    <3>. DEFINE e == [p EXCEPT !.watching = w1, !.stored = s1]
    <3>1. e \in Panels /\ e.key = p.key /\ e.tab = p.tab /\ e.watching = w1 /\ e.stored = s1
      BY <2>2, <2>4
    <3>. HIDE DEF e
    <3>. QED
      BY <2>5, <3>1 DEF e
  <2>8. WithItsBox(q)
    BY <2>1, <2>6, <2>7 DEF WithItsBox
  <2>. QED
    BY <2>1, <2>6, <2>7, <2>8 DEF q
<1>. QED
  BY <1>1, <1>2

\* Every list that is kept is of its sandbox: no sandbox is in front while lists are swapped.
PutBack(p) ==
  /\ p \in Panels
  /\ \A box \in Boxes : p.stored[box] # Nothing => p.stored[box].service.box = box
  /\ \A box \in Boxes : p.watching[box] # "no" => p.stored[box] # Nothing

\* What a swap of the visible list with the one that is kept for a sandbox does.
LEMMA SwappedFields ==
  ASSUME NEW p \in Panels, NEW box \in Boxes, p.stored[box] # Nothing
  PROVE  /\ Swapped(p, box) \in Panels /\ Swapped(p, box).tab = p.stored[box]
         /\ \A b \in Boxes : Swapped(p, box).stored[b] = IF b = box THEN p.tab ELSE p.stored[b]
         /\ Swapped(p, box).watching = p.watching /\ Swapped(p, box).key = p.key
         /\ p.tab # Nothing
<1>1. ASSUME NEW c \in ChangeLists, NEW st \in [Boxes -> ChangeLists \cup {Nothing}]
      PROVE  /\ [p EXCEPT !.tab = c, !.stored = st] \in Panels
             /\ [p EXCEPT !.tab = c, !.stored = st].tab = c
             /\ [p EXCEPT !.tab = c, !.stored = st].stored = st
             /\ [p EXCEPT !.tab = c, !.stored = st].key = p.key
             /\ [p EXCEPT !.tab = c, !.stored = st].watching = p.watching
  BY DEF Panels
<1>2. p.stored \in [Boxes -> ChangeLists \cup {Nothing}] /\ p.tab \in ChangeLists
  BY DEF Panels
<1>3. p.stored[box] \in ChangeLists /\ p.tab # Nothing /\ box # Nothing
  BY <1>2, PanelAssumption
<1>4. [p.stored EXCEPT ![box] = p.tab] \in [Boxes -> ChangeLists \cup {Nothing}]
  BY <1>2
<1>5. Swapped(p, box) = [p EXCEPT !.tab = p.stored[box], !.stored = [p.stored EXCEPT ![box] = p.tab]]
  BY <1>3 DEF Swapped, Panels
<1>. DEFINE s1 == [p.stored EXCEPT ![box] = p.tab]
<1>6. \A b \in Boxes : s1[b] = IF b = box THEN p.tab ELSE p.stored[b]
  BY <1>2
<1>. HIDE DEF s1
<1>7. Swapped(p, box) = [p EXCEPT !.tab = p.stored[box], !.stored = s1] /\ s1 \in [Boxes -> ChangeLists \cup {Nothing}]
  BY <1>4, <1>5 DEF s1
<1>. DEFINE q == Swapped(p, box)
<1>8. /\ q \in Panels /\ q.tab = p.stored[box] /\ q.stored = s1
      /\ q.key = p.key /\ q.watching = p.watching
  <2>. DEFINE e == [p EXCEPT !.tab = p.stored[box], !.stored = s1]
  <2>1. /\ e \in Panels /\ e.tab = p.stored[box] /\ e.stored = s1
        /\ e.key = p.key /\ e.watching = p.watching
    BY <1>1, <1>3, <1>7, ZenonT(30)
  <2>. HIDE DEF e
  <2>. QED
    BY <1>7, <2>1 DEF e
<1>. HIDE DEF q
<1>9. \A b \in Boxes : q.stored[b] = IF b = box THEN p.tab ELSE p.stored[b]
  BY <1>6, <1>8
<1>. QED
  BY <1>3, <1>8, <1>9 DEF q

\* The list of the sandbox in front is put back under it.
LEMMA SwapsBack ==
  ASSUME NEW p, WithItsBox(p)
  PROVE  /\ PutBack(Swapped(p, p.key)) /\ Swapped(p, p.key).key = p.key
         /\ \A b \in Boxes : p.stored[b] # Nothing => Swapped(p, p.key).stored[b] # Nothing
<1>1. CASE p.key = Nothing \/ p.stored[p.key] = Nothing
  <2>1. Swapped(p, p.key) = p
    BY <1>1 DEF Swapped
  <2>. QED
    BY <1>1, <2>1, PanelAssumption DEF PutBack, WithItsBox
<1>2. CASE p.key # Nothing /\ p.stored[p.key] # Nothing
  <2>1. p.key \in Boxes /\ p \in Panels
    BY <1>2 DEF WithItsBox, Panels
  <2>. DEFINE q == Swapped(p, p.key)
  <2>2. /\ q \in Panels /\ \A b \in Boxes : q.stored[b] = IF b = p.key THEN p.tab ELSE p.stored[b]
        /\ q.watching = p.watching /\ q.key = p.key /\ p.tab # Nothing
    BY <1>2, <2>1, SwappedFields
  <2>. HIDE DEF q
  <2>3. PutBack(q) /\ \A b \in Boxes : p.stored[b] # Nothing => q.stored[b] # Nothing
    BY <1>2, <2>1, <2>2 DEF PutBack, WithItsBox
  <2>. QED
    BY <2>2, <2>3 DEF q
<1>. QED
  BY <1>1, <1>2

\* Another sandbox comes to the front with its own list.
LEMMA ReadyKeeps ==
  ASSUME NEW p, WithItsBox(p), NEW box \in Boxes
  PROVE  WithItsBox(on_sandbox_ready(p, box))
<1>. DEFINE r == Watched(p, box)
<1>1. WithItsBox(r) /\ r.stored[box] # Nothing /\ r.key = p.key /\ box # Nothing
  BY WatchedKeeps, PanelAssumption
<1>. HIDE DEF r
<1>. DEFINE q == SwapsTo(r, box)
<1>2. /\ q \in Panels /\ q.tab.service.box = box
      /\ \A b \in Boxes : q.stored[b] # Nothing /\ b # box => q.stored[b].service.box = b
      /\ \A b \in Boxes : q.watching[b] # "no" => q.stored[b] # Nothing
  <2>1. CASE r.key = box
    BY <1>1, <2>1 DEF SwapsTo, WithItsBox
  <2>2. CASE r.key # box
    <3>. DEFINE m == Swapped(r, r.key)
    <3>1. PutBack(m) /\ m.stored[box] # Nothing
      BY <1>1, SwapsBack
    <3>2. q = Swapped(m, box)
      BY <2>2 DEF SwapsTo
    <3>. HIDE DEF m, q
    <3>3. /\ q \in Panels /\ q.tab = m.stored[box] /\ q.watching = m.watching /\ m.tab # Nothing
          /\ \A b \in Boxes : q.stored[b] = IF b = box THEN m.tab ELSE m.stored[b]
      BY <3>1, <3>2, SwappedFields DEF PutBack
    <3>. QED
      BY <3>1, <3>3 DEF PutBack
  <2>. QED
    BY <2>1, <2>2
<1>. HIDE DEF q
<1>3. on_sandbox_ready(p, box) = [q EXCEPT !.key = box, !.visible = TRUE]
  BY DEF on_sandbox_ready, q, r
<1>4. /\ [q EXCEPT !.key = box, !.visible = TRUE] \in Panels
      /\ [q EXCEPT !.key = box, !.visible = TRUE].key = box
      /\ [q EXCEPT !.key = box, !.visible = TRUE].tab = q.tab
      /\ [q EXCEPT !.key = box, !.visible = TRUE].stored = q.stored
      /\ [q EXCEPT !.key = box, !.visible = TRUE].watching = q.watching
  BY <1>2 DEF Panels
<1>. DEFINE o == on_sandbox_ready(p, box)
<1>5. o \in Panels /\ o.key = box /\ o.tab = q.tab /\ o.stored = q.stored /\ o.watching = q.watching
  BY <1>3, <1>4
<1>. HIDE DEF o
<1>6. WithItsBox(o)
  BY <1>2, <1>5 DEF WithItsBox
<1>. QED
  BY <1>6 DEF o

\* Hiding the panel changes no list.
LEMMA HiddenKeeps ==
  ASSUME NEW p, WithItsBox(p)
  PROVE  WithItsBox(Hidden(p))
<1>. DEFINE q == Hidden(p)
<1>1. /\ q \in Panels /\ q.key = p.key /\ q.tab = p.tab /\ q.stored = p.stored /\ q.watching = p.watching
  BY DEF Hidden, WithItsBox, Panels
<1>. HIDE DEF q
<1>2. WithItsBox(q)
  BY <1>1 DEF WithItsBox
<1>. QED
  BY <1>2 DEF q

\* Another change in the visible list does not change whose list it is.
LEMMA ShowsKeeps ==
  ASSUME NEW p, WithItsBox(p), NEW c \in Boxes \cup {Nothing}
  PROVE  WithItsBox([p EXCEPT !.tab.shows = c])
<1>. DEFINE t == [p.tab EXCEPT !.shows = c]
            q == [p EXCEPT !.tab = t]
<1>1. t \in ChangeLists /\ t.service = p.tab.service
  BY DEF ChangeLists, WithItsBox, Panels
<1>2. [p EXCEPT !.tab.shows = c] = q
  OBVIOUS
<1>. HIDE DEF t
<1>3. /\ q \in Panels /\ q.key = p.key /\ q.tab = t /\ q.stored = p.stored /\ q.watching = p.watching
  BY <1>1 DEF WithItsBox, Panels
<1>. HIDE DEF q
<1>4. WithItsBox(q)
  BY <1>1, <1>3 DEF WithItsBox
<1>. QED
  BY <1>2, <1>4

\* Without lists and without a sandbox in front nothing can be of the wrong one.
LEMMA DroppedKeeps ==
  ASSUME NEW p \in Panels
  PROVE  /\ WithItsBox(Dropped(p)) /\ Dropped(p).key = Nothing
         /\ Dropped(p).stored = [b \in Boxes |-> Nothing] /\ Dropped(p).watching = [b \in Boxes |-> "no"]
<1>. DEFINE q == Dropped(p)
            no == [b \in Boxes |-> "no"]
            none == [b \in Boxes |-> Nothing]
<1>1. no \in [Boxes -> {"no", "yes", "ended"}] /\ none \in [Boxes -> ChangeLists \cup {Nothing}]
  OBVIOUS
<1>2. \A b \in Boxes : no[b] = "no" /\ none[b] = Nothing
  OBVIOUS
<1>3. q = [p EXCEPT !.key = Nothing, !.watching = no, !.stored = none]
  BY DEF Dropped
<1>. HIDE DEF q, no, none
<1>4. q \in Panels /\ q.key = Nothing /\ q.watching = no /\ q.stored = none
  BY <1>1, <1>3 DEF Panels
<1>5. WithItsBox(q)
  BY <1>2, <1>4 DEF WithItsBox
<1>. QED
  BY <1>4, <1>5 DEF q, no, none

\* An empty list, and what the panel shows of no sandbox.
LEMMA NewTabIsList == NewTab \in ChangeLists
BY DEF NewTab, NoService, ChangeLists

\* deactivate drops every list.
LEMMA DeactivateKeeps ==
  ASSUME NEW p, WithItsBox(p)
  PROVE  WithItsBox(deactivate(p))
<1>. DEFINE r == Dropped(p)
            q == deactivate(p)
            none == [b \in Boxes |-> Nothing]
            no == [b \in Boxes |-> "no"]
<1>1. r \in Panels /\ r.key = Nothing /\ r.stored = none /\ r.watching = no
  BY DroppedKeeps DEF WithItsBox
<1>2. q = [r EXCEPT !.visible = FALSE, !.workspace = Nothing, !.mount = Nothing, !.tab = NewTab]
  BY DEF deactivate
<1>3. \A b \in Boxes : no[b] = "no" /\ none[b] = Nothing
  OBVIOUS
<1>. HIDE DEF r, q, no, none
<1>4. q \in Panels /\ q.key = Nothing /\ q.stored = none /\ q.watching = no
  BY <1>1, <1>2, NewTabIsList DEF Panels
<1>5. WithItsBox(q)
  BY <1>3, <1>4 DEF WithItsBox
<1>. QED
  BY <1>5 DEF q

\* Another workspace: its list of before comes back without its service.
LEMMA ShowWaitingKeeps ==
  ASSUME NEW p, WithItsBox(p), NEW w \in Projects
  PROVE  WithItsBox(show_waiting(p, w))
<1>1. CASE p.workspace = w
  BY <1>1 DEF show_waiting
<1>2. CASE p.workspace # w
  <2>. DEFINE kept == IF p.workspace = Nothing THEN p ELSE [p EXCEPT !.cache[p.workspace] = p.tab]
              r == Dropped(kept)
              q == show_waiting(p, w)
              none == [b \in Boxes |-> Nothing]
              no == [b \in Boxes |-> "no"]
  <2>1. kept \in Panels
    BY DEF WithItsBox, Panels
  <2>2. q = [r EXCEPT !.workspace = w, !.mount = w, !.tab.shows = kept.cache[w].shows, !.cache[w] = NewTab]
    BY <1>2 DEF show_waiting
  <2>3. \A b \in Boxes : no[b] = "no" /\ none[b] = Nothing
    OBVIOUS
  <2>. HIDE DEF kept
  <2>4. r \in Panels /\ r.key = Nothing /\ r.stored = none /\ r.watching = no
    BY <2>1, DroppedKeeps DEF WithItsBox
  <2>. DEFINE t == [r.tab EXCEPT !.shows = kept.cache[w].shows]
              c == [r.cache EXCEPT ![w] = NewTab]
  <2>5. t \in ChangeLists /\ c \in [Projects -> ChangeLists]
    BY <2>1, <2>4, NewTabIsList DEF Panels, ChangeLists
  <2>6. q = [r EXCEPT !.workspace = w, !.mount = w, !.tab = t, !.cache = c]
    BY <2>2, <2>4 DEF Panels
  <2>. HIDE DEF r, q, no, none, t, c
  <2>7. q \in Panels /\ q.key = Nothing /\ q.stored = none /\ q.watching = no
    BY <2>4, <2>5, <2>6 DEF Panels
  <2>8. WithItsBox(q)
    BY <2>3, <2>7 DEF WithItsBox
  <2>. QED
    BY <2>8 DEF q
<1>. QED
  BY <1>1, <1>2

\* A tab is taken out of the row of tabs.
LEMMA RemoveAtIsSeq ==
  ASSUME NEW S, NEW s \in Seq(S), NEW i \in DOMAIN s
  PROVE  RemoveAt(s, i) \in Seq(S)
<1>1. Len(s) \in Nat /\ i \in 1 .. Len(s) /\ \A k \in 1 .. Len(s) : s[k] \in S
  BY LenProperties, ElementOfSeq
<1>2. SubSeq(s, 1, i - 1) \in Seq(S) /\ SubSeq(s, i + 1, Len(s)) \in Seq(S)
  BY <1>1, SubSeqProperties
<1>. QED
  BY <1>2, ConcatProperties DEF RemoveAt

\* notify_side_panel: whatever the tabs have become, no list goes to another sandbox.
LEMMA NotifiedKeeps ==
  ASSUME tabs' \in [Projects -> Seq(Boxes \cup {HostTab})], NEW p, WithItsBox(p),
         NEW w \in Projects, NEW active, NEW booted \in SUBSET Boxes
  PROVE  WithItsBox(Notified(p, w, active, booted))
<1>. DEFINE box == ActiveBox(tabs'[w], front'[w], booted)
<1>1. tabs'[w] \in Seq(Boxes \cup {HostTab})
  OBVIOUS
<1>2. box \in Boxes \cup {Nothing}
  BY <1>1, ActiveIsBox
<1>3. CASE active # w
  BY <1>3 DEF Notified
<1>4. CASE active = w /\ box = Nothing
  BY <1>4, HiddenKeeps DEF Notified
<1>5. CASE active = w /\ box # Nothing
  <2>1. Notified(p, w, active, booted) = on_sandbox_ready(p, box) /\ box \in Boxes
    BY <1>2, <1>5 DEF Notified
  <2>. QED
    BY <2>1, ReadyKeeps
<1>. QED
  BY <1>3, <1>4, <1>5

\* A result goes to the list of its own sandbox and, when that is in front, to the visible one.
LEMMA ReceiveKeeps ==
  ASSUME NEW p, WithItsBox(p), NEW box \in Boxes, p.watching[box] = "yes",
         NEW own \in ChangeLists, own.service = p.stored[box].service,
         NEW t \in ChangeLists, t.service = p.tab.service, NEW on \in {"yes", "ended"}
  PROVE  WithItsBox([p EXCEPT !.stored[box] = own, !.tab = t, !.watching[box] = on])
<1>. DEFINE s1 == [p.stored EXCEPT ![box] = own]
            w1 == [p.watching EXCEPT ![box] = on]
            q == [p EXCEPT !.stored = s1, !.tab = t, !.watching = w1]
<1>1. /\ s1 \in [Boxes -> ChangeLists \cup {Nothing}] /\ w1 \in [Boxes -> {"no", "yes", "ended"}]
      /\ \A b \in Boxes : /\ s1[b] = IF b = box THEN own ELSE p.stored[b]
                          /\ w1[b] = IF b = box THEN on ELSE p.watching[b]
  <2>1. p.stored \in [Boxes -> ChangeLists \cup {Nothing}] /\ p.watching \in [Boxes -> {"no", "yes", "ended"}]
    BY DEF WithItsBox, Panels
  <2>2. s1 \in [Boxes -> ChangeLists \cup {Nothing}]
    BY <2>1
  <2>3. w1 \in [Boxes -> {"no", "yes", "ended"}]
    BY <2>1
  <2>4. \A b \in Boxes : s1[b] = IF b = box THEN own ELSE p.stored[b]
    BY <2>1
  <2>5. \A b \in Boxes : w1[b] = IF b = box THEN on ELSE p.watching[b]
    BY <2>1
  <2>. QED
    BY <2>2, <2>3, <2>4, <2>5
<1>2. [p EXCEPT !.stored[box] = own, !.tab = t, !.watching[box] = on] = q
  BY DEF WithItsBox, Panels
<1>. HIDE DEF s1, w1
<1>3. q \in Panels /\ q.key = p.key /\ q.tab = t /\ q.stored = s1 /\ q.watching = w1
  BY <1>1 DEF WithItsBox, Panels
<1>. HIDE DEF q
<1>4. own # Nothing /\ p.stored[box] # Nothing
  BY PanelAssumption DEF WithItsBox
<1>5. q.key # Nothing => q.tab.service.box = q.key
  BY <1>3 DEF WithItsBox
<1>6. \A b \in Boxes : q.stored[b] # Nothing /\ b # q.key => q.stored[b].service.box = b
  <2> SUFFICES ASSUME NEW b \in Boxes, q.stored[b] # Nothing, b # p.key PROVE q.stored[b].service.box = b
    BY <1>3
  <2>1. CASE b = box
    <3>1. p.stored[box].service.box = box
      BY <1>4, <2>1 DEF WithItsBox
    <3>. QED
      BY <1>1, <1>3, <2>1, <3>1
  <2>2. CASE b # box
    <3>1. q.stored[b] = p.stored[b]
      BY <1>1, <1>3, <2>2
    <3>. QED
      BY <3>1 DEF WithItsBox
  <2>. QED
    BY <2>1, <2>2
<1>7. \A b \in Boxes : q.watching[b] # "no" => q.stored[b] # Nothing
  <2> SUFFICES ASSUME NEW b \in Boxes, w1[b] # "no" PROVE s1[b] # Nothing
    BY <1>3
  <2>1. CASE b = box
    BY <1>1, <1>4, <2>1
  <2>2. CASE b # box
    <3>1. s1[b] = p.stored[b] /\ w1[b] = p.watching[b]
      BY <1>1, <2>2
    <3>. QED
      BY <3>1 DEF WithItsBox
  <2>. QED
    BY <2>1, <2>2
<1>8. WithItsBox(q)
  BY <1>3, <1>5, <1>6, <1>7 DEF WithItsBox
<1>. QED
  BY <1>2, <1>8

\* Listing a change leaves the list with its service.
LEMMA ListsIsList ==
  ASSUME NEW t \in ChangeLists, NEW box \in Boxes, NEW status
  PROVE  Lists(t, box, status) \in ChangeLists /\ Lists(t, box, status).service = t.service
BY DEF Lists, ChangeLists

\* The initial panel shows no sandbox and keeps no list.
LEMMA PanelInitKeeps == PanelInit => PanelInv
<1> SUFFICES ASSUME PanelInit PROVE PanelInv
  OBVIOUS
<1>1. tabs \in [Projects -> Seq(Boxes \cup {HostTab})]
  BY DEF PanelInit
<1>2. panel \in Panels /\ panel.key = Nothing
  BY NewTabIsList DEF PanelInit, Panels
<1>3. \A b \in Boxes : panel.stored[b] = Nothing /\ panel.watching[b] = "no"
  BY DEF PanelInit
<1>. QED
  BY <1>1, <1>2, <1>3 DEF PanelInit, PanelInv, WithItsBox

\* Every step of the sidebar, of the terminal, of a watcher, of a probe and of the user.
LEMMA PanelStepKeeps == PanelInv /\ [PanelNext]_panel_vars => PanelInv'
<1> SUFFICES ASSUME PanelInv, [PanelNext]_panel_vars PROVE PanelInv'
  OBVIOUS
<1>. DEFINE tabsOk == tabs \in [Projects -> Seq(Boxes \cup {HostTab})]
<1>1. tabsOk /\ ready \subseteq Boxes /\ WithItsBox(panel)
      /\ {active_ws, sidebar_ws} \subseteq Projects \cup {Nothing}
  BY DEF PanelInv
<1>2. ASSUME NEW w \in Projects, NEW tab \in Boxes \cup {HostTab}, Opens(w, tab)
      PROVE  tabsOk'
  BY <1>1, <1>2 DEF Opens
<1>3. ASSUME NEW w \in Projects, NEW box \in Boxes, OpenAgent(w, box) PROVE PanelInv'
  BY <1>1, <1>2, <1>3 DEF OpenAgent, PanelInv
<1>4. ASSUME NEW w \in Projects, NEW box \in Boxes, Booted(w, box) PROVE PanelInv'
  <2>1. tabsOk' /\ ready' \subseteq Boxes /\ panel' = Notified(panel, w, active_ws, ready')
    BY <1>1, <1>4 DEF Booted, PanelBecomes
  <2>2. WithItsBox(panel')
    BY <1>1, <2>1, NotifiedKeeps
  <2>. QED
    BY <1>1, <1>4, <2>1, <2>2 DEF Booted, PanelInv
<1>5. ASSUME NEW w \in Projects, OpenHostShell(w) PROVE PanelInv'
  <2>1. tabsOk' /\ ready' = ready /\ panel' = Notified(panel, w, active_ws, ready)
    BY <1>2, <1>5 DEF OpenHostShell, PanelBecomes
  <2>2. WithItsBox(panel')
    BY <1>1, <2>1, NotifiedKeeps
  <2>. QED
    BY <1>1, <1>5, <2>1, <2>2 DEF OpenHostShell, PanelInv
<1>6. ASSUME NEW w \in Projects, RemoveSession(w) PROVE PanelInv'
  <2>1. tabsOk' /\ ready' = ready /\ panel' \in {deactivate(panel), panel}
    BY <1>1, <1>6 DEF RemoveSession, PanelBecomes
  <2>2. WithItsBox(panel')
    BY <1>1, <2>1, DeactivateKeeps
  <2>. QED
    BY <1>1, <1>6, <2>1, <2>2 DEF RemoveSession, PanelInv
<1>7. ASSUME NEW w \in Projects, ActivateFromSidebar(w) PROVE PanelInv'
  <2>1. tabsOk' /\ ready' = ready /\ panel' = Notified(show_waiting(panel, w), w, w, ready)
    BY <1>1, <1>7 DEF ActivateFromSidebar, PanelBecomes
  <2>2. WithItsBox(show_waiting(panel, w))
    BY <1>1, ShowWaitingKeeps
  <2>3. WithItsBox(panel')
    BY <1>1, <2>1, <2>2, NotifiedKeeps
  <2>. QED
    BY <1>1, <1>7, <2>1, <2>3 DEF ActivateFromSidebar, PanelInv
<1>8. ASSUME NEW w \in Projects, ActivateRemotely(w) PROVE PanelInv'
  BY <1>1, <1>8 DEF ActivateRemotely, PanelInv
<1>9. ASSUME NEW w \in Projects, NEW i \in 1 .. MaxTabs, SelectTab(w, i) PROVE PanelInv'
  <2>1. tabsOk' /\ ready' = ready /\ panel' = Notified(panel, w, active_ws, ready)
    BY <1>1, <1>9 DEF SelectTab, PanelBecomes
  <2>2. WithItsBox(panel')
    BY <1>1, <2>1, NotifiedKeeps
  <2>. QED
    BY <1>1, <1>9, <2>1, <2>2 DEF SelectTab, PanelInv
<1>10. ASSUME NEW w \in Projects, NEW i \in 1 .. MaxTabs, CloseTab(w, i) PROVE PanelInv'
  <2>1. RemoveAt(tabs[w], i) \in Seq(Boxes \cup {HostTab})
    BY <1>1, <1>10, RemoveAtIsSeq DEF CloseTab
  <2>2. tabsOk' /\ ready' = ready /\ panel' \in {deactivate(panel), panel}
    BY <1>1, <1>10, <2>1 DEF CloseTab, PanelBecomes
  <2>3. WithItsBox(panel')
    BY <1>1, <2>2, DeactivateKeeps
  <2>. QED
    BY <1>1, <1>10, <2>2, <2>3 DEF CloseTab, PanelInv
<1>11. ASSUME NEW box \in Boxes, BoxChanges(box) PROVE PanelInv'
  BY <1>1, <1>11 DEF BoxChanges, PanelInv, terminal
<1>12. ASSUME NEW box \in Boxes, Receive(box) PROVE PanelInv'
  <2>. DEFINE status == box_results[box]
              own == Lists(panel.stored[box], box, status)
              t == IF panel.key = box THEN Lists(panel.tab, box, status) ELSE panel.tab
              on == IF panel.visible THEN "yes" ELSE "ended"
  <2>1. panel.stored[box] # Nothing /\ panel.watching[box] = "yes"
    BY <1>1, <1>12 DEF Receive, WithItsBox
  <2>2. panel' = [panel EXCEPT !.stored[box] = own, !.tab = t, !.watching[box] = on]
    BY <1>12, <2>1 DEF Receive
  <2>3. panel.stored[box] \in ChangeLists /\ panel.tab \in ChangeLists
    BY <1>1, <2>1 DEF WithItsBox, Panels
  <2>4. /\ own \in ChangeLists /\ own.service = panel.stored[box].service
        /\ t \in ChangeLists /\ t.service = panel.tab.service /\ on \in {"yes", "ended"}
    BY <2>3, ListsIsList
  <2>. HIDE DEF own, t, on
  <2>5. WithItsBox(panel')
    BY <1>1, <2>1, <2>2, <2>4, ReceiveKeeps
  <2>. QED
    BY <1>1, <1>12, <2>5 DEF Receive, PanelInv, terminal
<1>13. ASSUME NEW box \in Boxes, ProbeAnswers(box) PROVE PanelInv'
  <2>1. panel.tab.shows \in Boxes \cup {Nothing}
    BY <1>1 DEF WithItsBox, Panels, ChangeLists
  <2>2. PICK c \in Boxes \cup {Nothing} : panel' \in {panel, [panel EXCEPT !.tab.shows = c]}
    BY <1>13, <2>1 DEF ProbeAnswers
  <2>3. WithItsBox(panel')
    BY <1>1, <2>2, ShowsKeeps
  <2>. QED
    BY <1>1, <1>13, <2>3 DEF ProbeAnswers, PanelInv, terminal
<1>14. ASSUME Dealt PROVE PanelInv'
  <2>1. panel' = [panel EXCEPT !.tab.shows = Nothing]
    BY <1>14 DEF Dealt
  <2>2. WithItsBox(panel')
    BY <1>1, <2>1, ShowsKeeps
  <2>. QED
    BY <1>1, <1>14, <2>2 DEF Dealt, PanelInv, terminal
<1>15. CASE UNCHANGED panel_vars
  BY <1>1, <1>15 DEF panel_vars, terminal, PanelInv
<1>. QED
  BY <1>3, <1>4, <1>5, <1>6, <1>7, <1>8, <1>9, <1>10, <1>11, <1>12, <1>13, <1>14, <1>15 DEF PanelNext

\* The visible list is of the sandbox in front and every other list of the sandbox it is kept for,
\* through any number of swaps: Keep and Discard act on the files that are shown
\* (SidePanel::on_sandbox_ready, show_waiting, deactivate).
THEOREM ListsStayTrue == PanelSpec => []ListsStayWithTheirBox
<1>1. PanelInv => ListsStayWithTheirBox
  BY DEF PanelInv, WithItsBox, ListsStayWithTheirBox
<1>. QED
  BY <1>1, PanelInitKeeps, PanelStepKeeps, PTL DEF PanelSpec

-------------------------------------------------------------------------------
(* What the panel says of a file (ReviewFile) *)

\* What a task has read: the host's side first, and no earlier than it began.
Readings == [host : Contents \cup {"unread"}, box : Contents \cup {"unread"}, at : 0 .. Never]
InOrder(r) == r.host = "unread" => r.box = "unread"
RowReadings == [kind : {"stats", "diff"}, stale : BOOLEAN, read : Readings]
TaskStates == [op : {"copy", "remove", "discard", "apply", "write"}, n : Nat, read : Readings]
Rows == [status : Statuses, since : 0 .. Never, stats : 0 .. Never, diff : 0 .. Never, hunks : {"none", "some"},
         diffing : BOOLEAN, expanded : BOOLEAN, staged : BOOLEAN]

FileTypes ==
  /\ hostFile \in Contents /\ overlay \in Contents \cup {Through} /\ changes \in 0 .. MaxChanges
  /\ fsEvents \in Seq({"modify", "delete"}) /\ settling \in {"none", "modify", "delete"}
  /\ cached_status \in Statuses \cup {"none"}
  /\ results \in Seq(Statuses \cup {"removed", "unchanged"})
  /\ listed \in Statuses \cup {"none"} /\ suppressed \in BOOLEAN
  /\ probes \in Seq(Readings) /\ ops \in Nat /\ muddled \in BOOLEAN
  /\ row \in Rows \cup {NoRow} /\ reads \subseteq RowReadings /\ tasks \subseteq TaskStates

\* A row is of what is listed, and what it and its tasks have read is of its last refresh or later.
RowInv ==
  /\ row = NoRow => reads = {}
  /\ row # NoRow => row.status = listed /\ row.since <= changes
  /\ row # NoRow => \A at \in {row.stats, row.diff} : at = Never \/ at \in row.since .. changes
  /\ \A r \in reads : InOrder(r.read)
  /\ \A r \in reads : ~r.stale /\ r.read.host # "unread" => r.read.at \in row.since .. changes

\* What is written to the sandbox is a text.
WritesText == \A task \in tasks : task.op = "write" => task.read.box \in Texts

ProbesInv == \A i \in DOMAIN probes : InOrder(probes[i])

\* What holds whatever was mixed up.
Always == FileTypes /\ DealtWithIsGone /\ RowInv /\ ProbesInv /\ WritesText

Drained == fsEvents = <<>> /\ settling = "none" /\ results = <<>>
Kind == IF boxFile = NoFile THEN "delete" ELSE "modify"
Difference == IF boxFile = NoFile THEN "deleted" ELSE IF hostFile = NoFile THEN "added" ELSE "modified"

\* The last event on its way to the list is of the file as it is.
LastIsTrue ==
  /\ fsEvents # <<>> => fsEvents[Len(fsEvents)] = Kind
  /\ fsEvents = <<>> /\ settling # "none" => settling = Kind
  /\ fsEvents = <<>> /\ settling = "none" /\ results # <<>> => results[Len(results)] = Classified(Kind)

\* A file that is gone is not deleted again: no event is left out as a repeated one.
DeletedOnce ==
  /\ \A i \in 1 .. Len(fsEvents) - 1 : fsEvents[i] = "delete" => fsEvents[i + 1] = "modify"
  /\ settling = "delete" /\ fsEvents # <<>> => fsEvents[1] = "modify"
  /\ cached_status = "deleted" /\ hostFile # NoFile => settling # "delete"
  /\ cached_status = "deleted" /\ hostFile # NoFile /\ settling = "none" /\ fsEvents # <<>>
       => fsEvents[1] = "modify"
  /\ cached_status = "deleted" /\ settling = "none" /\ fsEvents = <<>>
       /\ (\A task \in tasks : task.op \in {"copy", "remove"}) => boxFile = NoFile
  /\ \A i \in DOMAIN results : results[i] # "unchanged"

\* An operation is alone, and what it goes by is the present.
Current(task) ==
  /\ task.op = "copy" /\ task.read.box # "unread" => task.read.box = boxFile
  /\ task.op = "remove" => overlay \in {NoFile, Through}
  /\ task.op = "write" => task.read.box = hostFile /\ hostFile # NoFile
OneTask == tasks # {} => Drained /\ suppressed /\ \E task \in tasks : tasks = {task} /\ Current(task)

\* A probe that will find the difference.
Finds(r) ==
  \/ r.host = "unread"
  \/ r.box = "unread" /\ r.host = hostFile
  \/ r.box # "unread" /\ ~NoDiff(r)

ListInv ==
  tasks = {} /\ Drained =>
    /\ listed \in {"added", "deleted"} => hostFile # boxFile /\ listed = Difference
    /\ hostFile # boxFile /\ listed # Difference =>
         Difference = "modified" /\ listed = "none" /\ ~suppressed /\ \E i \in DOMAIN probes : Finds(probes[i])

RowIsCurrent ==
  tasks = {} /\ Drained /\ row # NoRow =>
    /\ \A r \in reads : ~r.stale /\ r.read.host # "unread" =>
         r.read.at = changes /\ r.read.host = hostFile /\ r.read.box \in {"unread", boxFile}
    /\ row.stats \in {Never, changes}
    /\ row.stats = Never => \E r \in reads : ~r.stale
    /\ row.stats = changes => hostFile # boxFile \/ hostFile \in Binaries

\* What holds as long as no two changes were mixed up.
Unmixed == (tasks = {} => LastIsTrue) /\ DeletedOnce /\ OneTask /\ ListInv /\ RowIsCurrent

FileInv == Always /\ (~muddled => Unmixed)

\* The tags of a reading and of the overlay are no contents.
LEMMA Tags ==
  /\ "unread" \notin Contents /\ Through \notin Contents /\ NoFile \in Contents /\ Texts \subseteq Contents
  /\ NoFile \notin Texts /\ Empty \in Texts /\ Binaries \subseteq Texts \ {Empty}
  /\ MaxChanges \in Nat /\ Never = MaxChanges + 1 /\ MaxOps \in Nat /\ MaxProbes \in Nat /\ MaxReads \in Nat
BY ReviewAssumption DEF Contents, Through, Never

\* The sandbox's file is a content.
LEMMA BoxFileTyped == FileTypes => boxFile \in Contents
BY Tags DEF FileTypes, boxFile

\* A row as it is made, when it is first shown and by a refresh.
LEMMA FirstRow ==
  ASSUME NEW status \in Statuses, NEW e \in BOOLEAN, changes \in 0 .. MaxChanges
  PROVE  LET q == Fresh(status, e) IN
         /\ q \in Rows /\ q.status = status /\ q.since = changes /\ q.stats = Never /\ q.diff = Never
BY Tags DEF Fresh, Rows

\* The lines that were unchecked stay so, or are forgotten.
LEMMA StagedAs ==
  ASSUME NEW v \in Rows, NEW s \in BOOLEAN
  PROVE  LET q == [v EXCEPT !.staged = s] IN
         /\ q \in Rows /\ q.status = v.status /\ q.since = v.since /\ q.stats = v.stats /\ q.diff = v.diff
BY DEF Rows

\* A row as it is made anew by a refresh.
LEMMA FreshRow ==
  ASSUME NEW status \in Statuses, NEW e \in BOOLEAN, NEW s \in BOOLEAN, changes \in 0 .. MaxChanges
  PROVE  LET q == [Fresh(status, e) EXCEPT !.staged = s] IN
         /\ q \in Rows /\ q.status = status /\ q.since = changes /\ q.stats = Never /\ q.diff = Never
<1>. DEFINE v == Fresh(status, e)
<1>1. /\ v \in Rows /\ v.status = status /\ v.since = changes /\ v.stats = Never /\ v.diff = Never
  BY FirstRow
<1>. HIDE DEF v
<1>2. LET q == [v EXCEPT !.staged = s] IN
      /\ q \in Rows /\ q.status = status /\ q.since = changes /\ q.stats = Never /\ q.diff = Never
  BY <1>1, StagedAs
<1>. QED
  BY <1>2 DEF v

\* An expanded row starts its diff.
LEMMA OpenedRow ==
  ASSUME NEW v \in Rows
  PROVE  LET q == [v EXCEPT !.expanded = TRUE, !.diffing = TRUE] IN
         /\ q \in Rows /\ q.status = v.status /\ q.since = v.since /\ q.stats = v.stats /\ q.diff = v.diff
BY DEF Rows

\* A click on the header.
LEMMA ToggledRow ==
  ASSUME NEW v \in Rows
  PROVE  LET q == [v EXCEPT !.expanded = ~@] IN
         /\ q \in Rows /\ q.status = v.status /\ q.since = v.since /\ q.stats = v.stats /\ q.diff = v.diff
BY DEF Rows

\* A line is checked or unchecked.
LEMMA StagedRow ==
  ASSUME NEW v \in Rows
  PROVE  LET q == [v EXCEPT !.staged = ~@] IN
         /\ q \in Rows /\ q.status = v.status /\ q.since = v.since /\ q.stats = v.stats /\ q.diff = v.diff
BY DEF Rows

\* Statistics arrive.
LEMMA StatsRow ==
  ASSUME NEW v \in Rows, NEW n \in 0 .. Never
  PROVE  LET q == [v EXCEPT !.stats = n] IN
         /\ q \in Rows /\ q.status = v.status /\ q.since = v.since /\ q.stats = n /\ q.diff = v.diff
BY DEF Rows

\* A diff arrives, with its statistics.
LEMMA DiffRow ==
  ASSUME NEW v \in Rows, NEW n \in 0 .. Never
  PROVE  LET q == [v EXCEPT !.stats = n, !.diff = n, !.diffing = FALSE] IN
         /\ q \in Rows /\ q.status = v.status /\ q.since = v.since /\ q.stats = n /\ q.diff = n
BY DEF Rows

\* Its lines may be unchecked if it has any.
LEMMA HunksRow ==
  ASSUME NEW v \in Rows, NEW h \in {"none", "some"}
  PROVE  LET q == [v EXCEPT !.hunks = h] IN
         /\ q \in Rows /\ q.status = v.status /\ q.since = v.since /\ q.stats = v.stats /\ q.diff = v.diff
BY DEF Rows

\* Both at once.
LEMMA DiffRowTaken ==
  ASSUME NEW v \in Rows, NEW read, read.at \in 0 .. Never
  PROVE  LET q == WithDiff(v, read) IN
         /\ q \in Rows /\ q.status = v.status /\ q.since = v.since /\ q.stats = read.at /\ q.diff = read.at
<1>. DEFINE n == read.at
            w == [v EXCEPT !.stats = n, !.diff = n, !.diffing = FALSE]
            h == HunksOf(read)
            q == [w EXCEPT !.hunks = h]
<1>1. w \in Rows /\ w.status = v.status /\ w.since = v.since /\ w.stats = n /\ w.diff = n
  BY DiffRow
<1>2. h \in {"none", "some"}
  BY DEF HunksOf
<1>3. q = WithDiff(v, read)
  BY DEF WithDiff
<1>. HIDE DEF w, h
<1>4. /\ q \in Rows /\ q.status = v.status /\ q.since = v.since /\ q.stats = n /\ q.diff = n
  BY <1>1, <1>2, HunksRow
<1>. HIDE DEF q
<1>. QED
  BY <1>3, <1>4

\* No row has the status of the one that stands for none.
LEMMA RowIsARow == \A v \in Rows : v # NoRow /\ v.status # "none"
BY DEF Rows, NoRow, Statuses

\* What one more reading does: the host's side first, then the sandbox's.
LEMMA ReadsOn ==
  ASSUME FileTypes, NEW r \in Readings, r.box = "unread"
  PROVE  /\ ReadOn(r) \in Readings /\ InOrder(ReadOn(r)) /\ ReadOn(r).host # "unread"
         /\ r.host = "unread" => /\ ReadOn(r).host = hostFile /\ ReadOn(r).box = "unread"
                                 /\ ReadOn(r).at = changes
         /\ r.host # "unread" => /\ ReadOn(r).host = r.host /\ ReadOn(r).box = boxFile
                                 /\ ReadOn(r).at = r.at
<1>1. boxFile \in Contents /\ hostFile \in Contents /\ changes \in 0 .. Never
  BY BoxFileTyped, Tags DEF FileTypes
<1>2. CASE r.host = "unread"
  BY <1>1, <1>2, Tags DEF ReadOn, HalfRead, Readings, InOrder
<1>3. CASE r.host # "unread"
  BY <1>1, <1>3, Tags DEF ReadOn, Readings, InOrder
<1>. QED
  BY <1>2, <1>3

\* A step that leaves the list, the row and the probes alone.
LEMMA StaysTrue ==
  ASSUME Always, UNCHANGED <<listed, suppressed, row, reads, probes>>, changes' \in 0 .. MaxChanges, changes <= changes'
  PROVE  DealtWithIsGone' /\ RowInv' /\ ProbesInv'
<1>1. DealtWithIsGone' /\ ProbesInv'
  BY DEF Always, DealtWithIsGone, ProbesInv, InOrder
<1>2. row # NoRow => row.since \in Nat
  BY Tags DEF Always, FileTypes, Rows
<1>3. changes \in Nat /\ changes' \in Nat
  BY Tags DEF Always, FileTypes
<1>4. RowInv'
  BY <1>2, <1>3 DEF Always, RowInv, InOrder
<1>. QED
  BY <1>1, <1>4

\* The sandbox's file changes and its watch reports it.
LEMMA BoxBecomesTyped ==
  ASSUME FileTypes, NEW c \in Contents \cup {Through}, BoxBecomes(c)
  PROVE  overlay' \in Contents \cup {Through} /\ fsEvents' \in Seq({"modify", "delete"})
BY AppendProperties DEF FileTypes, BoxBecomes

\* The agent's writes.
LEMMA AgentTyped == ASSUME Always, AgentWrites PROVE Always'
<1>1. PICK c \in Contents : UNCHANGED hostFile /\ BoxBecomes(c)
  BY DEF AgentWrites
<1>2. overlay' \in Contents \cup {Through} /\ fsEvents' \in Seq({"modify", "delete"})
  BY <1>1, BoxBecomesTyped DEF Always
<1>3. changes' \in 0 .. MaxChanges /\ changes <= changes' /\ muddled' \in BOOLEAN
  BY Tags DEF Always, FileTypes, AgentWrites
<1>4. FileTypes'
  BY <1>1, <1>2, <1>3 DEF Always, FileTypes, AgentWrites, list
<1>. QED
  BY <1>3, <1>4, StaysTrue DEF Always, WritesText, AgentWrites, list

\* The bridge's batches.
LEMMA DrainTyped == ASSUME Always, Drain PROVE Always'
<1>1. /\ fsEvents' \in Seq({"modify", "delete"}) /\ settling' \in {"none", "modify", "delete"}
      /\ muddled' \in BOOLEAN
  BY HeadTailProperties DEF Always, FileTypes, Drain
<1>2. FileTypes'
  BY <1>1 DEF Always, FileTypes, Drain, files, list
<1>. QED
  BY <1>2, StaysTrue DEF Always, WritesText, FileTypes, Drain, files, list

\* The end of a batch.
LEMMA SettleTyped == ASSUME Always, Settle PROVE Always'
<1>. DEFINE status == Classified(settling)
<1>1. status \in {"removed", "deleted", "added", "modified"}
  BY DEF Classified
<1>2. results' \in Seq(Statuses \cup {"removed", "unchanged"})
  <2>1. status \in Statuses \cup {"removed", "unchanged"}
    BY <1>1 DEF Statuses
  <2>2. results' \in {results, Append(results, "unchanged"), Append(results, status)}
    BY DEF Settle
  <2>3. results \in Seq(Statuses \cup {"removed", "unchanged"})
    BY DEF Always, FileTypes
  <2>. HIDE DEF status
  <2>. QED
    BY <2>1, <2>2, <2>3, AppendProperties
<1>3. cached_status' \in Statuses \cup {"none"} /\ settling' = "none"
  BY <1>1 DEF Settle, Statuses
<1>4. FileTypes'
  BY <1>2, <1>3 DEF Always, FileTypes, Settle, files, list
<1>. QED
  BY <1>4, StaysTrue DEF Always, WritesText, FileTypes, Settle, files, list

\* The operations of the user, on their way.
LEMMA TaskTyped ==
  ASSUME Always, NEW task \in tasks,
         TaskReads(task) \/ TaskKeeps(task) \/ TaskDiscards(task) \/ TaskApplies(task)
           \/ TaskWritesBox(task) \/ TaskFails(task)
  PROVE  Always'
<1>1. task \in TaskStates /\ hostFile \in Contents /\ boxFile \in Contents /\ task.read \in Readings
  BY BoxFileTyped DEF Always, FileTypes, TaskStates
<1>2. CASE TaskReads(task)
  <2>1. [HalfRead EXCEPT !.box = boxFile] \in Readings
    <3>1. [HalfRead EXCEPT !.box = boxFile] = [host |-> hostFile, box |-> boxFile, at |-> changes]
      BY DEF HalfRead
    <3>2. changes \in 0 .. Never
      BY Tags DEF Always, FileTypes
    <3>. QED
      BY <1>1, <3>1, <3>2 DEF Readings
  <2>2. ReadOn(task.read) \in Readings
    BY <1>1, <1>2, ReadsOn DEF Always, TaskReads
  <2>3. \A r \in Readings : [task EXCEPT !.read = r] \in TaskStates
    BY <1>1 DEF TaskStates
  <2>4. tasks' \subseteq TaskStates
    BY <1>1, <1>2, <2>1, <2>2, <2>3 DEF Always, FileTypes, TaskReads
  <2>5. FileTypes'
    BY <1>2, <2>4 DEF Always, FileTypes, TaskReads, files, watcher, list
  <2>6. WritesText'
    <3>1. \A r \in Readings : [task EXCEPT !.read = r].op = task.op
      BY <1>1 DEF TaskStates
    <3>2. \A u \in tasks' : u.op = "write" => u \in tasks
      BY <1>2, <2>1, <2>2, <3>1 DEF TaskReads
    <3>. QED
      BY <3>2 DEF Always, WritesText
  <2>. QED
    BY <1>2, <2>5, <2>6, StaysTrue DEF Always, FileTypes, TaskReads, files, list
<1>3. CASE TaskKeeps(task)
  <2>1. hostFile' \in Contents
    BY <1>1, <1>3, Tags DEF TaskKeeps, Readings
  <2>2. changes' \in 0 .. MaxChanges /\ changes <= changes' /\ tasks' \subseteq TaskStates
    BY <1>3, Tags DEF Always, FileTypes, TaskKeeps, TaskEnds
  <2>3. FileTypes'
    BY <1>3, <2>1, <2>2 DEF Always, FileTypes, TaskKeeps, watcher, list
  <2>. QED
    BY <1>3, <2>2, <2>3, StaysTrue DEF Always, TaskKeeps, TaskEnds, WritesText, list
<1>4. CASE TaskDiscards(task)
  <2>1. overlay' \in Contents \cup {Through} /\ fsEvents' \in Seq({"modify", "delete"})
    BY <1>4, BoxBecomesTyped DEF Always, TaskDiscards
  <2>2. changes' \in 0 .. MaxChanges /\ changes <= changes' /\ tasks' \subseteq TaskStates
    BY <1>4, Tags DEF Always, FileTypes, TaskDiscards, TaskEnds
  <2>3. FileTypes'
    BY <1>4, <2>1, <2>2 DEF Always, FileTypes, TaskDiscards, list
  <2>. QED
    BY <1>4, <2>2, <2>3, StaysTrue DEF Always, TaskDiscards, TaskEnds, WritesText, list
<1>5. CASE TaskApplies(task)
  <2>1. PICK text \in Texts : hostFile' = text /\ tasks' = (tasks \ {task}) \cup
                                  {[task EXCEPT !.op = "write", !.read = [@ EXCEPT !.box = text]]}
    BY <1>5 DEF TaskApplies
  <2>2. [task.read EXCEPT !.box = text] \in Readings
    BY <1>1, Tags DEF Readings
  <2>3. \A r \in Readings : [task EXCEPT !.op = "write", !.read = r] \in TaskStates
    BY <1>1 DEF TaskStates
  <2>4. tasks' \subseteq TaskStates
    BY <1>1, <2>1, <2>2, <2>3 DEF Always, FileTypes
  <2>5. changes' \in 0 .. MaxChanges /\ changes <= changes'
    <3>1. changes \in 0 .. MaxChanges /\ changes < MaxChanges /\ changes' = changes + 1
      BY <1>5 DEF Always, FileTypes, TaskApplies
    <3>. QED
      BY <3>1, Tags
  <2>7. hostFile' \in Contents
    BY <2>1, Tags
  <2>6. FileTypes'
    BY <1>5, <2>4, <2>5, <2>7 DEF Always, FileTypes, TaskApplies, watcher, list
  <2>8. WritesText'
    <3>1. [task EXCEPT !.op = "write", !.read = [@ EXCEPT !.box = text]].read.box = text
      BY <1>1 DEF TaskStates, Readings
    <3>. QED
      BY <2>1, <3>1 DEF Always, WritesText
  <2>. QED
    BY <1>5, <2>5, <2>6, <2>8, StaysTrue DEF Always, TaskApplies, list
<1>6. CASE TaskWritesBox(task)
  <2>1. task.read.box \in Contents
    BY <1>6, Tags DEF Always, WritesText, TaskWritesBox
  <2>2. overlay' \in Contents \cup {Through} /\ fsEvents' \in Seq({"modify", "delete"})
    BY <1>6, <2>1, BoxBecomesTyped DEF Always, TaskWritesBox
  <2>3. changes' \in 0 .. MaxChanges /\ changes <= changes' /\ tasks' \subseteq TaskStates
    BY <1>6, Tags DEF Always, FileTypes, TaskWritesBox, TaskEnds
  <2>4. FileTypes'
    BY <1>6, <2>2, <2>3 DEF Always, FileTypes, TaskWritesBox, list
  <2>. QED
    BY <1>6, <2>3, <2>4, StaysTrue DEF Always, TaskWritesBox, TaskEnds, WritesText, list
<1>7. CASE TaskFails(task)
  <2>1. tasks' \subseteq TaskStates
    BY <1>7 DEF Always, FileTypes, TaskFails, TaskEnds
  <2>2. FileTypes'
    BY <1>7, <2>1 DEF Always, FileTypes, TaskFails, files, watcher, list
  <2>. QED
    BY <1>7, <2>2, StaysTrue DEF Always, FileTypes, TaskFails, TaskEnds, WritesText, files, list
<1>. QED
  BY <1>2, <1>3, <1>4, <1>5, <1>6, <1>7

\* A refresh makes every task in flight stale.
LEMMA PurgedReads ==
  ASSUME FileTypes, NEW q \in Purged
  PROVE  q \in RowReadings /\ q.stale /\ \E r \in reads : q.read = r.read
<1>1. PICK r \in reads : q = [r EXCEPT !.stale = TRUE]
  BY DEF Purged
<1>2. r \in RowReadings
  BY DEF FileTypes
<1>3. \A v \in RowReadings : /\ [v EXCEPT !.stale = TRUE] \in RowReadings
                             /\ [v EXCEPT !.stale = TRUE].stale
                             /\ [v EXCEPT !.stale = TRUE].read = v.read
  BY DEF RowReadings
<1>. QED
  BY <1>1, <1>2, <1>3

\* A task of the row begins with nothing read.
LEMMA KickedRead ==
  ASSUME NEW kind \in {"stats", "diff"}
  PROVE  /\ Kick(kind) \in RowReadings /\ ~Kick(kind).stale /\ InOrder(Kick(kind).read)
         /\ Kick(kind).read.host = "unread"
BY Tags DEF Kick, RowReadings, Readings, Unread, InOrder

\* A probe that is done leaves the others as they are.
LEMMA WithoutProbe ==
  ASSUME FileTypes, NEW i \in 1 .. Len(probes)
  PROVE  /\ Without(probes, i) \in Seq(Readings) /\ Len(Without(probes, i)) = Len(probes) - 1
         /\ \A j \in 1 .. Len(probes) - 1 : Without(probes, i)[j] = IF j < i THEN probes[j] ELSE probes[j + 1]
<1>1. probes \in Seq(Readings) /\ Len(probes) \in Nat /\ \A j \in 1 .. Len(probes) : probes[j] \in Readings
  BY LenProperties, ElementOfSeq DEF FileTypes
<1>. QED
  BY <1>1 DEF Without

\* A row that is refreshed, with all its tasks begun anew.
LEMMA RefreshedTyped ==
  ASSUME Always, NEW status \in Statuses, row # NoRow, Refreshed(status)
  PROVE  /\ row' \in Rows /\ row'.status = status /\ row'.since = changes
         /\ row'.stats = Never /\ row'.diff = Never
         /\ reads' \subseteq RowReadings /\ \A r \in reads' : InOrder(r.read)
         /\ \A r \in reads' : ~r.stale => r.read.host = "unread"
         /\ \E r \in reads' : ~r.stale
<1>1. row \in Rows /\ row.expanded \in BOOLEAN /\ row.staged \in BOOLEAN
  BY DEF Always, FileTypes, Rows
<1>. DEFINE e == row.expanded
            s == row.staged /\ status = row.status
<1>2. e \in BOOLEAN /\ s \in BOOLEAN /\ row' = [Fresh(status, e) EXCEPT !.staged = s]
  BY <1>1 DEF Refreshed
<1>. HIDE DEF e, s
<1>3. /\ row' \in Rows /\ row'.status = status /\ row'.since = changes
      /\ row'.stats = Never /\ row'.diff = Never
  BY <1>2, FreshRow DEF Always, FileTypes
<1>4. \A r \in reads' : r \in Purged \/ r = Kick("stats") \/ r = Kick("diff")
  BY DEF Refreshed
<1>5. Kick("stats") \in reads'
  BY DEF Refreshed
<1>6. \A r \in reads' : r \in RowReadings /\ InOrder(r.read) /\ (~r.stale => r.read.host = "unread")
  <2> SUFFICES ASSUME NEW r \in reads'
               PROVE  r \in RowReadings /\ InOrder(r.read) /\ (~r.stale => r.read.host = "unread")
    OBVIOUS
  <2>1. CASE r \in Purged
    BY <2>1, PurgedReads DEF Always, RowInv
  <2>2. CASE r = Kick("stats") \/ r = Kick("diff")
    BY <2>2, KickedRead
  <2>. QED
    BY <1>4, <2>1, <2>2
<1>. QED
  BY <1>3, <1>5, <1>6, KickedRead

\* Without a row there is nothing in flight and nothing shown.
LEMMA NoRowKeeps ==
  ASSUME row' = NoRow, reads' = {}
  PROVE  RowInv' /\ row' \in Rows \cup {NoRow} /\ reads' \subseteq RowReadings
BY DEF RowInv

\* The results of a batch are applied.
LEMMA ApplyTyped == ASSUME Always, ApplyResults PROVE Always'
<1>. DEFINE status == Head(results)
<1>1. /\ results' \in Seq(Statuses \cup {"removed", "unchanged"})
      /\ status \in Statuses \cup {"removed", "unchanged"}
  BY HeadTailProperties DEF Always, FileTypes, ApplyResults
<1>2. /\ ~suppressed' /\ suppressed' \in BOOLEAN
      /\ UNCHANGED <<hostFile, overlay, changes, fsEvents, settling, cached_status, tasks, ops, muddled>>
  BY DEF ApplyResults, files, watcher
<1>3. probes' \in Seq(Readings) /\ ProbesInv'
  <2>1. CASE UNCHANGED probes
    BY <2>1 DEF Always, FileTypes, ProbesInv, InOrder
  <2>2. CASE probes' = Append(probes, Unread)
    <3>1. Unread \in Readings /\ InOrder(Unread)
      BY Tags DEF Unread, Readings, InOrder
    <3>2. /\ probes \in Seq(Readings) /\ probes' \in Seq(Readings)
          /\ \A i \in DOMAIN probes' : probes'[i] = Unread \/ (i \in DOMAIN probes /\ probes'[i] = probes[i])
      BY <2>2, <3>1, AppendProperties DEF Always, FileTypes
    <3>. QED
      BY <3>1, <3>2 DEF Always, ProbesInv
  <2>. QED
    BY <2>1, <2>2 DEF ApplyResults, Unlisted
<1>4. /\ listed' \in Statuses \cup {"none"} /\ row' \in Rows \cup {NoRow} /\ reads' \subseteq RowReadings
      /\ RowInv'
  <2>1. CASE UNCHANGED <<listed, row, reads>>
    BY <1>2, <2>1 DEF Always, FileTypes, RowInv, InOrder
  <2>2. CASE Unlisted
    BY <2>2, NoRowKeeps DEF Unlisted
  <2>3. CASE status \in Statuses /\ listed # "none" /\ listed' = status /\ Refreshes(status)
    <3>1. CASE row = NoRow
      BY <1>2, <2>3, <3>1 DEF Always, FileTypes, RowInv, InOrder, Refreshes
    <3>2. CASE row # NoRow
      <4>. HIDE DEF status
      <4>1. Refreshed(status)
        BY <2>3, <3>2 DEF Refreshes
      <4>2. /\ row' \in Rows /\ row'.status = status /\ row'.since = changes
            /\ row'.stats = Never /\ row'.diff = Never
            /\ reads' \subseteq RowReadings /\ \A r \in reads' : InOrder(r.read)
            /\ \A r \in reads' : ~r.stale => r.read.host = "unread"
        BY <2>3, <3>2, <4>1, RefreshedTyped
      <4>3. changes' = changes /\ changes \in Nat
        BY <1>2, Tags DEF Always, FileTypes
      <4>4. RowInv'
        BY <2>3, <4>2, <4>3, RowIsARow DEF RowInv
      <4>. QED
        BY <2>3, <4>2, <4>4
    <3>. QED
      BY <3>1, <3>2
  <2>4. CASE status \in Statuses /\ listed = "none" /\ listed' = status /\ UNCHANGED <<row, reads>>
    <3>1. row = NoRow
      BY <2>4, RowIsARow DEF Always, FileTypes, RowInv
    <3>. QED
      BY <1>2, <2>4, <3>1, NoRowKeeps DEF Always, RowInv
  <2>. QED
    BY <2>1, <2>2, <2>3, <2>4 DEF ApplyResults
<1>5. FileTypes'
  BY <1>1, <1>2, <1>3, <1>4 DEF Always, FileTypes
<1>. QED
  BY <1>2, <1>3, <1>4, <1>5 DEF Always, DealtWithIsGone, WritesText

\* A probe reads, and adds the file or does not.
LEMMA ProbeTyped ==
  ASSUME Always, NEW i \in 1 .. Len(probes), ProbeReads(i) \/ ProbeAdds(i)
  PROVE  Always'
<1>1. probes \in Seq(Readings) /\ probes[i] \in Readings /\ i \in DOMAIN probes /\ Len(probes) \in Nat
  BY LenProperties, ElementOfSeq DEF Always, FileTypes
<1>2. CASE ProbeReads(i)
  <2>1. ReadOn(probes[i]) \in Readings /\ InOrder(ReadOn(probes[i]))
    BY <1>1, <1>2, ReadsOn DEF Always, ProbeReads
  <2>2. probes' = [probes EXCEPT ![i] = ReadOn(probes[i])]
    BY <1>2 DEF ProbeReads
  <2>3. probes' \in Seq(Readings) /\ DOMAIN probes' = DOMAIN probes
        /\ \A j \in DOMAIN probes : probes'[j] = IF j = i THEN ReadOn(probes[i]) ELSE probes[j]
    BY <1>1, <2>1, <2>2, ExceptSeq
  <2>4. ProbesInv'
    BY <2>1, <2>3 DEF Always, ProbesInv
  <2>5. UNCHANGED <<files, watcher, results, list, row, reads, tasks, ops, muddled>>
    BY <1>2 DEF ProbeReads
  <2>6. FileTypes' /\ RowInv' /\ DealtWithIsGone' /\ WritesText'
    BY <2>3, <2>5 DEF Always, FileTypes, RowInv, InOrder, DealtWithIsGone, WritesText, files, watcher, list
  <2>. QED
    BY <2>4, <2>6 DEF Always
<1>3. CASE ProbeAdds(i)
  <2>1. /\ Without(probes, i) \in Seq(Readings) /\ Len(Without(probes, i)) = Len(probes) - 1
        /\ \A j \in 1 .. Len(probes) - 1 : Without(probes, i)[j] = IF j < i THEN probes[j] ELSE probes[j + 1]
    BY WithoutProbe DEF Always
  <2>2. probes' = Without(probes, i) /\ UNCHANGED <<files, watcher, results, suppressed, row, reads, tasks, ops, muddled>>
    BY <1>3 DEF ProbeAdds
  <2>3. ProbesInv'
    <3> SUFFICES ASSUME NEW j \in DOMAIN probes' PROVE InOrder(probes'[j])
      BY DEF ProbesInv
    <3>1. j \in 1 .. Len(probes) - 1 /\ j \in DOMAIN probes /\ j + 1 \in DOMAIN probes
      BY <1>1, <2>1, <2>2, LenProperties
    <3>. QED
      BY <2>1, <2>2, <3>1 DEF Always, ProbesInv
  <2>4. listed' = listed \/ (listed' = "modified" /\ listed = "none" /\ ~suppressed)
    BY <1>3 DEF ProbeAdds
  <2>5. listed = "none" => row = NoRow /\ reads = {}
    BY RowIsARow DEF Always, FileTypes, RowInv
  <2>6. RowInv'
    <3>1. CASE listed' = listed
      BY <2>2, <3>1 DEF Always, RowInv, InOrder, files
    <3>2. CASE listed = "none"
      BY <2>2, <2>5, <3>2, NoRowKeeps
    <3>. QED
      BY <2>4, <3>1, <3>2
  <2>7. DealtWithIsGone' /\ WritesText'
    BY <2>2, <2>4 DEF Always, DealtWithIsGone, WritesText
  <2>8. FileTypes'
    BY <2>1, <2>2, <2>4 DEF Always, FileTypes, Statuses, files, watcher
  <2>. QED
    BY <2>3, <2>6, <2>7, <2>8 DEF Always
<1>. QED
  BY <1>2, <1>3

\* The row is made, opened and closed, and its lines are checked.
LEMMA RowTyped == ASSUME Always, Render \/ Toggle \/ StageLine PROVE Always'
<1>1. UNCHANGED <<files, watcher, results, list, probes, tasks, ops, muddled>>
  BY DEF Render, Toggle, StageLine
<1>2. row' \in Rows /\ reads' \subseteq RowReadings /\ RowInv'
  <2>1. CASE Render
    <3>1. row' = Fresh(listed, FALSE) /\ listed \in Statuses /\ reads' = {Kick("stats")}
      BY <2>1 DEF Render, Always, FileTypes
    <3>2. /\ row' \in Rows /\ row'.status = listed /\ row'.since = changes
          /\ row'.stats = Never /\ row'.diff = Never
      BY <3>1, FirstRow DEF Always, FileTypes
    <3>3. changes' = changes /\ changes \in Nat /\ listed' = listed
      BY <1>1, Tags DEF Always, FileTypes, files, list
    <3>4. reads' \subseteq RowReadings /\ \A r \in reads' : InOrder(r.read) /\ r.read.host = "unread"
      BY <3>1, KickedRead
    <3>5. row' # NoRow
      BY <3>2, RowIsARow
    <3>6. RowInv'
      BY <3>2, <3>3, <3>4, <3>5 DEF RowInv
    <3>. QED
      BY <3>2, <3>4, <3>6
  <2>2. CASE Toggle \/ StageLine
    <3>1. row \in Rows /\ row # NoRow
      BY <2>2 DEF Toggle, StageLine, Always, FileTypes
    <3>2. row' \in Rows /\ row'.status = row.status /\ row'.since = row.since
          /\ row'.stats = row.stats /\ row'.diff = row.diff
      <4>1. row' \in {[row EXCEPT !.expanded = TRUE, !.diffing = TRUE], [row EXCEPT !.expanded = ~@],
                      [row EXCEPT !.staged = ~@]}
        BY <2>2 DEF Toggle, StageLine
      <4>2. CASE row' = [row EXCEPT !.expanded = TRUE, !.diffing = TRUE]
        BY <3>1, <4>2, OpenedRow
      <4>3. CASE row' = [row EXCEPT !.expanded = ~@]
        BY <3>1, <4>3, ToggledRow
      <4>4. CASE row' = [row EXCEPT !.staged = ~@]
        BY <3>1, <4>4, StagedRow
      <4>. QED
        BY <4>1, <4>2, <4>3, <4>4
    <3>3. reads' \subseteq reads \cup {Kick("diff")}
      BY <2>2 DEF Toggle, StageLine
    <3>4. changes' = changes /\ listed' = listed
      BY <1>1 DEF files, list
    <3>5. reads' \subseteq RowReadings /\ \A r \in reads' : InOrder(r.read)
      BY <3>3, KickedRead DEF Always, FileTypes, RowInv
    <3>6. \A r \in reads' : ~r.stale /\ r.read.host # "unread" => r.read.at \in row'.since .. changes'
      BY <3>2, <3>3, <3>4, KickedRead DEF Always, RowInv
    <3>. QED
      BY <3>1, <3>2, <3>4, <3>5, <3>6, RowIsARow DEF Always, RowInv
  <2>. QED
    BY <2>1, <2>2
<1>3. FileTypes'
  BY <1>1, <1>2 DEF Always, FileTypes, files, watcher, list
<1>. QED
  BY <1>1, <1>2, <1>3 DEF Always, DealtWithIsGone, ProbesInv, InOrder, WritesText, list

\* The row's tasks read, and give what they read to the row.
LEMMA ReadTyped ==
  ASSUME Always, NEW r \in reads, RowReads(r) \/ RowTakes(r)
  PROVE  Always'
<1>1. r \in RowReadings /\ r.read \in Readings /\ InOrder(r.read) /\ row # NoRow /\ row \in Rows
  BY DEF Always, FileTypes, RowInv, RowReadings
<1>2. UNCHANGED <<files, watcher, results, suppressed, probes, tasks, ops, muddled>>
  BY DEF RowReads, RowTakes, list
<1>3. changes' = changes /\ changes \in Nat
  BY <1>2, Tags DEF Always, FileTypes, files
<1>4. CASE RowReads(r)
  <2>. DEFINE q == [r EXCEPT !.read = ReadOn(r.read)]
  <2>1. ReadOn(r.read) \in Readings /\ InOrder(ReadOn(r.read))
    BY <1>1, <1>4, ReadsOn DEF Always, RowReads
  <2>2. q \in RowReadings /\ q.read = ReadOn(r.read) /\ q.stale = r.stale
    BY <1>1, <2>1 DEF RowReadings
  <2>3. reads' = (reads \ {r}) \cup {q} /\ UNCHANGED <<listed, row>>
    BY <1>4 DEF RowReads, list
  <2>. HIDE DEF q
  <2>4. reads' \subseteq RowReadings /\ \A u \in reads' : InOrder(u.read)
    BY <2>1, <2>2, <2>3 DEF Always, FileTypes, RowInv
  <2>5. ASSUME ~q.stale, q.read.host # "unread" PROVE q.read.at \in row.since .. changes
    <3>1. CASE r.read.host = "unread"
      <4>1. q.read.at = changes /\ row.since <= changes /\ row.since \in Nat
        BY <1>1, <1>4, <2>2, <3>1, ReadsOn, Tags DEF Always, RowInv, RowReads, Rows
      <4>. QED
        BY <1>3, <4>1
    <3>2. CASE r.read.host # "unread"
      <4>1. q.read.at = r.read.at
        BY <1>1, <1>4, <2>2, <3>2, ReadsOn DEF Always, RowReads
      <4>. QED
        BY <2>2, <2>5, <3>2, <4>1 DEF Always, RowInv
    <3>. QED
      BY <3>1, <3>2
  <2>6. RowInv'
    BY <1>1, <1>3, <2>3, <2>4, <2>5 DEF Always, RowInv
  <2>7. FileTypes'
    BY <1>2, <2>3, <2>4 DEF Always, FileTypes, files, watcher
  <2>. QED
    BY <1>2, <2>3, <2>6, <2>7 DEF Always, DealtWithIsGone, ProbesInv, InOrder, WritesText
<1>5. CASE RowTakes(r)
  <2>1. RowInv' /\ row' \in Rows \cup {NoRow} /\ reads' \subseteq RowReadings
        /\ listed' \in Statuses \cup {"none"} /\ (listed' = listed \/ listed' = "none")
    <3>1. CASE Unlisted
      BY <3>1, NoRowKeeps DEF Unlisted
    <3>2. CASE reads' = reads \ {r} /\ UNCHANGED <<listed, row>>
      BY <1>1, <1>3, <3>2 DEF Always, FileTypes, RowInv
    <3>3. CASE /\ ~r.stale /\ reads' = reads \ {r} /\ UNCHANGED listed
               /\ row' = IF r.kind = "stats" THEN [row EXCEPT !.stats = r.read.at]
                         ELSE WithDiff(row, r.read)
      <4>1. r.read.at \in 0 .. Never /\ r.read.at \in row.since .. changes
        BY <1>1, <1>5, <3>3 DEF RowTakes, Always, RowInv, InOrder, Readings
      <4>2. /\ row' \in Rows /\ row'.status = row.status /\ row'.since = row.since
            /\ row'.stats = r.read.at /\ row'.diff \in {row.diff, r.read.at}
        <5>1. CASE r.kind = "stats"
          <6>1. row' = [row EXCEPT !.stats = r.read.at]
            BY <3>3, <5>1
          <6>. QED
            BY <1>1, <4>1, <6>1, StatsRow
        <5>2. CASE r.kind # "stats"
          <6>1. row' = WithDiff(row, r.read)
            BY <3>3, <5>2
          <6>2. row \in Rows /\ r.read.at \in 0 .. Never
            BY <1>1, <4>1
          <6>. QED
            BY <6>1, <6>2, DiffRowTaken
        <5>. QED
          BY <5>1, <5>2
      <4>. QED
        BY <1>1, <1>3, <3>3, <4>1, <4>2, RowIsARow DEF Always, FileTypes, RowInv
    <3>. QED
      BY <1>5, <3>1, <3>2, <3>3 DEF RowTakes
  <2>2. FileTypes'
    BY <1>2, <2>1 DEF Always, FileTypes, files, watcher
  <2>. QED
    BY <1>2, <2>1, <2>2 DEF Always, DealtWithIsGone, ProbesInv, InOrder, WritesText
<1>. QED
  BY <1>4, <1>5

\* The user's choice: the file is gone from the list at once.
LEMMA ChoiceTyped == ASSUME Always, Keep \/ Discard \/ Apply PROVE Always'
<1>1. PICK task \in TaskStates : Suppress(task) /\ task.op # "write" /\ task.n = ops /\ task.read = Unread
  <2>1. Unread \in Readings /\ ops \in Nat
    BY Tags DEF Unread, Readings, Always, FileTypes
  <2>2. \A o \in {"copy", "remove", "discard", "apply"} :
          /\ [op |-> o, n |-> ops, read |-> Unread] \in TaskStates
          /\ [op |-> o, n |-> ops, read |-> Unread].op # "write"
    BY <2>1 DEF TaskStates
  <2>. QED
    BY <2>2 DEF Keep, Discard, Apply
<1>2. UNCHANGED <<files, watcher, results, probes>> /\ tasks' = tasks \cup {task}
      /\ listed' = "none" /\ row' = NoRow /\ reads' = {} /\ suppressed' = TRUE /\ ops' = ops + 1 /\ muddled' \in BOOLEAN
  BY <1>1 DEF Suppress, Unlisted, Always, FileTypes
<1>3. RowInv'
  BY <1>2, NoRowKeeps
<1>4. FileTypes'
  BY <1>2 DEF Always, FileTypes, files, watcher
<1>. QED
  BY <1>1, <1>2, <1>3, <1>4 DEF Always, DealtWithIsGone, ProbesInv, InOrder, WritesText

\* A step that leaves both files, the events, the results and the operations alone.
LEMMA SamePipe ==
  ASSUME Unmixed, UNCHANGED <<files, watcher, results, tasks, suppressed>>
  PROVE  (tasks = {} => LastIsTrue)' /\ DeletedOnce' /\ OneTask'
BY DEF Unmixed, files, watcher, LastIsTrue, Kind, Classified, boxFile, DeletedOnce, OneTask, Drained, Current

\* While an operation is under way nothing is listed and nothing is on its way to the list.
LEMMA TaskAlone ==
  ASSUME Always, Unmixed, tasks # {}
  PROVE  Drained /\ suppressed /\ listed = "none" /\ row = NoRow /\ reads = {}
BY RowIsARow DEF Always, FileTypes, DealtWithIsGone, RowInv, Unmixed, OneTask

\* The agent's writes come after what was sent before, and a deletion after a write.
LEMMA AgentUnmixed == ASSUME Always, Unmixed, AgentWrites, ~muddled' PROVE Unmixed'
<1>1. tasks = {} /\ tasks' = {} /\ UNCHANGED <<hostFile, settling, cached_status, results>>
  BY DEF AgentWrites
<1>2. PICK c \in Contents : (c # boxFile \/ c # NoFile) /\ BoxBecomes(c)
  BY DEF AgentWrites
<1>3. boxFile' = c
  BY <1>2, Tags DEF BoxBecomes, boxFile
<1>4. fsEvents' = Append(fsEvents, Kind')
  BY <1>2, <1>3 DEF BoxBecomes, Kind
<1>5. Kind' \in {"modify", "delete"} /\ Kind \in {"modify", "delete"}
  BY DEF Kind
<1>6. Kind' = "delete" => Kind = "modify"
  BY <1>2, <1>3 DEF Kind
<1>. HIDE DEF Kind
<1>7. /\ fsEvents \in Seq({"modify", "delete"}) /\ Len(fsEvents) \in Nat /\ Len(fsEvents') = Len(fsEvents) + 1
      /\ fsEvents' # <<>> /\ fsEvents'[Len(fsEvents')] = Kind'
      /\ \A i \in 1 .. Len(fsEvents) : fsEvents'[i] = fsEvents[i]
  BY <1>4, <1>5, AppendProperties, LenProperties DEF Always, FileTypes
<1>8. LastIsTrue'
  BY <1>7 DEF LastIsTrue
<1>9. fsEvents # <<>> => fsEvents'[1] = fsEvents[1] /\ Len(fsEvents) # 0 /\ fsEvents[Len(fsEvents)] = Kind
  BY <1>1, <1>7, EmptySeq DEF Unmixed, LastIsTrue
<1>10. fsEvents = <<>> => fsEvents'[1] = Kind'
  BY <1>7, EmptySeq
<1>11. \A i \in 1 .. Len(fsEvents') - 1 : fsEvents'[i] = "delete" => fsEvents'[i + 1] = "modify"
  <2> SUFFICES ASSUME NEW i \in 1 .. Len(fsEvents), fsEvents'[i] = "delete" PROVE fsEvents'[i + 1] = "modify"
    BY <1>7
  <2>1. CASE i = Len(fsEvents)
    <3>1. fsEvents[i] = Kind /\ Kind # "modify"
      BY <1>7, <1>9, <2>1
    <3>2. fsEvents'[i + 1] = Kind'
      BY <1>7, <2>1
    <3>. QED
      BY <1>5, <1>6, <3>1, <3>2
  <2>2. CASE i # Len(fsEvents)
    <3>1. i \in 1 .. Len(fsEvents) - 1 /\ i + 1 \in 1 .. Len(fsEvents)
      BY <1>7, <2>2
    <3>. QED
      BY <1>7, <3>1 DEF Unmixed, DeletedOnce
  <2>. QED
    BY <2>1, <2>2
<1>12. settling = "delete" => fsEvents'[1] = "modify"
  BY <1>1, <1>5, <1>6, <1>9, <1>10 DEF Unmixed, DeletedOnce, LastIsTrue
<1>13. cached_status = "deleted" /\ hostFile # NoFile /\ settling = "none" => fsEvents'[1] = "modify"
  <2>1. CASE fsEvents = <<>>
    BY <1>1, <1>5, <1>6, <1>10, <2>1 DEF Unmixed, DeletedOnce, Kind
  <2>2. CASE fsEvents # <<>>
    BY <1>9, <2>2 DEF Unmixed, DeletedOnce
  <2>. QED
    BY <2>1, <2>2
<1>14. DeletedOnce'
  BY <1>1, <1>7, <1>11, <1>12, <1>13 DEF Unmixed, DeletedOnce
<1>15. OneTask' /\ ListInv' /\ RowIsCurrent'
  BY <1>1, <1>7 DEF OneTask, ListInv, RowIsCurrent, Drained
<1>. QED
  BY <1>8, <1>14, <1>15 DEF Unmixed

\* A batch that mixes no two events.
LEMMA DrainUnmixed == ASSUME Always, Unmixed, Drain, ~muddled' PROVE Unmixed'
<1>1. tasks = {} /\ tasks' = {} /\ UNCHANGED <<hostFile, overlay, cached_status, results>> /\ boxFile' = boxFile
  BY DEF Drain, Unmixed, OneTask, Drained, files, boxFile
<1>2. /\ fsEvents # <<>> /\ fsEvents' = Tail(fsEvents) /\ settling \in {"none", Head(fsEvents)}
      /\ settling' = Head(fsEvents)
  BY DEF Drain
<1>3. /\ fsEvents \in Seq({"modify", "delete"}) /\ Len(fsEvents) \in Nat \ {0} /\ Len(fsEvents') = Len(fsEvents) - 1
      /\ Head(fsEvents) = fsEvents[1] /\ fsEvents[1] \in {"modify", "delete"}
      /\ \A i \in 1 .. Len(fsEvents) - 1 : fsEvents'[i] = fsEvents[i + 1]
      /\ fsEvents' \in Seq({"modify", "delete"})
  BY <1>2, HeadTailProperties, LenProperties, EmptySeq, ElementOfSeq DEF Always, FileTypes
<1>4. fsEvents' # <<>> => Len(fsEvents') # 0 /\ fsEvents'[Len(fsEvents')] = fsEvents[Len(fsEvents)]
                          /\ fsEvents'[1] = fsEvents[2] /\ 1 \in 1 .. Len(fsEvents) - 1
  BY <1>3, EmptySeq
<1>5. fsEvents' = <<>> => Len(fsEvents) = 1
  BY <1>3, EmptySeq
<1>6. LastIsTrue'
  BY <1>1, <1>2, <1>3, <1>4, <1>5 DEF Unmixed, LastIsTrue, Kind
<1>7. \A i \in 1 .. Len(fsEvents') - 1 : fsEvents'[i] = "delete" => fsEvents'[i + 1] = "modify"
  BY <1>3 DEF Unmixed, DeletedOnce
<1>8. settling' = "delete" /\ fsEvents' # <<>> => fsEvents'[1] = "modify"
  BY <1>2, <1>3, <1>4 DEF Unmixed, DeletedOnce
<1>9. cached_status = "deleted" /\ hostFile # NoFile => settling' # "delete"
  BY <1>2, <1>3 DEF Unmixed, DeletedOnce
<1>10. DeletedOnce'
  BY <1>1, <1>2, <1>3, <1>7, <1>8, <1>9 DEF Unmixed, DeletedOnce
<1>11. OneTask' /\ ListInv' /\ RowIsCurrent'
  BY <1>1, <1>2, <1>3 DEF OneTask, ListInv, RowIsCurrent, Drained
<1>. QED
  BY <1>6, <1>10, <1>11 DEF Unmixed

\* A batch is classified by the file it leaves, and is no repetition.
LEMMA SettleUnmixed == ASSUME Always, Unmixed, Settle PROVE Unmixed'
<1>. DEFINE status == Classified(settling)
<1>1. /\ tasks = {} /\ tasks' = {} /\ UNCHANGED <<hostFile, overlay, fsEvents>> /\ boxFile' = boxFile
      /\ settling # "none" /\ settling' = "none"
  BY DEF Settle, Unmixed, OneTask, Drained, files, boxFile
<1>2. status = "deleted" => settling = "delete" /\ hostFile # NoFile /\ cached_status # "deleted"
  BY DEF Classified, Unmixed, DeletedOnce
<1>3. status \in {"removed", "deleted", "added", "modified"}
  BY DEF Classified
<1>4. results' = Append(results, status) /\ cached_status' = IF status = "removed" THEN "none" ELSE status
  BY <1>2 DEF Settle
<1>5. fsEvents = <<>> => settling = Kind /\ status = Classified(Kind)
  BY <1>1 DEF Unmixed, LastIsTrue
<1>6. Kind' = Kind /\ Classified(Kind)' = Classified(Kind)
  BY <1>1 DEF Kind, Classified
<1>. HIDE DEF status
<1>7. /\ results' # <<>> /\ results'[Len(results')] = status
      /\ \A i \in DOMAIN results' : results'[i] = status \/ (i \in DOMAIN results /\ results'[i] = results[i])
  <2>1. results \in Seq(Statuses \cup {"removed", "unchanged"}) /\ status \in Statuses \cup {"removed", "unchanged"}
    BY <1>3 DEF Always, FileTypes, Statuses
  <2>. QED
    BY <1>4, <2>1, AppendProperties, LenProperties
<1>8. LastIsTrue'
  BY <1>1, <1>5, <1>6, <1>7 DEF LastIsTrue, Unmixed
<1>9. DeletedOnce'
  <2>1. \A i \in DOMAIN results' : results'[i] # "unchanged"
    BY <1>3, <1>7 DEF Unmixed, DeletedOnce
  <2>2. cached_status' = "deleted" => settling = "delete"
    BY <1>2, <1>4
  <2>3. cached_status' = "deleted" /\ fsEvents = <<>> => boxFile = NoFile
    BY <1>5, <2>2 DEF Kind
  <2>. QED
    BY <1>1, <2>1, <2>2, <2>3 DEF Unmixed, DeletedOnce
<1>10. OneTask' /\ ListInv' /\ RowIsCurrent'
  BY <1>1, <1>7 DEF OneTask, ListInv, RowIsCurrent, Drained
<1>. QED
  BY <1>8, <1>9, <1>10 DEF Unmixed

\* With the last result the list says of the file what it is, or a probe will.
LEMMA ApplyUnmixed == ASSUME Always, Unmixed, ApplyResults PROVE Unmixed'
<1>. DEFINE status == Head(results)
<1>1. /\ tasks = {} /\ UNCHANGED <<files, watcher, tasks, ops, muddled>> /\ boxFile' = boxFile
      /\ results # <<>> /\ results' = Tail(results) /\ ~suppressed'
  BY DEF ApplyResults, Unmixed, OneTask, Drained, files, boxFile
<1>2. Kind' = Kind /\ Classified(Kind)' = Classified(Kind) /\ Difference' = Difference
  BY <1>1 DEF Kind, Classified, Difference, files
<1>3. /\ results \in Seq(Statuses \cup {"removed", "unchanged"}) /\ Len(results) \in Nat \ {0}
      /\ status = results[1] /\ Len(results') = Len(results) - 1
      /\ \A i \in 1 .. Len(results) - 1 : results'[i] = results[i + 1]
      /\ results' \in Seq(Statuses \cup {"removed", "unchanged"})
  BY <1>1, HeadTailProperties, LenProperties, EmptySeq DEF Always, FileTypes
<1>4. results' # <<>> => Len(results') # 0 /\ results'[Len(results')] = results[Len(results)]
  BY <1>3, EmptySeq
<1>5. LastIsTrue'
  BY <1>1, <1>2, <1>4 DEF Unmixed, LastIsTrue, watcher
<1>6. DeletedOnce'
  <2>1. \A i \in 1 .. Len(results) : results[i] # "unchanged"
    BY <1>3, LenProperties DEF Unmixed, DeletedOnce
  <2>2. DOMAIN results' = 1 .. Len(results) - 1
    BY <1>3, LenProperties
  <2>3. \A i \in 1 .. Len(results) - 1 : i + 1 \in 1 .. Len(results)
    BY <1>3
  <2>4. \A i \in DOMAIN results' : results'[i] # "unchanged"
    BY <1>3, <2>1, <2>2, <2>3
  <2>. QED
    BY <1>1, <2>4 DEF Unmixed, DeletedOnce, files, watcher
<1>7. OneTask'
  BY <1>1 DEF OneTask
<1>8. Drained' => status = Classified(Kind) /\ Drained' /\ status # "unchanged"
  BY <1>1, <1>3, EmptySeq DEF Drained, Unmixed, LastIsTrue, DeletedOnce, watcher, Classified
<1>9. ASSUME Drained'
      PROVE  /\ status \in Statuses \cup {"removed"}
             /\ status \in Statuses => status = Difference
             /\ status \in {"added", "deleted"} => hostFile # boxFile
             /\ status = "removed" => hostFile = boxFile
  BY <1>9, <1>8 DEF Kind, Classified, Difference, Statuses
<1>. HIDE DEF status
<1>10. ListInv'
  <2> SUFFICES ASSUME Drained'
               PROVE  /\ listed' \in {"added", "deleted"} => hostFile # boxFile /\ listed' = Difference
                      /\ hostFile # boxFile /\ listed' # Difference =>
                           /\ Difference = "modified" /\ listed' = "none"
                           /\ \E i \in DOMAIN probes' : Finds(probes[i])'
    BY <1>1, <1>2 DEF ListInv, files
  <2>1. CASE status = "removed" /\ Unlisted
    BY <1>9, <2>1 DEF Unlisted
  <2>2. CASE status \in Statuses /\ listed' = status
    BY <1>9, <2>2
  <2>3. CASE status = "modified" /\ listed = "none" /\ probes' = Append(probes, Unread) /\ UNCHANGED listed
    <3>1. status = Difference
      BY <1>9, <2>3 DEF Statuses
    <3>2. Len(probes) + 1 \in DOMAIN probes' /\ probes'[Len(probes) + 1] = Unread
      BY <2>3, AppendProperties, LenProperties, Tags DEF Always, FileTypes, Unread, Readings
    <3>3. \A i : probes'[i] = Unread => Finds(probes[i])'
      BY DEF Finds, Unread
    <3>. QED
      BY <2>3, <3>1, <3>2, <3>3
  <2>. QED
    BY <1>8, <1>9, <2>1, <2>2, <2>3 DEF ApplyResults, status
<1>11. RowIsCurrent'
  <2> SUFFICES ASSUME Drained', row' # NoRow PROVE RowIsCurrent'
    BY DEF RowIsCurrent
  <2>1. status \in Statuses /\ Refreshed(status) /\ row # NoRow
    <3>1. listed = "none" => row = NoRow
      BY RowIsARow DEF Always, FileTypes, RowInv
    <3>. QED
      BY <1>8, <1>9, <3>1 DEF ApplyResults, Unlisted, Refreshes, status
  <2>2. /\ row'.stats = Never /\ \A r \in reads' : ~r.stale => r.read.host = "unread"
        /\ \E r \in reads' : ~r.stale
    BY <2>1, RefreshedTyped
  <2>3. changes' \in 0 .. MaxChanges /\ Never # changes'
    BY <1>1, Tags DEF Always, FileTypes, files
  <2>. QED
    BY <2>2, <2>3 DEF RowIsCurrent
<1>. QED
  BY <1>5, <1>6, <1>7, <1>10, <1>11 DEF Unmixed

\* A probe's reading still finds the difference that is there, and then adds it.
LEMMA ProbeUnmixed ==
  ASSUME Always, Unmixed, NEW i \in 1 .. Len(probes), ProbeReads(i) \/ ProbeAdds(i)
  PROVE  Unmixed'
<1>1. probes \in Seq(Readings) /\ probes[i] \in Readings /\ i \in DOMAIN probes /\ Len(probes) \in Nat
      /\ DOMAIN probes = 1 .. Len(probes) /\ InOrder(probes[i])
  BY LenProperties, ElementOfSeq DEF Always, FileTypes, ProbesInv
<1>2. UNCHANGED <<files, watcher, results, suppressed, row, reads, tasks>>
  BY DEF ProbeReads, ProbeAdds, list
<1>3. /\ boxFile' = boxFile /\ hostFile' = hostFile /\ Difference' = Difference /\ Drained' = Drained
      /\ (tasks = {} => LastIsTrue)' /\ DeletedOnce' /\ OneTask' /\ RowIsCurrent'
  BY <1>2, SamePipe DEF boxFile, files, Difference, Drained, watcher, Unmixed, RowIsCurrent
<1>4. \A r : Finds(r)' = Finds(r)
  BY <1>3 DEF Finds, NoDiff, IsBinary, Text
<1>5. ASSUME tasks = {}, Drained
      PROVE  /\ listed' \in {"added", "deleted"} => hostFile # boxFile /\ listed' = Difference
             /\ hostFile # boxFile /\ listed' # Difference =>
                  Difference = "modified" /\ listed' = "none" /\ ~suppressed
                  /\ \E j \in DOMAIN probes' : Finds(probes'[j])
  <2>1. /\ listed \in {"added", "deleted"} => hostFile # boxFile /\ listed = Difference
        /\ hostFile # boxFile /\ listed # Difference =>
              Difference = "modified" /\ listed = "none" /\ ~suppressed /\ \E j \in DOMAIN probes : Finds(probes[j])
    BY <1>5 DEF Unmixed, ListInv
  <2>2. CASE ProbeReads(i)
    <3>1. listed' = listed /\ probes' = [probes EXCEPT ![i] = ReadOn(probes[i])] /\ probes[i].box = "unread"
      BY <2>2 DEF ProbeReads, list
    <3>2. Finds(probes[i]) /\ hostFile # boxFile /\ Difference = "modified" => Finds(ReadOn(probes[i]))
      <4> SUFFICES ASSUME Finds(probes[i]), hostFile # boxFile, Difference = "modified"
                   PROVE  Finds(ReadOn(probes[i]))
        OBVIOUS
      <4>1. CASE probes[i].host = "unread"
        BY <1>1, <3>1, <4>1, ReadsOn DEF Always, Finds
      <4>2. CASE probes[i].host # "unread"
        <5>1. probes[i].host = hostFile
          BY <3>1, <4>2 DEF Finds
        <5>2. ReadOn(probes[i]).host = hostFile /\ ReadOn(probes[i]).box = boxFile
          BY <1>1, <3>1, <4>2, <5>1, ReadsOn DEF Always
        <5>3. hostFile # NoFile /\ boxFile # NoFile /\ boxFile # "unread"
          BY BoxFileTyped, Tags DEF Difference, Always
        <5>. QED
          BY <5>2, <5>3 DEF Finds, NoDiff, IsBinary, Text
      <4>. QED
        BY <4>1, <4>2
    <3>3. \A j \in DOMAIN probes : j \in DOMAIN probes' /\ (j # i => probes'[j] = probes[j])
                                 /\ (j = i => probes'[j] = ReadOn(probes[i]))
      BY <1>1, <3>1
    <3>. QED
      BY <2>1, <3>1, <3>2, <3>3
  <2>3. CASE ProbeAdds(i)
    <3>1. probes' = Without(probes, i) /\ probes[i].box # "unread"
          /\ listed' = IF NoDiff(probes[i]) \/ suppressed \/ listed # "none" THEN listed ELSE "modified"
      BY <2>3 DEF ProbeAdds
    <3>2. CASE listed' = listed
      <4> SUFFICES ASSUME hostFile # boxFile, listed # Difference
                   PROVE  \E j \in DOMAIN probes' : Finds(probes'[j])
        BY <2>1, <3>2
      <4>1. PICK j \in DOMAIN probes : Finds(probes[j])
        BY <2>1
      <4>2. listed = "none" /\ ~suppressed
        BY <2>1
      <4>3. NoDiff(probes[i])
        BY <3>1, <3>2, <4>2
      <4>4. probes[i].host # "unread"
        BY <1>1, <3>1 DEF InOrder
      <4>5. j # i
        BY <3>1, <4>1, <4>3, <4>4 DEF Finds
      <4>6. /\ Len(probes') = Len(probes) - 1 /\ DOMAIN probes' = 1 .. Len(probes) - 1
            /\ \A k \in 1 .. Len(probes) - 1 : probes'[k] = IF k < i THEN probes[k] ELSE probes[k + 1]
        BY <3>1, WithoutProbe, LenProperties DEF Always
      <4>7. CASE j < i
        BY <1>1, <4>1, <4>6, <4>7
      <4>8. CASE j > i
        <5>1. j - 1 \in 1 .. Len(probes) - 1 /\ ~(j - 1 < i) /\ j - 1 + 1 = j
          BY <1>1, <4>8
        <5>. QED
          BY <4>1, <4>6, <5>1
      <4>. QED
        BY <1>1, <4>5, <4>7, <4>8
    <3>3. CASE listed = "none" /\ listed' = "modified"
      BY <2>1, <3>3 DEF Difference
    <3>. QED
      BY <3>1, <3>2, <3>3
  <2>. QED
    BY <2>2, <2>3
<1>6. ListInv'
  BY <1>2, <1>3, <1>4, <1>5 DEF ListInv
<1>. QED
  BY <1>3, <1>6 DEF Unmixed

\* A row that is made, opened, closed or staged shows no less of the present.
LEMMA RowUnmixed == ASSUME Always, Unmixed, Render \/ Toggle \/ StageLine PROVE Unmixed'
<1>1. UNCHANGED <<files, watcher, results, list, probes, tasks, ops, muddled>>
  BY DEF Render, Toggle, StageLine
<1>2. /\ boxFile' = boxFile /\ hostFile' = hostFile /\ Difference' = Difference /\ Drained' = Drained
      /\ (tasks = {} => LastIsTrue)' /\ DeletedOnce' /\ OneTask'
  BY <1>1, SamePipe DEF boxFile, files, list, Difference, Drained, watcher
<1>3. ListInv'
  BY <1>1, <1>2 DEF Unmixed, ListInv, Finds, NoDiff, IsBinary, Text, list
<1>4. RowIsCurrent'
  <2>1. changes' = changes /\ changes # Never /\ tasks' = tasks
    BY <1>1, Tags DEF Always, FileTypes, files
  <2>2. CASE Render
    <3>1. row' = Fresh(listed, FALSE) /\ listed \in Statuses /\ reads' = {Kick("stats")}
      BY <2>2 DEF Render, Always, FileTypes
    <3>2. row'.stats = Never
      BY <3>1, FirstRow DEF Always, FileTypes
    <3>. QED
      BY <2>1, <3>1, <3>2, KickedRead DEF RowIsCurrent
  <2>3. CASE Toggle \/ StageLine
    <3>1. row \in Rows /\ row # NoRow
      BY <2>3 DEF Toggle, StageLine, Always, FileTypes
    <3>2. row'.stats = row.stats
      <4>1. row' \in {[row EXCEPT !.expanded = TRUE, !.diffing = TRUE], [row EXCEPT !.expanded = ~@],
                      [row EXCEPT !.staged = ~@]}
        BY <2>3 DEF Toggle, StageLine
      <4>2. CASE row' = [row EXCEPT !.expanded = TRUE, !.diffing = TRUE]
        BY <3>1, <4>2, OpenedRow
      <4>3. CASE row' = [row EXCEPT !.expanded = ~@]
        BY <3>1, <4>3, ToggledRow
      <4>4. CASE row' = [row EXCEPT !.staged = ~@]
        BY <3>1, <4>4, StagedRow
      <4>. QED
        BY <4>1, <4>2, <4>3, <4>4
    <3>3. reads' \subseteq reads \cup {Kick("diff")} /\ reads \subseteq reads'
      BY <2>3 DEF Toggle, StageLine
    <3>. QED
      BY <1>2, <2>1, <3>1, <3>2, <3>3, KickedRead DEF Unmixed, RowIsCurrent
  <2>. QED
    BY <2>2, <2>3
<1>. QED
  BY <1>2, <1>3, <1>4 DEF Unmixed

\* What the row's tasks read when everything has been applied is the present, and a modified file
\* they find no difference in has none.
LEMMA ReadUnmixed ==
  ASSUME Always, Unmixed, NEW r \in reads, RowReads(r) \/ RowTakes(r)
  PROVE  Unmixed'
<1>1. r \in RowReadings /\ r.read \in Readings /\ InOrder(r.read) /\ row # NoRow /\ row \in Rows
  BY DEF Always, FileTypes, RowInv, RowReadings
<1>2. UNCHANGED <<files, watcher, results, suppressed, probes, tasks, ops, muddled>>
  BY DEF RowReads, RowTakes, list
<1>3. /\ boxFile' = boxFile /\ hostFile' = hostFile /\ changes' = changes /\ Difference' = Difference /\ Drained' = Drained
      /\ tasks' = tasks /\ (tasks = {} => LastIsTrue)' /\ DeletedOnce' /\ OneTask'
  BY <1>2, SamePipe DEF boxFile, files, Difference, Drained, watcher
<1>4. boxFile \in Contents /\ hostFile \in Contents /\ changes # Never
  BY BoxFileTyped, Tags DEF Always, FileTypes
<1>5. listed' = listed => ListInv'
  BY <1>2, <1>3 DEF Unmixed, ListInv, Finds, NoDiff, IsBinary, Text
<1>6. CASE RowReads(r)
  <2>. DEFINE q == [r EXCEPT !.read = ReadOn(r.read)]
  <2>1. ReadOn(r.read) \in Readings
    BY <1>1, <1>6, ReadsOn DEF Always, RowReads
  <2>2. q.read = ReadOn(r.read) /\ q.stale = r.stale
    BY <1>1, <2>1 DEF RowReadings
  <2>3. reads' = (reads \ {r}) \cup {q} /\ UNCHANGED <<listed, row>> /\ r.read.box = "unread"
    BY <1>6 DEF RowReads, list
  <2>. HIDE DEF q
  <2>4. ASSUME tasks = {}, Drained, ~q.stale
        PROVE  q.read.at = changes /\ q.read.host = hostFile /\ q.read.box \in {"unread", boxFile}
    <3>1. CASE r.read.host = "unread"
      BY <1>1, <2>2, <2>3, <3>1, ReadsOn DEF Always
    <3>2. CASE r.read.host # "unread"
      <4>1. r.read.at = changes /\ r.read.host = hostFile
        BY <1>1, <2>2, <2>4, <3>2 DEF Unmixed, RowIsCurrent
      <4>. QED
        BY <1>1, <2>2, <2>3, <3>2, <4>1, ReadsOn DEF Always
    <3>. QED
      BY <3>1, <3>2
  <2>5. RowIsCurrent'
    BY <1>1, <1>3, <2>2, <2>3, <2>4 DEF Unmixed, RowIsCurrent
  <2>. QED
    BY <1>3, <1>5, <2>3, <2>5 DEF Unmixed
<1>7. CASE RowTakes(r)
  <2>1. r.read.box # "unread" /\ r.read.host # "unread"
    BY <1>1, <1>7 DEF RowTakes, InOrder
  <2>2. ASSUME tasks = {}, Drained, ~r.stale
        PROVE  /\ r.read.at = changes /\ r.read.host = hostFile /\ r.read.box = boxFile
               /\ NoDiff(r.read) /\ row.status = "modified" => hostFile = boxFile
               /\ ~(NoDiff(r.read) /\ row.status = "modified") => hostFile # boxFile \/ hostFile \in Binaries
    <3>1. r.read.at = changes /\ r.read.host = hostFile /\ r.read.box = boxFile
      BY <1>1, <2>1, <2>2 DEF Unmixed, RowIsCurrent
    <3>2. row.status = listed /\ listed \in {"modified", "added", "deleted"}
      BY <1>1, RowIsARow DEF Always, RowInv, Rows, Statuses
    <3>3. ASSUME NoDiff(r.read), row.status = "modified", hostFile # boxFile PROVE FALSE
      <4>1. Difference = "modified"
        BY <2>2, <3>2, <3>3 DEF Unmixed, ListInv
      <4>. QED
        BY <3>1, <3>3, <4>1 DEF Difference, NoDiff, IsBinary, Text
    <3>4. ASSUME ~(NoDiff(r.read) /\ row.status = "modified") PROVE hostFile # boxFile \/ hostFile \in Binaries
      BY <2>2, <3>1, <3>2, <3>4 DEF Unmixed, ListInv, NoDiff, IsBinary
    <3>. QED
      BY <3>1, <3>3, <3>4
  <2>3. CASE r.stale /\ reads' = reads \ {r} /\ UNCHANGED <<listed, row>>
    <3>1. RowIsCurrent'
      BY <1>3, <2>3 DEF Unmixed, RowIsCurrent
    <3>. QED
      BY <1>3, <1>5, <2>3, <3>1 DEF Unmixed
  <2>4. CASE ~r.stale /\ NoDiff(r.read) /\ row.status = "modified" /\ Unlisted
    <3>1. ListInv' /\ RowIsCurrent'
      BY <1>3, <2>2, <2>4 DEF Unlisted, ListInv, RowIsCurrent
    <3>. QED
      BY <1>3, <3>1 DEF Unmixed
  <2>5. CASE /\ ~r.stale /\ ~(NoDiff(r.read) /\ row.status = "modified")
             /\ reads' = reads \ {r} /\ UNCHANGED listed
             /\ row' = IF r.kind = "stats" THEN [row EXCEPT !.stats = r.read.at]
                       ELSE WithDiff(row, r.read)
    <3>1. r.read.at \in 0 .. Never
      BY <1>1 DEF Readings
    <3>2. row'.stats = r.read.at
      <4>2. CASE r.kind = "stats"
        BY <1>1, <2>5, <3>1, <4>2, StatsRow
      <4>3. CASE r.kind # "stats"
        <5>1. row' = WithDiff(row, r.read)
          BY <2>5, <4>3
        <5>. QED
          BY <1>1, <3>1, <5>1, DiffRowTaken
      <4>. QED
        BY <4>2, <4>3
    <3>3. RowIsCurrent'
      BY <1>1, <1>3, <1>4, <2>2, <2>5, <3>2 DEF Unmixed, RowIsCurrent
    <3>. QED
      BY <1>3, <1>5, <2>5, <3>3 DEF Unmixed
  <2>. QED
    BY <1>7, <2>3, <2>4, <2>5 DEF RowTakes
<1>. QED
  BY <1>6, <1>7

\* An operation begins when nothing is on its way to the list, or is mixed up with what is.
LEMMA ChoiceUnmixed == ASSUME Always, Unmixed, Keep \/ Discard \/ Apply, ~muddled' PROVE Unmixed'
<1>1. PICK task : /\ Suppress(task) /\ task.read = Unread /\ task.op # "write"
                  /\ task.op = "remove" => listed = "deleted"
  BY DEF Keep, Discard, Apply
<1>2. /\ tasks = {} /\ Drained /\ tasks' = {task} /\ suppressed'
      /\ UNCHANGED <<files, watcher, results>> /\ boxFile' = boxFile
  BY <1>1 DEF Suppress, Drained, files, boxFile
<1>3. Drained'
  BY <1>2 DEF Drained, watcher
<1>4. task.op = "remove" => overlay \in {NoFile, Through}
  BY <1>1, <1>2 DEF Unmixed, ListInv, Difference, boxFile
<1>5. Current(task)'
  BY <1>1, <1>2, <1>4 DEF Current, Unread, files
<1>6. OneTask'
  BY <1>2, <1>3, <1>5 DEF OneTask
<1>7. DeletedOnce'
  BY <1>2 DEF Unmixed, DeletedOnce, files, watcher
<1>. QED
  BY <1>2, <1>6, <1>7 DEF Unmixed, ListInv, RowIsCurrent

\* An operation ends with both sides alike, and says so to the watcher when it changed the sandbox's.
LEMMA TaskUnmixed ==
  ASSUME Always, Unmixed, NEW task \in tasks,
         TaskReads(task) \/ TaskKeeps(task) \/ TaskDiscards(task) \/ TaskApplies(task) \/ TaskWritesBox(task)
  PROVE  Unmixed'
<1>1. /\ Drained /\ suppressed /\ listed = "none" /\ row = NoRow /\ tasks = {task} /\ Current(task)
  BY TaskAlone DEF Unmixed, OneTask
<1>2. /\ UNCHANGED <<listed, suppressed, row, results, settling, cached_status>>
      /\ settling = "none" /\ fsEvents = <<>> /\ results = <<>>
  BY <1>1 DEF TaskReads, TaskKeeps, TaskDiscards, TaskApplies, TaskWritesBox, list, watcher, Drained
<1>3. /\ hostFile \in Contents /\ boxFile \in Contents /\ task \in TaskStates /\ task.read \in Readings
      /\ overlay \in Contents \cup {Through}
  BY BoxFileTyped DEF Always, FileTypes, TaskStates
<1>4. RowIsCurrent'
  BY <1>1, <1>2 DEF RowIsCurrent
<1>5. CASE TaskReads(task)
  <2>. DEFINE read == IF task.op = "copy" THEN [HalfRead EXCEPT !.box = boxFile] ELSE ReadOn(task.read)
              q == [task EXCEPT !.read = read]
  <2>1. tasks' = {q} /\ q.op = task.op /\ q.read = read /\ task.op \in {"copy", "apply"}
    BY <1>1, <1>3, <1>5 DEF TaskReads, TaskStates
  <2>2. task.op = "copy" => read.box = boxFile
    BY DEF HalfRead
  <2>. HIDE DEF q, read
  <2>3. UNCHANGED <<files, watcher>> /\ boxFile' = boxFile
    BY <1>5 DEF TaskReads, files, boxFile
  <2>4. OneTask'
    BY <1>1, <1>2, <2>1, <2>2, <2>3 DEF OneTask, Drained, Current, watcher
  <2>5. DeletedOnce'
    BY <1>1, <1>2, <2>1, <2>3 DEF Unmixed, DeletedOnce, watcher, files
  <2>. QED
    BY <1>4, <2>1, <2>4, <2>5 DEF Unmixed, ListInv
<1>6. CASE TaskKeeps(task)
  <2>1. tasks' = {} /\ UNCHANGED <<overlay, fsEvents>> /\ Drained'
    BY <1>1, <1>2, <1>6 DEF TaskKeeps, TaskEnds, watcher, Drained
  <2>2. boxFile' = hostFile' /\ (boxFile = NoFile => boxFile' = NoFile)
    <3>1. CASE task.op = "remove"
      BY <1>1, <1>6, <2>1, <3>1 DEF TaskKeeps, Current, boxFile
    <3>2. CASE task.op = "copy" /\ task.read.box \notin {"unread", NoFile}
      <4>1. hostFile' = boxFile /\ boxFile # NoFile
        BY <1>1, <1>6, <3>2 DEF TaskKeeps, Current
      <4>. QED
        BY <2>1, <4>1 DEF boxFile
    <3>. QED
      BY <1>6, <3>1, <3>2 DEF TaskKeeps
  <2>3. DeletedOnce'
    <3>1. task.op \in {"copy", "remove"}
      BY <1>6 DEF TaskKeeps
    <3>. QED
      BY <1>1, <1>2, <2>1, <2>2, <3>1 DEF Unmixed, DeletedOnce
  <2>. QED
    BY <1>1, <1>2, <1>4, <2>1, <2>2, <2>3 DEF Unmixed, LastIsTrue, OneTask, ListInv, Drained
<1>7. CASE TaskDiscards(task) \/ TaskWritesBox(task)
  <2>1. PICK c \in Contents \cup {Through} : /\ BoxBecomes(c) /\ c \in {Through, hostFile} /\ UNCHANGED hostFile
    <3>1. CASE TaskDiscards(task)
      BY <3>1 DEF TaskDiscards
    <3>2. CASE TaskWritesBox(task)
      BY <1>1, <1>3, <3>2 DEF TaskWritesBox, Current
    <3>. QED
      BY <1>7, <3>1, <3>2
  <2>2. boxFile' = hostFile /\ tasks' = {}
    BY <1>1, <1>3, <1>7, <2>1, Tags DEF BoxBecomes, boxFile, TaskDiscards, TaskWritesBox, TaskEnds
  <2>3. fsEvents' = Append(<<>>, Kind') /\ Kind' \in {"modify", "delete"}
    BY <1>2, <2>1 DEF BoxBecomes, Kind
  <2>4. Len(fsEvents') = 1 /\ fsEvents'[1] = Kind' /\ fsEvents' # <<>>
    BY <2>3
  <2>5. hostFile # NoFile => Kind' = "modify"
    BY <2>2 DEF Kind
  <2>. HIDE DEF Kind
  <2>6. LastIsTrue'
    BY <1>2, <2>4 DEF LastIsTrue
  <2>7. DeletedOnce'
    BY <1>2, <2>1, <2>4, <2>5 DEF Unmixed, DeletedOnce
  <2>. QED
    BY <1>4, <2>2, <2>4, <2>6, <2>7 DEF Unmixed, OneTask, ListInv, Drained
<1>8. CASE TaskApplies(task)
  <2>1. PICK text \in Texts : hostFile' = text /\ tasks' = (tasks \ {task}) \cup
                                  {[task EXCEPT !.op = "write", !.read = [@ EXCEPT !.box = text]]}
    BY <1>8 DEF TaskApplies
  <2>. DEFINE q == [task EXCEPT !.op = "write", !.read = [@ EXCEPT !.box = text]]
  <2>2. tasks' = {q} /\ q.op = "write" /\ q.read.box = text
    BY <1>1, <1>3, <2>1 DEF TaskStates, Readings
  <2>. HIDE DEF q
  <2>3. hostFile' # NoFile /\ UNCHANGED watcher
    BY <1>8, <2>1, Tags DEF TaskApplies
  <2>4. OneTask'
    BY <1>1, <1>2, <2>1, <2>2, <2>3 DEF OneTask, Drained, Current, watcher
  <2>5. DeletedOnce'
    BY <1>2, <2>2, <2>3 DEF Unmixed, DeletedOnce, watcher
  <2>. QED
    BY <1>4, <2>2, <2>4, <2>5 DEF Unmixed, ListInv
<1>. QED
  BY <1>5, <1>6, <1>7, <1>8

\* At the start nothing is listed and the sandbox sees the host's file.
LEMMA ReviewInitKeeps == ReviewInit => FileInv
<1> SUFFICES ASSUME ReviewInit PROVE FileInv
  OBVIOUS
<1>1. FileTypes
  <2>1. /\ <<>> \in Seq({"modify", "delete"}) /\ <<>> \in Seq(Statuses \cup {"removed", "unchanged"})
        /\ <<>> \in Seq(Readings) /\ 0 \in 0 .. MaxChanges
    BY Tags, EmptySeq
  <2>2. hostFile \in Contents /\ overlay \in Contents \cup {Through} /\ row = NoRow
    BY DEF ReviewInit
  <2>. QED
    BY <2>1, <2>2 DEF ReviewInit, FileTypes
<1>2. Always
  BY <1>1 DEF ReviewInit, Always, DealtWithIsGone, RowInv, ProbesInv, WritesText
<1>3. Unmixed
  BY DEF ReviewInit, Unmixed, LastIsTrue, DeletedOnce, OneTask, ListInv, RowIsCurrent, boxFile
<1>. QED
  BY <1>2, <1>3 DEF FileInv

\* Every step of the agent, the watcher, the receiver, the row's threads and the user.
LEMMA ReviewStepKeeps == FileInv /\ [ReviewNext]_review_vars => FileInv'
<1> SUFFICES ASSUME FileInv, [ReviewNext]_review_vars PROVE FileInv'
  OBVIOUS
<1>1. Always
  BY DEF FileInv
<1>2. CASE AgentWrites
  BY <1>1, <1>2, AgentTyped, AgentUnmixed DEF FileInv, AgentWrites
<1>3. CASE Drain
  BY <1>1, <1>3, DrainTyped, DrainUnmixed DEF FileInv, Drain
<1>4. CASE Settle
  BY <1>1, <1>4, SettleTyped, SettleUnmixed DEF FileInv, Settle
<1>5. CASE ApplyResults
  BY <1>1, <1>5, ApplyTyped, ApplyUnmixed DEF FileInv, ApplyResults
<1>6. ASSUME NEW i \in 1 .. Len(probes), ProbeReads(i) \/ ProbeAdds(i) PROVE FileInv'
  BY <1>1, <1>6, ProbeTyped, ProbeUnmixed DEF FileInv, ProbeReads, ProbeAdds
<1>7. CASE Render \/ Toggle \/ StageLine
  BY <1>1, <1>7, RowTyped, RowUnmixed DEF FileInv, Render, Toggle, StageLine
<1>8. ASSUME NEW r \in reads, RowReads(r) \/ RowTakes(r) PROVE FileInv'
  BY <1>1, <1>8, ReadTyped, ReadUnmixed DEF FileInv, RowReads, RowTakes
<1>9. CASE Keep \/ Discard \/ Apply
  BY <1>1, <1>9, ChoiceTyped, ChoiceUnmixed DEF FileInv, Keep, Discard, Apply, Suppress
<1>10. ASSUME NEW task \in tasks, TaskReads(task) \/ TaskKeeps(task) \/ TaskDiscards(task)
                                     \/ TaskApplies(task) \/ TaskWritesBox(task)
       PROVE  FileInv'
  BY <1>1, <1>10, TaskTyped, TaskUnmixed
     DEF FileInv, TaskReads, TaskKeeps, TaskDiscards, TaskApplies, TaskWritesBox
<1>11. ASSUME NEW task \in tasks, TaskFails(task) PROVE FileInv'
  BY <1>1, <1>11, TaskTyped DEF FileInv, TaskFails
<1>12. CASE UNCHANGED review_vars
  <2>1. Always'
    BY <1>1, <1>12 DEF review_vars, files, watcher, list, Always, FileTypes, DealtWithIsGone, RowInv, ProbesInv,
         InOrder, WritesText
  <2>2. Unmixed => Unmixed'
    <3> SUFFICES ASSUME Unmixed PROVE Unmixed'
      OBVIOUS
    <3>1. UNCHANGED <<files, watcher, results, tasks, suppressed, listed, row, reads, probes>>
      BY <1>12 DEF review_vars, list
    <3>2. (tasks = {} => LastIsTrue)' /\ DeletedOnce' /\ OneTask'
      BY <3>1, SamePipe
    <3>3. ListInv' /\ RowIsCurrent'
      BY <3>1 DEF Unmixed, ListInv, RowIsCurrent, Drained, Difference, Finds, NoDiff, IsBinary, Text, boxFile, files, watcher
    <3>. QED
      BY <3>2, <3>3 DEF Unmixed
  <2>. QED
    BY <1>12, <2>1, <2>2 DEF FileInv, review_vars
<1>. QED
  BY <1>2, <1>3, <1>4, <1>5, <1>6, <1>7, <1>8, <1>9, <1>10, <1>11, <1>12
     DEF ReviewNext, ProbeMoves, RowMoves, TaskMoves

\* What the panel says of a file is of the present once everything is quiet, a row never shows what
\* was read before its last refresh, and a file the user has dealt with is not listed again before
\* the sandbox changes it: for every order in which the watcher, the probes, the row's threads and
\* the user's operations go (SidePanel::apply_results, ChangesTab, FileRowView).
THEOREM FileStaysTrue == ReviewSpec => []FileIsTrue
<1>1. FileInv => FileIsTrue
  <2> SUFFICES ASSUME FileInv PROVE FileIsTrue
    OBVIOUS
  <2>1. DealtWithIsGone /\ RowIsFresh
    <3>1. row # NoRow => row.since \in Nat /\ row.stats \in Nat /\ row.diff \in Nat
      BY Tags DEF FileInv, Always, FileTypes, Rows
    <3>. QED
      BY <3>1 DEF FileInv, Always, RowInv, RowIsFresh
  <2>2. ListIsTrue
    <3> SUFFICES ASSUME Quiet, ~muddled PROVE ListIsTrue
      BY DEF ListIsTrue
    <3>1. /\ tasks = {} /\ Drained /\ Unmixed /\ DOMAIN probes = {}
      BY DEF Quiet, Drained, FileInv
    <3>2. hostFile # boxFile => listed = Difference
      BY <3>1 DEF Unmixed, ListInv
    <3>3. row # NoRow /\ reads = {} => row.stats = changes /\ (hostFile # boxFile \/ hostFile \in Binaries)
      BY <3>1 DEF Unmixed, RowIsCurrent
    <3>. QED
      BY <3>2, <3>3 DEF ListIsTrue, Difference
  <2>. QED
    BY <2>1, <2>2 DEF FileIsTrue
<1>. QED
  BY <1>1, ReviewInitKeeps, ReviewStepKeeps, PTL DEF ReviewSpec

-----------------------------------------------------------------------------
(* ReviewDiff: the lines of a script                                       *)

Kinds == {"context", "deletion", "addition"}
ScriptOK == script \in Seq(Kinds)

\* Three stretches of a file, put together from either end.
LEMMA ThreeParts ==
  \A x, y, z \in Seq(Nat) : (x \o y) \o z = x \o (y \o z)
BY ConcatAssociative, SMTT(30)

\* A line is a number from 1, of one of the kinds there are.
LEMMA LinesAre ==
  ASSUME ScriptOK
  PROVE  /\ Len(script) \in Nat /\ \A i \in Lines : i \in Nat /\ i # 0 /\ script[i] \in Kinds
         /\ \A i \in Lines : i \in 1 .. Len(script) /\ i \in 0 .. Len(script) /\ i - 1 \in 0 .. Len(script)
BY DEF ScriptOK, Lines

\* The lines of some kinds are taken one by one.
LEMMA KeptIs ==
  ASSUME ScriptOK, NEW kinds
  PROVE  /\ Kept(kinds) \in [0 .. Len(script) -> Seq(Lines)] /\ Kept(kinds)[0] = <<>>
         /\ \A i \in Lines : Kept(kinds)[i] = IF script[i] \in kinds THEN Append(Kept(kinds)[i - 1], i) ELSE Kept(kinds)[i - 1]
<1>. DEFINE m == Len(script)
            V == Seq(Lines)
            Next(v, i) == IF script[i] \in kinds THEN Append(v, i) ELSE v
            Body(f, i) == IF i = 0 THEN <<>> ELSE IF script[i] \in kinds THEN Append(f[i - 1], i) ELSE f[i - 1]
            F == CHOOSE f : f = [i \in 0 .. m |-> Body(f, i)]
            step == [i \in 1 .. m |-> [v \in V |-> Next(v, i)]]
<1>1. m \in Nat /\ Lines = 1 .. m
  BY LinesAre DEF Lines
<1>2. ASSUME NEW i \in 1 .. m, NEW v \in V PROVE Next(v, i) \in V
  <2>1. i \in Lines
    BY <1>1
  <2>2. Append(v, i) \in V
    BY <2>1, AppendProperties
  <2>. QED
    BY <2>2
<1>3. step \in [1 .. m -> [V -> V]] /\ \A i \in 1 .. m : \A v \in V : step[i][v] = Next(v, i)
  <2>. HIDE DEF Next, m, V
  <2>. QED
    BY <1>2
<1>4. PICK f \in [0 .. m -> V] : f[0] = <<>> /\ \A i \in 1 .. m : f[i] = step[i][f[i - 1]]
  <2>1. PICK start : start = <<>>
    OBVIOUS
  <2>2. start \in V
    BY <2>1
  <2>. HIDE DEF m, step, V
  <2>3. Steps(m, V, start, step)
    BY <1>1, <1>3, <2>2 DEF Steps
  <2>4. \E f : Follows(f, m, V, start, step)
    BY <2>3, StepByStep
  <2>. QED
    BY <2>1, <2>4 DEF Follows
<1>5. f = [i \in 0 .. m |-> Body(f, i)]
  <2>1. \A i \in 1 .. m : i - 1 \in 0 .. m /\ i # 0
    BY <1>1
  <2>2. \A i \in 1 .. m : f[i] = Next(f[i - 1], i)
    <3>. HIDE DEF m, step, V, Next
    <3>. QED
      BY <1>3, <1>4, <2>1
  <2>3. 0 .. m = {0} \cup 1 .. m
    BY <1>1
  <2>4. \A i \in 0 .. m : f[i] = Body(f, i)
    <3>. HIDE DEF m, V, step
    <3>. QED
      BY <1>4, <2>1, <2>2, <2>3
  <2>. HIDE DEF Body, m, V
  <2>. QED
    BY <2>4
<1>6. F = [i \in 0 .. m |-> Body(F, i)]
  BY <1>5, Zenon
<1>7. Kept(kinds) = F
  BY Zenon DEF Kept
<1>. HIDE DEF F, step
<1>8. F[0] = <<>> /\ \A i \in 1 .. m : F[i] = Next(F[i - 1], i)
  <2>1. 0 \in 0 .. m /\ \A i \in 1 .. m : i # 0 /\ i \in 0 .. m
    BY <1>1
  <2>2. \A i \in 0 .. m : F[i] = Body(F, i)
    <3>. HIDE DEF Body
    <3>. QED
      BY <1>6
  <2>. HIDE DEF m
  <2>. QED
    BY <2>1, <2>2
<1>9. F \in [0 .. m -> V]
  <2>. DEFINE S == {i \in 0 .. m : F[i] \in V}
  <2>1. 0 \in S
    <3>1. PICK none : none = <<>>
      OBVIOUS
    <3>2. none \in V
      BY <3>1
    <3>3. F[0] \in V
      <4>. HIDE DEF V, Next
      <4>. QED
        BY <1>8, <3>1, <3>2
    <3>. HIDE DEF V
    <3>. QED
      BY <1>1, <3>3
  <2>2. ASSUME NEW i \in 0 .. m - 1, i \in S PROVE i + 1 \in S
    <3>1. i + 1 \in 1 .. m /\ i + 1 \in 0 .. m /\ (i + 1) - 1 = i
      BY <1>1
    <3>2. F[i + 1] = Next(F[i], i + 1) /\ F[i] \in V
      <4>. HIDE DEF Next, V
      <4>. QED
        BY <1>8, <2>2, <3>1
    <3>3. Next(F[i], i + 1) \in V
      <4>. HIDE DEF Next, V
      <4>. QED
        BY <1>2, <3>1, <3>2
    <3>. QED
      BY <3>1, <3>2, <3>3
  <2>3. \A i \in 0 .. m : i \in S
    <3>. HIDE DEF S, m
    <3>. QED
      BY <1>1, <2>1, <2>2, UpTo
  <2>. HIDE DEF m, Body, V
  <2>. QED
    BY <1>6, <2>3
<1>. QED
  BY <1>1, <1>7, <1>8, <1>9

\* The old lines counted before a line are the first old lines: the line itself, if it is
\* an old one, is the next.
LEMMA PrefixStays ==
  ASSUME ScriptOK, NEW kinds, NEW i \in 0 .. Len(script), NEW j \in i .. Len(script)
  PROVE  /\ Len(Kept(kinds)[i]) <= Len(Kept(kinds)[j])
         /\ \A n \in 1 .. Len(Kept(kinds)[i]) : Kept(kinds)[j][n] = Kept(kinds)[i][n]
<1>. DEFINE K == Kept(kinds)
            S == {k \in 0 .. Len(script) - i : /\ Len(K[i]) <= Len(K[i + k])
                                               /\ \A n \in 1 .. Len(K[i]) : K[i + k][n] = K[i][n]}
<1>1. Len(script) \in Nat /\ K \in [0 .. Len(script) -> Seq(Lines)]
  BY LinesAre, KeptIs
<1>. HIDE DEF K
<1>2. 0 \in S
  <2>1. i + 0 = i /\ Len(K[i]) \in Nat
    BY <1>1
  <2>. QED
    BY <1>1, <2>1
<1>3. ASSUME NEW k \in 0 .. (Len(script) - i) - 1, k \in S PROVE k + 1 \in S
  <2>1. PICK j1, k1 : j1 = i + k /\ k1 = j1 + 1
    OBVIOUS
  <2>2. j1 \in 0 .. Len(script) /\ k1 \in Lines /\ k1 - 1 = j1 /\ i + (k + 1) = k1 /\ k + 1 \in 0 .. Len(script) - i
    BY <1>1, <2>1 DEF Lines
  <2>3. K[k1] = Append(K[j1], k1) \/ K[k1] = K[j1]
    BY <2>2, KeptIs DEF K
  <2>4. K[j1] \in Seq(Lines) /\ K[i] \in Seq(Lines)
    BY <1>1, <2>2
  <2>5. Len(K[i]) <= Len(K[j1]) /\ \A n \in 1 .. Len(K[i]) : K[j1][n] = K[i][n]
    BY <1>3, <2>1
  <2>6. Len(K[i]) <= Len(K[k1]) /\ \A n \in 1 .. Len(K[i]) : K[k1][n] = K[i][n]
    <3>1. CASE K[k1] = K[j1]
      BY <2>5, <3>1
    <3>2. CASE K[k1] = Append(K[j1], k1)
      <4>1. PICK a, b : a = K[j1] /\ b = K[i]
        OBVIOUS
      <4>2. a \in Seq(Lines) /\ b \in Seq(Lines) /\ Len(b) <= Len(a) /\ \A n \in 1 .. Len(b) : a[n] = b[n]
        BY <2>4, <2>5, <4>1
      <4>3. \A n \in 1 .. Len(b) : n \in 1 .. Len(a)
        BY <4>2
      <4>4. Len(b) <= Len(Append(a, k1)) /\ \A n \in 1 .. Len(b) : Append(a, k1)[n] = b[n]
        BY <2>2, <4>2, <4>3
      <4>. QED
        BY <3>2, <4>1, <4>4
    <3>. QED
      BY <2>3, <3>1, <3>2
  <2>. QED
    BY <2>2, <2>6
<1>4. \A k \in 0 .. Len(script) - i : k \in S
  <2>1. Len(script) - i \in Nat
    BY <1>1
  <2>. HIDE DEF S
  <2>. QED
    BY <1>2, <1>3, <2>1, UpTo
<1>5. j - i \in 0 .. Len(script) - i /\ i + (j - i) = j
  BY <1>1
<1>. QED
  BY <1>4, <1>5 DEF K

IsOld(i) == script[i] \in {"context", "deletion"}

\* The old file: the old lines of the script, and what is after its last newline.
LEMMA OldLinesAre ==
  ASSUME ScriptOK
  PROVE  /\ old_lines \in Seq(Nat) /\ Len(old_lines) = Len(OldLines[Len(script)]) + Len(ending)
         /\ Len(ending) \in Nat /\ ending \in Seq(Nat) /\ Len(OldLines[Len(script)]) \in Nat
         /\ \A n \in 1 .. Len(OldLines[Len(script)]) : old_lines[n] = OldLines[Len(script)][n]
         /\ \A n \in 1 .. Len(ending) : old_lines[Len(OldLines[Len(script)]) + n] = ending[n]
<1>1. PICK s, t : s = OldLines[Len(script)] /\ t = ending
  OBVIOUS
<1>2. s \in Seq(Lines)
  <2>1. Len(script) \in 0 .. Len(script)
    BY LinesAre
  <2>. QED
    BY <1>1, <2>1, KeptIs DEF OldLines
<1>3. s \in Seq(Nat)
  <2>1. Lines \subseteq Nat
    BY LinesAre
  <2>. QED
    BY <1>2, <2>1, SeqMonotonic
<1>4. t \in Seq(Nat)
  BY <1>1 DEF ending, Ending
<1>5. old_lines = s \o t
  BY <1>1 DEF old_lines
<1>6. /\ s \o t \in Seq(Nat) /\ Len(s \o t) = Len(s) + Len(t) /\ Len(s) \in Nat /\ Len(t) \in Nat
      /\ \A n \in 1 .. Len(s) + Len(t) : (s \o t)[n] = IF n <= Len(s) THEN s[n] ELSE t[n - Len(s)]
  BY <1>3, <1>4, ConcatProperties, LenProperties
<1>7. \A n \in 1 .. Len(s) : (s \o t)[n] = s[n]
  BY <1>6
<1>8. ASSUME NEW n \in 1 .. Len(t) PROVE (s \o t)[Len(s) + n] = t[n]
  <2>1. PICK k : k = Len(s) + n
    OBVIOUS
  <2>2. k \in 1 .. Len(s) + Len(t) /\ ~(k <= Len(s)) /\ k - Len(s) = n
    BY <1>6, <2>1
  <2>. QED
    BY <1>6, <2>1, <2>2
<1>. QED
  BY <1>1, <1>4, <1>5, <1>6, <1>7, <1>8

\* The position of an old line is the number of old lines before it.
LEMMA OldAtIs ==
  ASSUME ScriptOK, NEW i \in Lines
  PROVE  /\ Len(OldLines[i]) \in Nat /\ Len(OldLines[i - 1]) \in Nat /\ Len(OldLines[i]) <= Len(OldLines[Len(script)])
         /\ IsOld(i) => /\ Len(OldLines[i]) = Len(OldLines[i - 1]) + 1
                        /\ OldAt(Len(OldLines[i - 1])) = i /\ old_lines[Len(OldLines[i - 1]) + 1] = i
         /\ ~IsOld(i) => Len(OldLines[i]) = Len(OldLines[i - 1])
<1>1. PICK a, b, c : a = OldLines[i - 1] /\ b = OldLines[i] /\ c = OldLines[Len(script)]
  OBVIOUS
<1>2. i \in 0 .. Len(script) /\ i - 1 \in 0 .. Len(script) /\ Len(script) \in 0 .. Len(script) /\ Len(script) \in i .. Len(script)
  BY LinesAre
<1>3. a \in Seq(Lines) /\ b \in Seq(Lines) /\ c \in Seq(Lines) /\ b = IF IsOld(i) THEN Append(a, i) ELSE a
  BY <1>1, <1>2, KeptIs DEF OldLines, IsOld
<1>4. Len(b) <= Len(c) /\ \A n \in 1 .. Len(b) : c[n] = b[n]
  BY <1>1, <1>2, PrefixStays DEF OldLines
<1>5. Len(a) \in Nat /\ Len(b) \in Nat /\ Len(c) \in Nat
  BY <1>3
<1>6. ASSUME IsOld(i) PROVE Len(b) = Len(a) + 1 /\ OldAt(Len(a)) = i /\ old_lines[Len(a) + 1] = i
  <2>1. b = Append(a, i) /\ Len(b) = Len(a) + 1 /\ b[Len(a) + 1] = i
    BY <1>3, <1>6
  <2>2. Len(a) + 1 \in 1 .. Len(b) /\ Len(a) + 1 \in 1 .. Len(c)
    BY <1>4, <1>5, <2>1
  <2>3. c[Len(a) + 1] = i
    BY <1>4, <2>1, <2>2
  <2>4. old_lines[Len(a) + 1] = i
    BY <1>1, <2>2, <2>3, OldLinesAre
  <2>5. Len(a) < Len(old_lines)
    <3>1. Len(old_lines) = Len(c) + Len(ending) /\ Len(ending) \in Nat
      BY <1>1, OldLinesAre
    <3>. QED
      BY <1>5, <2>2, <3>1
  <2>. QED
    BY <2>1, <2>4, <2>5 DEF OldAt
<1>. QED
  BY <1>1, <1>3, <1>4, <1>5, <1>6

-----------------------------------------------------------------------------
(* ReviewDiff: pairs                                                       *)

\* A pair is a deletion and an addition after it, and no line is in two pairs.
LEMMA PairsAre ==
  ASSUME ScriptOK
  PROVE  /\ \A p \in find_replacement_pairs : /\ p = <<p[1], p[2]>> /\ p[1] \in Lines /\ p[2] \in Lines /\ p[1] < p[2]
                                              /\ script[p[1]] = "deletion" /\ script[p[2]] = "addition"
         /\ \A p, q \in find_replacement_pairs : p[1] = q[1] <=> p[2] = q[2]
<1>. DEFINE Of(p, first, last) ==
              /\ first \in 1 .. p[1] /\ last \in p[1] .. p[2] - 1
              /\ Run(first, last, "deletion") /\ (first = 1 \/ script[first - 1] # "deletion")
              /\ Run(last + 1, p[2], "addition")
              /\ p[2] - last = p[1] - first + 1
<1>1. \A p \in find_replacement_pairs : p \in Lines \X Lines /\ \E first, last : Of(p, first, last)
  BY DEF find_replacement_pairs
<1>2. ASSUME NEW p \in Lines \X Lines, NEW first, NEW last, Of(p, first, last)
      PROVE  /\ p = <<p[1], p[2]>> /\ p[1] \in Nat /\ p[2] \in Nat /\ p[1] \in Lines /\ p[2] \in Lines
             /\ first \in Nat /\ last \in Nat /\ 1 <= first /\ first <= p[1] /\ p[1] <= last /\ last < p[2]
             /\ (\A k \in Nat : first <= k /\ k <= last => script[k] = "deletion")
             /\ (\A k \in Nat : last < k /\ k <= p[2] => script[k] = "addition")
             /\ (first = 1 \/ script[first - 1] # "deletion") /\ p[2] - last = p[1] - first + 1
  <2>1. p = <<p[1], p[2]>> /\ p[1] \in Nat /\ p[2] \in Nat /\ p[1] \in Lines /\ p[2] \in Lines
    BY LinesAre
  <2>2. first \in Nat /\ last \in Nat /\ 1 <= first /\ first <= p[1] /\ p[1] <= last /\ last < p[2]
    BY <1>2, <2>1
  <2>3. ASSUME NEW k \in Nat, first <= k, k <= last PROVE script[k] = "deletion"
    BY <1>2, <2>2, <2>3 DEF Run
  <2>4. ASSUME NEW k \in Nat, last < k, k <= p[2] PROVE script[k] = "addition"
    BY <1>2, <2>1, <2>2, <2>4 DEF Run
  <2>. QED
    BY <1>2, <2>1, <2>2, <2>3, <2>4
<1>. HIDE DEF Of
<1>3. ASSUME NEW p \in find_replacement_pairs
      PROVE  /\ p = <<p[1], p[2]>> /\ p[1] \in Lines /\ p[2] \in Lines /\ p[1] < p[2]
             /\ script[p[1]] = "deletion" /\ script[p[2]] = "addition"
  <2>1. PICK first, last : p \in Lines \X Lines /\ Of(p, first, last)
    BY <1>1
  <2>. QED
    BY <1>2, <2>1
<1>4. ASSUME NEW p \in find_replacement_pairs, NEW q \in find_replacement_pairs, p[1] = q[1] \/ p[2] = q[2]
      PROVE  p[1] = q[1] /\ p[2] = q[2]
  <2>1. PICK first, last : p \in Lines \X Lines /\ Of(p, first, last)
    BY <1>1
  <2>2. PICK first2, last2 : q \in Lines \X Lines /\ Of(q, first2, last2)
    BY <1>1
  <2>3. PICK a, d, a2, d2 : a = p[2] /\ d = p[1] /\ a2 = q[2] /\ d2 = q[1]
    OBVIOUS
  <2>4. /\ a \in Nat /\ d \in Nat /\ first \in Nat /\ last \in Nat /\ 1 <= first /\ first <= d /\ d <= last /\ last < a
        /\ (\A k \in Nat : first <= k /\ k <= last => script[k] = "deletion")
        /\ (\A k \in Nat : last < k /\ k <= a => script[k] = "addition")
        /\ (first = 1 \/ script[first - 1] # "deletion") /\ a - last = d - first + 1
    BY <1>2, <2>1, <2>3
  <2>5. /\ a2 \in Nat /\ d2 \in Nat /\ first2 \in Nat /\ last2 \in Nat /\ 1 <= first2 /\ first2 <= d2 /\ d2 <= last2 /\ last2 < a2
        /\ (\A k \in Nat : first2 <= k /\ k <= last2 => script[k] = "deletion")
        /\ (\A k \in Nat : last2 < k /\ k <= a2 => script[k] = "addition")
        /\ (first2 = 1 \/ script[first2 - 1] # "deletion") /\ a2 - last2 = d2 - first2 + 1
    BY <1>2, <2>2, <2>3
  <2>6. "deletion" # "addition"
    OBVIOUS
  <2>7. last = last2
    <3>1. ASSUME last < last2 PROVE FALSE
      <4>1. CASE a = a2
        <5>1. script[last2] = "addition" /\ script[last2] = "deletion"
          BY <2>4, <2>5, <3>1, <4>1
        <5>. QED
          BY <2>6, <5>1
      <4>2. CASE d = d2
        <5>1. script[last + 1] = "addition" /\ script[last + 1] = "deletion"
          <6>1. last + 1 \in Nat /\ last < last + 1 /\ last + 1 <= a /\ first2 <= last + 1 /\ last + 1 <= last2
            BY <2>4, <2>5, <3>1, <4>2
          <6>. QED
            BY <2>4, <2>5, <6>1
        <5>. QED
          BY <2>6, <5>1
      <4>. QED
        BY <1>4, <2>3, <4>1, <4>2
    <3>2. ASSUME last2 < last PROVE FALSE
      <4>1. CASE a = a2
        <5>1. script[last] = "addition" /\ script[last] = "deletion"
          BY <2>4, <2>5, <3>2, <4>1
        <5>. QED
          BY <2>6, <5>1
      <4>2. CASE d = d2
        <5>1. script[last2 + 1] = "addition" /\ script[last2 + 1] = "deletion"
          <6>1. last2 + 1 \in Nat /\ last2 < last2 + 1 /\ last2 + 1 <= a2 /\ first <= last2 + 1 /\ last2 + 1 <= last
            BY <2>4, <2>5, <3>2, <4>2
          <6>. QED
            BY <2>4, <2>5, <6>1
        <5>. QED
          BY <2>6, <5>1
      <4>. QED
        BY <1>4, <2>3, <4>1, <4>2
    <3>. QED
      BY <2>4, <2>5, <3>1, <3>2
  <2>8. first = first2
    <3>1. ASSUME first < first2 PROVE FALSE
      <4>1. first2 - 1 \in Nat /\ first <= first2 - 1 /\ first2 - 1 <= last /\ first2 # 1
        BY <2>4, <2>5, <2>7, <3>1
      <4>. QED
        BY <2>4, <2>5, <4>1
    <3>2. ASSUME first2 < first PROVE FALSE
      <4>1. first - 1 \in Nat /\ first2 <= first - 1 /\ first - 1 <= last2 /\ first # 1
        BY <2>4, <2>5, <2>7, <3>2
      <4>. QED
        BY <2>4, <2>5, <4>1
    <3>. QED
      BY <2>4, <2>5, <3>1, <3>2
  <2>9. d = d2 /\ a = a2
    BY <1>4, <2>3, <2>4, <2>5, <2>7, <2>8
  <2>. QED
    BY <2>3, <2>9
<1>. QED
  BY <1>3, <1>4

\* The line an addition replaces.
LEMMA DeletionOfIs ==
  ASSUME ScriptOK
  PROVE  /\ PairedDeletions \subseteq Lines /\ PairedAdditions \subseteq Lines
         /\ \A a \in PairedAdditions : /\ script[a] = "addition" /\ DeletionOf(a) \in PairedDeletions
                                       /\ DeletionOf(a) < a
         /\ \A d \in PairedDeletions : script[d] = "deletion" /\ \E a \in PairedAdditions : DeletionOf(a) = d
         /\ \A a, b \in PairedAdditions : DeletionOf(a) = DeletionOf(b) => a = b
<1>1. ASSUME NEW p \in find_replacement_pairs PROVE DeletionOf(p[2]) = p[1]
  <2>1. <<p[1], p[2]>> \in find_replacement_pairs /\ p[1] \in Lines
    BY PairsAre
  <2>2. <<DeletionOf(p[2]), p[2]>> \in find_replacement_pairs
    BY <2>1 DEF DeletionOf
  <2>3. PICK q : q = <<DeletionOf(p[2]), p[2]>>
    OBVIOUS
  <2>4. q \in find_replacement_pairs /\ q[1] = DeletionOf(p[2]) /\ q[2] = p[2]
    BY <2>2, <2>3
  <2>. QED
    BY <2>4, PairsAre
<1>2. \A d \in PairedDeletions : \E p \in find_replacement_pairs : p[1] = d
  BY DEF PairedDeletions
<1>3. \A a \in PairedAdditions : \E p \in find_replacement_pairs : p[2] = a
  BY DEF PairedAdditions
<1>4. \A p \in find_replacement_pairs : p[1] \in PairedDeletions /\ p[2] \in PairedAdditions
  BY DEF PairedDeletions, PairedAdditions
<1>5. ASSUME NEW a \in PairedAdditions
      PROVE  a \in Lines /\ script[a] = "addition" /\ DeletionOf(a) \in PairedDeletions /\ DeletionOf(a) < a
  BY <1>1, <1>3, <1>4, PairsAre
<1>6. ASSUME NEW d \in PairedDeletions
      PROVE  d \in Lines /\ script[d] = "deletion" /\ \E a \in PairedAdditions : DeletionOf(a) = d
  BY <1>1, <1>2, <1>4, PairsAre
<1>7. ASSUME NEW a \in PairedAdditions, NEW b \in PairedAdditions, DeletionOf(a) = DeletionOf(b) PROVE a = b
  BY <1>1, <1>3, <1>7, PairsAre
<1>. QED
  BY <1>5, <1>6, <1>7

-----------------------------------------------------------------------------
(* ReviewDiff: what Apply writes                                           *)

Rebuilts == [result : Seq(Nat), position : Nat, saved : [Lines -> Nat]]

\* Copying the old lines before a hunk adds them to what is written.
LEMMA CopiedIs ==
  ASSUME ScriptOK, NEW v \in Rebuilts, NEW start \in Nat, start <= Len(old_lines)
  PROVE  /\ CopiedTo(v, start) \in Rebuilts
         /\ CopiedTo(v, start).result = v.result \o SubSeq(old_lines, v.position + 1, start)
         /\ CopiedTo(v, start).position = start /\ CopiedTo(v, start).saved = v.saved
<1>1. v.result \in Seq(Nat) /\ v.position \in Nat /\ v.saved \in [Lines -> Nat]
  BY DEF Rebuilts
<1>2. PICK p : p = v.position + 1
  OBVIOUS
<1>3. SubSeq(old_lines, p, start) \in Seq(Nat)
  <2>1. old_lines \in Seq(Nat) /\ p \in Int /\ start \in Int /\ p >= 1
    BY <1>1, <1>2, OldLinesAre
  <2>2. \A n \in p .. start : old_lines[n] \in Nat
    BY <2>1
  <2>. QED
    BY <2>1, <2>2, SubSeqProperties
<1>4. PICK r : r = v.result \o SubSeq(old_lines, p, start)
  OBVIOUS
<1>5. r \in Seq(Nat)
  BY <1>1, <1>3, <1>4, ConcatProperties
<1>6. CopiedTo(v, start) = [v EXCEPT !.result = r, !.position = start]
  BY <1>2, <1>4 DEF CopiedTo
<1>7. PICK w : w = CopiedTo(v, start)
  OBVIOUS
<1>8. w.result = r /\ w.position = start /\ w.saved = v.saved
  BY <1>6, <1>7 DEF Rebuilts
<1>9. w \in Rebuilts
  BY <1>1, <1>5, <1>6, <1>7 DEF Rebuilts
<1>. QED
  BY <1>2, <1>4, <1>7, <1>8, <1>9

\* An old line is a number.
LEMMA OldAtTypes ==
  ASSUME ScriptOK, NEW position \in Nat
  PROVE  OldAt(position) \in Nat
<1>1. old_lines \in Seq(Nat)
  BY OldLinesAre
<1>2. CASE position < Len(old_lines)
  <2>1. position + 1 \in 1 .. Len(old_lines)
    BY <1>1, <1>2
  <2>2. old_lines[position + 1] \in Nat
    BY <1>1, <2>1
  <2>. QED
    BY <1>2, <2>2 DEF OldAt
<1>3. CASE ~(position < Len(old_lines))
  BY <1>3 DEF OldAt, Ending
<1>. QED
  BY <1>2, <1>3

\* What a line of a hunk adds to the result, by its kind.
LEMMA RebuildIs ==
  ASSUME ScriptOK, NEW v \in Rebuilts, NEW i \in Lines
  PROVE  LET w == Rebuild(v, i)
             old == OldAt(v.position) IN
         /\ w \in Rebuilts
         /\ w.position = (IF IsOld(i) THEN v.position + 1 ELSE v.position)
         /\ w.saved = (IF i \in PairedDeletions THEN [v.saved EXCEPT ![i] = old] ELSE v.saved)
         /\ script[i] = "context" => w.result = Append(v.result, old)
         /\ script[i] = "deletion" => w.result = IF i \notin PairedDeletions /\ i \in discarded THEN Append(v.result, old)
                                                 ELSE v.result
         /\ script[i] = "addition" => w.result = IF i \notin discarded THEN Append(v.result, i)
                                                 ELSE IF i \in PairedAdditions THEN Append(v.result, v.saved[DeletionOf(i)])
                                                 ELSE v.result
<1>1. PICK old : old = OldAt(v.position)
  OBVIOUS
<1>2. v.result \in Seq(Nat) /\ v.position \in Nat /\ v.saved \in [Lines -> Nat] /\ old \in Nat /\ i \in Nat
  BY <1>1, OldAtTypes, LinesAre DEF Rebuilts
<1>3. PICK result : result = CASE script[i] = "context" -> Append(v.result, old)
                  [] script[i] = "deletion" ->
                       IF i \notin PairedDeletions /\ i \in discarded THEN Append(v.result, old)
                       ELSE v.result
                  [] script[i] = "addition" ->
                       IF i \notin discarded THEN Append(v.result, i)
                       ELSE IF i \in PairedAdditions THEN Append(v.result, v.saved[DeletionOf(i)])
                       ELSE v.result
  OBVIOUS
<1>4. PICK position, saved : /\ position = (IF script[i] = "addition" THEN v.position ELSE v.position + 1)
                             /\ saved = (IF i \in PairedDeletions THEN [v.saved EXCEPT ![i] = old] ELSE v.saved)
  OBVIOUS
<1>5. Rebuild(v, i) = [result |-> result, position |-> position, saved |-> saved]
  BY <1>1, <1>3, <1>4 DEF Rebuild
<1>6. script[i] \in Kinds
  BY LinesAre
<1>7. /\ script[i] = "context" => result = Append(v.result, old)
      /\ script[i] = "deletion" => result = IF i \notin PairedDeletions /\ i \in discarded THEN Append(v.result, old)
                                            ELSE v.result
      /\ script[i] = "addition" => result = IF i \notin discarded THEN Append(v.result, i)
                                            ELSE IF i \in PairedAdditions THEN Append(v.result, v.saved[DeletionOf(i)])
                                            ELSE v.result
  BY <1>3
<1>8. i \in PairedAdditions => v.saved[DeletionOf(i)] \in Nat
  BY <1>2, DeletionOfIs
<1>9. result \in Seq(Nat)
  <2>1. result = v.result \/ \E e \in Nat : result = Append(v.result, e)
    BY <1>2, <1>6, <1>7, <1>8 DEF Kinds
  <2>2. \A e \in Nat : Append(v.result, e) \in Seq(Nat)
    BY <1>2, AppendProperties
  <2>. QED
    BY <1>2, <2>1, <2>2
<1>10. saved \in [Lines -> Nat] /\ position \in Nat /\ position = (IF IsOld(i) THEN v.position + 1 ELSE v.position)
  BY <1>2, <1>4, <1>6 DEF Kinds, IsOld
<1>11. Rebuild(v, i) \in Rebuilts
  BY <1>5, <1>9, <1>10 DEF Rebuilts
<1>. QED
  BY <1>1, <1>4, <1>5, <1>7, <1>10, <1>11

\* One line of a hunk leaves what has been rebuilt well formed.
LEMMA RebuildHunkTypes ==
  ASSUME ScriptOK, NEW v \in Rebuilts, NEW i \in Lines
  PROVE  RebuildHunk(v, i) \in Rebuilts
<1>1. PICK start : start = OldStart(i)
  OBVIOUS
<1>2. start \in Nat /\ start <= Len(old_lines)
  <2>1. start = Len(OldLines[i - 1]) /\ start \in Nat /\ Len(OldLines[i]) \in Nat /\ Len(OldLines[i]) <= Len(OldLines[Len(script)])
    BY <1>1, OldAtIs DEF OldStart
  <2>2. start <= Len(OldLines[i])
    BY <2>1, OldAtIs
  <2>. QED
    BY <2>1, <2>2, OldLinesAre
<1>3. CopiedTo(v, start) \in Rebuilts
  BY <1>2, CopiedIs
<1>4. PICK u \in Rebuilts : u = IF StartsHunk(i) THEN CopiedTo(v, OldStart(i)) ELSE v
  BY <1>1, <1>3
<1>5. Rebuild(u, i) \in Rebuilts
  BY RebuildIs
<1>. QED
  BY <1>4, <1>5 DEF RebuildHunk

\* The lines are rebuilt one by one.
LEMMA RebuiltToIs ==
  ASSUME ScriptOK
  PROVE  /\ RebuiltTo \in [0 .. Len(script) -> Rebuilts]
         /\ RebuiltTo[0] = [result |-> <<>>, position |-> 0, saved |-> [d \in Lines |-> Ending]]
         /\ \A i \in Lines : RebuiltTo[i] = RebuildHunk(RebuiltTo[i - 1], i)
<1>. DEFINE m == Len(script)
            Start == [result |-> <<>>, position |-> 0, saved |-> [d \in Lines |-> Ending]]
            Body(f, i) == IF i = 0 THEN Start ELSE RebuildHunk(f[i - 1], i)
            F == CHOOSE f : f = [i \in 0 .. m |-> Body(f, i)]
            step == [i \in 1 .. m |-> [v \in Rebuilts |-> RebuildHunk(v, i)]]
<1>1. m \in Nat /\ Lines = 1 .. m
  BY LinesAre DEF Lines
<1>2. Start \in Rebuilts
  <2>1. <<>> \in Seq(Nat) /\ [d \in Lines |-> Ending] \in [Lines -> Nat]
    BY DEF Ending
  <2>. QED
    BY <2>1 DEF Rebuilts
<1>3. step \in [1 .. m -> [Rebuilts -> Rebuilts]] /\ \A i \in 1 .. m : \A v \in Rebuilts : step[i][v] = RebuildHunk(v, i)
  <2>1. \A i \in 1 .. m : \A v \in Rebuilts : RebuildHunk(v, i) \in Rebuilts
    BY <1>1, RebuildHunkTypes
  <2>. HIDE DEF m
  <2>. QED
    BY <2>1
<1>. HIDE DEF Start
<1>4. PICK f \in [0 .. m -> Rebuilts] : f[0] = Start /\ \A i \in 1 .. m : f[i] = step[i][f[i - 1]]
  <2>. HIDE DEF m, step
  <2>1. Steps(m, Rebuilts, Start, step)
    BY <1>1, <1>2, <1>3 DEF Steps
  <2>2. \E f : Follows(f, m, Rebuilts, Start, step)
    BY <2>1, StepByStep
  <2>. QED
    BY <2>2 DEF Follows
<1>5. f = [i \in 0 .. m |-> Body(f, i)]
  <2>1. \A i \in 1 .. m : i - 1 \in 0 .. m /\ i # 0
    BY <1>1
  <2>2. \A i \in 1 .. m : f[i] = RebuildHunk(f[i - 1], i)
    <3>. HIDE DEF m, step
    <3>. QED
      BY <1>3, <1>4, <2>1
  <2>3. 0 .. m = {0} \cup 1 .. m
    BY <1>1
  <2>4. \A i \in 0 .. m : f[i] = Body(f, i)
    <3>. HIDE DEF m, step
    <3>. QED
      BY <1>4, <2>1, <2>2, <2>3
  <2>. HIDE DEF Body, m
  <2>. QED
    BY <2>4
<1>6. F = [i \in 0 .. m |-> Body(F, i)]
  BY <1>5, Zenon
<1>7. RebuiltTo = F
  BY Zenon DEF RebuiltTo, Start
<1>. HIDE DEF F, step
<1>8. F[0] = Start /\ \A i \in 1 .. m : F[i] = RebuildHunk(F[i - 1], i)
  <2>1. 0 \in 0 .. m /\ \A i \in 1 .. m : i # 0 /\ i \in 0 .. m
    BY <1>1
  <2>2. \A i \in 0 .. m : F[i] = Body(F, i)
    <3>. HIDE DEF Body
    <3>. QED
      BY <1>6
  <2>. HIDE DEF m
  <2>. QED
    BY <2>1, <2>2
<1>9. F \in [0 .. m -> Rebuilts]
  <2>. DEFINE S == {i \in 0 .. m : F[i] \in Rebuilts}
  <2>1. 0 \in S
    BY <1>1, <1>2, <1>8
  <2>2. ASSUME NEW i \in 0 .. m - 1, i \in S PROVE i + 1 \in S
    <3>1. i + 1 \in 1 .. m /\ i + 1 \in 0 .. m /\ (i + 1) - 1 = i
      BY <1>1
    <3>2. F[i + 1] = RebuildHunk(F[i], i + 1) /\ F[i] \in Rebuilts
      BY <1>8, <2>2, <3>1
    <3>3. RebuildHunk(F[i], i + 1) \in Rebuilts
      BY <1>1, <3>1, <3>2, RebuildHunkTypes
    <3>. QED
      BY <3>1, <3>2, <3>3
  <2>3. \A i \in 0 .. m : i \in S
    <3>. HIDE DEF S, m
    <3>. QED
      BY <1>1, <2>1, <2>2, UpTo
  <2>. HIDE DEF m, Body
  <2>. QED
    BY <1>6, <2>3
<1>. QED
  BY <1>1, <1>7, <1>8, <1>9 DEF Start

\* The line that a line of the script puts into the file written, 0 if none.
Out(i) ==
  IF script[i] = "context" THEN i
  ELSE IF script[i] = "deletion" THEN (IF i \notin PairedDeletions /\ i \in discarded THEN i ELSE 0)
  ELSE IF i \notin discarded THEN i
  ELSE IF i \in PairedAdditions THEN DeletionOf(i) ELSE 0

\* No two lines put in the same one.
LEMMA OutIs ==
  ASSUME ScriptOK
  PROVE  /\ \A i \in Lines : Out(i) = 0 \/ (Out(i) \in Lines /\ Out(i) <= i)
         /\ \A i, j \in Lines : Out(i) = Out(j) /\ Out(i) # 0 => i = j
<1>1. ASSUME NEW i \in Lines
      PROVE  \/ Out(i) = 0
             \/ Out(i) = i /\ ~(script[i] = "deletion" /\ i \in PairedDeletions)
             \/ /\ i \in PairedAdditions /\ Out(i) = DeletionOf(i) /\ Out(i) < i /\ Out(i) \in Lines
                /\ script[Out(i)] = "deletion" /\ Out(i) \in PairedDeletions
  BY DeletionOfIs DEF Out
<1>2. \A i \in Lines : i \in Nat /\ i # 0
  BY LinesAre
<1>3. \A i \in Lines : Out(i) = 0 \/ (Out(i) \in Lines /\ Out(i) <= i)
  BY <1>1, <1>2
<1>4. ASSUME NEW i \in Lines, NEW j \in Lines, Out(i) = Out(j), Out(i) # 0 PROVE i = j
  <2>1. CASE Out(i) = i /\ Out(j) = j
    BY <1>4, <2>1
  <2>2. CASE Out(i) = i /\ Out(j) # j
    <3>1. script[i] = "deletion" /\ i \in PairedDeletions
      BY <1>1, <1>4, <2>2
    <3>2. ~(script[i] = "deletion" /\ i \in PairedDeletions)
      BY <1>1, <1>2, <1>4, <2>2
    <3>. QED
      BY <3>1, <3>2
  <2>3. CASE Out(i) # i /\ Out(j) = j
    <3>1. script[j] = "deletion" /\ j \in PairedDeletions
      BY <1>1, <1>4, <2>3
    <3>2. ~(script[j] = "deletion" /\ j \in PairedDeletions)
      BY <1>1, <1>2, <1>4, <2>3
    <3>. QED
      BY <3>1, <3>2
  <2>4. CASE Out(i) # i /\ Out(j) # j
    <3>1. i \in PairedAdditions /\ j \in PairedAdditions /\ DeletionOf(i) = DeletionOf(j)
      BY <1>1, <1>4, <2>4
    <3>. QED
      BY <3>1, DeletionOfIs
  <2>. QED
    BY <2>1, <2>2, <2>3, <2>4
<1>. QED
  BY <1>3, <1>4

\* What has been written is sound up to a line: it holds the lines put in so far, each once,
\* and the sandbox's lines if every line is checked.
Sound(s, i) ==
  /\ s \in Seq(Lines)
  /\ \A k, l \in 1 .. Len(s) : s[k] = s[l] => k = l
  /\ \A x \in Lines : (\E k \in 1 .. Len(s) : s[k] = x) <=> (\E j \in 1 .. i : Out(j) = x)
  /\ discarded \cap Toggleable = {} => s = NewLines[i]

\* Nothing written stands for none of the lines.
LEMMA SoundStart ==
  ASSUME ScriptOK
  PROVE  Sound(<<>>, 0)
<1>1. PICK s : s = <<>>
  OBVIOUS
<1>2. s \in Seq(Lines) /\ Len(s) = 0
  BY <1>1
<1>3. NewLines[0] = s
  BY <1>1, KeptIs DEF NewLines
<1>. QED
  BY <1>1, <1>2, <1>3 DEF Sound

\* What is written of one line more comes after what is written of the lines before.
LEMMA SoundStep ==
  ASSUME ScriptOK, NEW i \in Lines, NEW s, Sound(s, i - 1)
  PROVE  Sound(IF Out(i) = 0 THEN s ELSE Append(s, Out(i)), i)
<1>1. s \in Seq(Lines) /\ Len(s) \in Nat
  BY DEF Sound
<1>2. PICK o : o = Out(i)
  OBVIOUS
<1>3. o = 0 \/ (o \in Lines /\ o <= i /\ o # 0)
  BY <1>2, OutIs, LinesAre
<1>4. i \in Nat /\ i # 0 /\ \A j \in 1 .. i : j \in Lines
  BY LinesAre DEF Lines
<1>5. \A x : (\E j \in 1 .. i : Out(j) = x) <=> ((\E j \in 1 .. i - 1 : Out(j) = x) \/ o = x)
  <2>1. 1 .. i = 1 .. i - 1 \cup {i}
    BY <1>4
  <2>. QED
    BY <1>2, <2>1
<1>6. ASSUME discarded \cap Toggleable = {}
      PROVE  NewLines[i] = IF o = 0 THEN s ELSE Append(s, o)
  <2>1. s = NewLines[i - 1]
    BY <1>6 DEF Sound
  <2>2. NewLines[i] = IF script[i] \in {"context", "addition"} THEN Append(s, i) ELSE s
    BY <2>1, KeptIs DEF NewLines
  <2>3. script[i] \in Kinds
    BY LinesAre
  <2>4. CASE script[i] = "context"
    BY <1>2, <1>4, <2>2, <2>4 DEF Out
  <2>5. CASE script[i] = "deletion"
    <3>1. i \notin PairedDeletions => i \notin discarded
      BY <1>6, <2>5 DEF Toggleable
    <3>. QED
      BY <1>2, <2>2, <2>5, <3>1 DEF Out
  <2>6. CASE script[i] = "addition"
    <3>1. i \notin discarded
      BY <1>6, <2>6 DEF Toggleable
    <3>. QED
      BY <1>2, <1>4, <2>2, <2>6, <3>1 DEF Out
  <2>. QED
    BY <2>3, <2>4, <2>5, <2>6 DEF Kinds
<1>7. CASE o = 0
  <2>1. \A x \in Lines : o # x
    BY <1>7, LinesAre
  <2>2. \A x \in Lines : (\E k \in 1 .. Len(s) : s[k] = x) <=> (\E j \in 1 .. i : Out(j) = x)
    BY <1>5, <2>1 DEF Sound
  <2>3. discarded \cap Toggleable = {} => s = NewLines[i]
    BY <1>6, <1>7
  <2>4. Sound(s, i)
    BY <1>1, <2>2, <2>3 DEF Sound
  <2>. QED
    BY <1>2, <1>7, <2>4
<1>8. CASE o # 0
  <2>1. PICK t : t = Append(s, o)
    OBVIOUS
  <2>2. /\ t \in Seq(Lines) /\ Len(t) = Len(s) + 1 /\ t[Len(s) + 1] = o
        /\ \A k \in 1 .. Len(s) : t[k] = s[k]
    BY <1>1, <1>3, <1>8, <2>1, AppendProperties
  <2>3. 1 .. Len(t) = 1 .. Len(s) \cup {Len(s) + 1}
    BY <1>1, <2>2
  <2>4. \A k \in 1 .. Len(s) : s[k] # o
    <3>1. SUFFICES ASSUME NEW k \in 1 .. Len(s), s[k] = o PROVE FALSE
      OBVIOUS
    <3>2. PICK j \in 1 .. i - 1 : Out(j) = o
      BY <1>3, <1>8, <3>1 DEF Sound
    <3>3. j \in Lines /\ j # i
      BY <1>4
    <3>. QED
      BY <1>2, <1>8, <3>2, <3>3, OutIs
  <2>5. \A k, l \in 1 .. Len(t) : t[k] = t[l] => k = l
    BY <2>2, <2>3, <2>4 DEF Sound
  <2>6. ASSUME NEW x \in Lines PROVE (\E k \in 1 .. Len(t) : t[k] = x) <=> (\E j \in 1 .. i : Out(j) = x)
    <3>1. (\E k \in 1 .. Len(t) : t[k] = x) <=> ((\E k \in 1 .. Len(s) : s[k] = x) \/ o = x)
      BY <2>2, <2>3
    <3>. QED
      BY <1>5, <3>1 DEF Sound
  <2>7. discarded \cap Toggleable = {} => t = NewLines[i]
    BY <1>6, <1>8, <2>1
  <2>8. Sound(t, i)
    BY <2>2, <2>5, <2>6, <2>7 DEF Sound
  <2>. QED
    BY <1>2, <1>8, <2>1, <2>8
<1>. QED
  BY <1>7, <1>8

\* Between hunks the old lines are copied: they are context.
LEMMA GapIs ==
  ASSUME ScriptOK, NEW i \in 0 .. Len(script), NEW j \in i .. Len(script), NEW s, Sound(s, i),
         \A k \in i + 1 .. j : script[k] = "context"
  PROVE  /\ Sound(s \o SubSeq(old_lines, Len(OldLines[i]) + 1, Len(OldLines[j])), j)
         /\ Len(OldLines[i]) <= Len(OldLines[j]) /\ Len(OldLines[i]) \in Nat
<1>. DEFINE K == OldLines
<1>0. PICK p : p = Len(K[i])
  OBVIOUS
<1>. DEFINE Good(k) == Len(K[i + k]) = p + k /\ Sound(s \o SubSeq(old_lines, p + 1, p + k), i + k)
            S == {k \in 0 .. j - i : Good(k)}
<1>1. Len(script) \in Nat /\ i \in Nat /\ j \in Nat /\ i <= j /\ j <= Len(script)
  BY LinesAre
<1>2. K[i] \in Seq(Lines) /\ p \in Nat
  BY <1>0, KeptIs DEF OldLines
<1>3. old_lines \in Seq(Nat) /\ s \in Seq(Nat) /\ p <= Len(old_lines)
  <2>1. s \in Seq(Lines) /\ Lines \subseteq Nat
    BY LinesAre DEF Sound
  <2>2. s \in Seq(Nat)
    BY <2>1, SeqMonotonic
  <2>3. Len(script) \in i .. Len(script)
    BY <1>1
  <2>4. p <= Len(K[Len(script)])
    BY <1>0, <2>3, PrefixStays DEF OldLines
  <2>. QED
    BY <1>2, <2>2, <2>4, OldLinesAre
<1>. HIDE DEF K
<1>4. 0 \in S
  <2>1. PICK t : t = SubSeq(old_lines, p + 1, p + 0)
    OBVIOUS
  <2>2. t = <<>>
    <3>1. PICK a, b : a = p + 1 /\ b = p + 0
      OBVIOUS
    <3>2. a > b /\ a \in Int /\ b \in Int
      BY <1>2, <3>1
    <3>3. SubSeq(old_lines, a, b) = <<>>
      BY <1>3, <3>2, SubSeqEmpty
    <3>. QED
      BY <2>1, <3>1, <3>3
  <2>3. s \o t = s
    BY <1>3, <2>2, ConcatEmptySeq
  <2>4. i + 0 = i /\ p + 0 = p
    BY <1>1, <1>2
  <2>5. Good(0)
    <3>1. Sound(s \o SubSeq(old_lines, p + 1, p + 0), i + 0)
      BY <2>1, <2>3, <2>4
    <3>2. Len(K[i + 0]) = p + 0
      BY <1>0, <2>4
    <3>. QED
      BY <3>1, <3>2
  <2>. QED
    BY <1>1, <2>5
<1>5. ASSUME NEW k \in 0 .. (j - i) - 1, k \in S PROVE k + 1 \in S
  <2>1. PICK l, n, q : l = i + k /\ n = l + 1 /\ q = p + k
    OBVIOUS
  <2>2. n \in Lines /\ n - 1 = l /\ i + (k + 1) = n /\ p + (k + 1) = q + 1 /\ n \in i + 1 .. j /\ k + 1 \in 0 .. j - i /\ q \in Nat /\ p <= q
    <3>1. n \in Nat /\ 1 <= n /\ n <= j /\ i + 1 <= n /\ n - 1 = l /\ i + (k + 1) = n
      BY <1>1, <2>1
    <3>2. n \in Lines /\ n \in i + 1 .. j /\ k + 1 \in 0 .. j - i
      BY <1>1, <3>1 DEF Lines
    <3>3. p + (k + 1) = q + 1 /\ q \in Nat /\ p <= q
      BY <1>2, <2>1
    <3>. QED
      BY <3>1, <3>2, <3>3
  <2>3. Len(K[l]) = q /\ Sound(s \o SubSeq(old_lines, p + 1, q), l)
    BY <1>5, <2>1
  <2>4. script[n] = "context"
    BY <2>2
  <2>5. Out(n) = n /\ n # 0
    BY <2>2, <2>4, LinesAre DEF Out
  <2>6. Len(K[n]) = q + 1 /\ old_lines[q + 1] = n /\ q + 1 <= Len(old_lines)
    <3>1. /\ IsOld(n) /\ Len(OldLines[n]) \in Nat /\ Len(OldLines[n]) <= Len(OldLines[Len(script)])
          /\ Len(OldLines[n]) = Len(OldLines[n - 1]) + 1 /\ old_lines[Len(OldLines[n - 1]) + 1] = n
      BY <2>2, <2>4, OldAtIs DEF IsOld
    <3>2. Len(OldLines[n - 1]) = q
      BY <2>2, <2>3 DEF K
    <3>3. Len(OldLines[n]) = q + 1 /\ old_lines[q + 1] = n
      BY <3>1, <3>2
    <3>4. q + 1 <= Len(old_lines)
      BY <2>2, <3>1, <3>3, OldLinesAre
    <3>. QED
      BY <3>3, <3>4 DEF K
  <2>7. SubSeq(old_lines, p + 1, q + 1) = Append(SubSeq(old_lines, p + 1, q), n)
    <3>1. PICK a, b : a = p + 1 /\ b = q + 1
      OBVIOUS
    <3>2. /\ a \in Int /\ b \in Int /\ a >= 1 /\ b <= Len(old_lines) /\ b >= a /\ b - 1 = q /\ Len(old_lines) \in Nat
      BY <1>2, <1>3, <2>2, <2>6, <3>1
    <3>3. SubSeq(old_lines, a, b) = Append(SubSeq(old_lines, a, b - 1), old_lines[b])
      BY <1>3, <3>2, SubSeqRecursiveSecond
    <3>. QED
      BY <2>6, <3>1, <3>2, <3>3
  <2>8. PICK t : t = SubSeq(old_lines, p + 1, q)
    OBVIOUS
  <2>9. t \in Seq(Nat)
    <3>1. PICK a : a = p + 1
      OBVIOUS
    <3>2. a \in Int /\ q \in Int /\ 1 <= a /\ q <= Len(old_lines) /\ Len(old_lines) \in Nat
      BY <1>2, <1>3, <2>2, <2>6, <3>1
    <3>3. \A x \in a .. q : old_lines[x] \in Nat
      BY <1>3, <3>2
    <3>. QED
      BY <2>8, <3>1, <3>2, <3>3, SubSeqProperties
  <2>10. Sound(Append(s \o t, n), n)
    <3>1. Sound(s \o t, n - 1)
      BY <2>2, <2>3, <2>8
    <3>2. PICK u : u = s \o t
      OBVIOUS
    <3>3. Sound(IF Out(n) = 0 THEN u ELSE Append(u, Out(n)), n)
      BY <2>2, <3>1, <3>2, SoundStep
    <3>. QED
      BY <2>5, <3>2, <3>3
  <2>11. Append(s \o t, n) = s \o Append(t, n)
    <3>1. n \in Nat
      BY <2>2, LinesAre
    <3>2. PICK e : e = <<n>>
      OBVIOUS
    <3>3. s \in Seq(Nat) /\ t \in Seq(Nat) /\ e \in Seq(Nat)
      BY <1>3, <2>9, <3>1, <3>2
    <3>4. PICK u : u = s \o t
      OBVIOUS
    <3>5. u \in Seq(Nat)
      BY <3>3, <3>4, ConcatProperties
    <3>6. Append(u, n) = u \o e /\ Append(t, n) = t \o e
      BY <3>1, <3>2, <3>3, <3>5, AppendIsConcat
    <3>7. (s \o t) \o e = s \o (t \o e)
      BY <3>3, ThreeParts
    <3>. QED
      BY <3>4, <3>6, <3>7
  <2>12. Good(k + 1)
    BY <2>2, <2>6, <2>7, <2>8, <2>10, <2>11
  <2>. QED
    BY <2>2, <2>12
<1>6. \A k \in 0 .. j - i : k \in S
  <2>1. j - i \in Nat
    BY <1>1
  <2>. HIDE DEF S
  <2>. QED
    BY <1>4, <1>5, <2>1, UpTo
<1>7. Good(j - i)
  <2>1. j - i \in 0 .. j - i
    BY <1>1
  <2>. HIDE DEF Good
  <2>. QED
    BY <1>6, <2>1
<1>8. i + (j - i) = j
  BY <1>1
<1>9. Len(K[j]) = p + (j - i) /\ Sound(s \o SubSeq(old_lines, p + 1, Len(K[j])), j)
  BY <1>7, <1>8
<1>10. p <= Len(K[j])
  BY <1>1, <1>2, <1>9
<1>. QED
  BY <1>0, <1>2, <1>9, <1>10 DEF K

\* Up to a line, what is rebuilt is sound up to the last line of a hunk: the old position is
\* there, the old lines of pairs are saved, and only context has been passed over since.
RebuiltSound(i, j) ==
  /\ j \in 0 .. i /\ \A k \in j + 1 .. i : script[k] = "context"
  /\ i = 0 \/ InHunk(i) => j = i
  /\ RebuiltTo[i] \in Rebuilts /\ Sound(RebuiltTo[i].result, j) /\ RebuiltTo[i].position = Len(OldLines[j])
  /\ \A d \in PairedDeletions : d <= i => RebuiltTo[i].saved[d] = d

\* A line that is not in a hunk is context.
LEMMA OutOfHunk ==
  ASSUME ScriptOK, NEW i \in Lines, ~InHunk(i)
  PROVE  script[i] = "context" /\ i \notin PairedDeletions
<1>1. script[i] = "context"
  BY LinesAre DEF InHunk
<1>. QED
  BY <1>1, DeletionOfIs

\* A line of a hunk, when all old lines before it have been dealt with.
LEMMA RebuildSound ==
  ASSUME ScriptOK, NEW i \in Lines, NEW v \in Rebuilts,
         Sound(v.result, i - 1), v.position = Len(OldLines[i - 1]),
         \A d \in PairedDeletions : d <= i - 1 => v.saved[d] = d
  PROVE  LET w == Rebuild(v, i) IN
         /\ w \in Rebuilts /\ Sound(w.result, i) /\ w.position = Len(OldLines[i])
         /\ \A d \in PairedDeletions : d <= i => w.saved[d] = d
<1>1. PICK w, old : w = Rebuild(v, i) /\ old = OldAt(v.position)
  OBVIOUS
<1>2. /\ w \in Rebuilts
      /\ w.position = (IF IsOld(i) THEN v.position + 1 ELSE v.position)
      /\ w.saved = (IF i \in PairedDeletions THEN [v.saved EXCEPT ![i] = old] ELSE v.saved)
      /\ script[i] = "context" => w.result = Append(v.result, old)
      /\ script[i] = "deletion" => w.result = IF i \notin PairedDeletions /\ i \in discarded THEN Append(v.result, old)
                                              ELSE v.result
      /\ script[i] = "addition" => w.result = IF i \notin discarded THEN Append(v.result, i)
                                              ELSE IF i \in PairedAdditions THEN Append(v.result, v.saved[DeletionOf(i)])
                                              ELSE v.result
  BY <1>1, RebuildIs
<1>3. script[i] \in Kinds /\ i \in Nat /\ i # 0 /\ (IsOld(i) => old = i) /\ w.position = Len(OldLines[i])
  BY <1>1, <1>2, OldAtIs, LinesAre
<1>4. v.saved \in [Lines -> Nat]
  BY DEF Rebuilts
<1>5. ASSUME NEW d \in PairedDeletions, d <= i PROVE w.saved[d] = d
  <2>1. d \in Lines /\ d \in Nat /\ script[d] = "deletion"
    BY DeletionOfIs, LinesAre
  <2>2. CASE d = i
    <3>1. IsOld(i) /\ old = i
      BY <1>3, <2>1, <2>2 DEF IsOld
    <3>. QED
      BY <1>2, <1>4, <1>5, <2>1, <2>2, <3>1
  <2>3. CASE d # i
    <3>1. d <= i - 1
      BY <1>3, <1>5, <2>1, <2>3
    <3>2. v.saved[d] = d
      BY <3>1
    <3>. QED
      BY <1>2, <1>4, <2>1, <2>3, <3>2
  <2>. QED
    BY <2>2, <2>3
<1>6. w.result = IF Out(i) = 0 THEN v.result ELSE Append(v.result, Out(i))
  <2>1. CASE script[i] = "context"
    BY <1>2, <1>3, <2>1 DEF Out, IsOld
  <2>2. CASE script[i] = "deletion"
    BY <1>2, <1>3, <2>2 DEF Out, IsOld
  <2>3. CASE script[i] = "addition"
    <3>1. CASE i \in discarded /\ i \in PairedAdditions
      <4>1. PICK d : d = DeletionOf(i)
        OBVIOUS
      <4>2. d \in PairedDeletions /\ d < i /\ d \in Lines
        BY <3>1, <4>1, DeletionOfIs
      <4>3. d \in Nat /\ d # 0 /\ d <= i - 1
        <5>1. d \in Nat /\ d # 0 /\ i \in Nat
          BY <4>2, LinesAre
        <5>. QED
          BY <4>2, <5>1
      <4>4. v.saved[d] = d
        BY <4>2, <4>3
      <4>. QED
        BY <1>2, <2>3, <3>1, <4>1, <4>3, <4>4 DEF Out
    <3>2. CASE ~(i \in discarded /\ i \in PairedAdditions)
      BY <1>2, <1>3, <2>3, <3>2 DEF Out
    <3>. QED
      BY <3>1, <3>2
  <2>. QED
    BY <1>3, <2>1, <2>2, <2>3 DEF Kinds
<1>7. Sound(w.result, i)
  <2>1. PICK s : s = v.result
    OBVIOUS
  <2>2. Sound(IF Out(i) = 0 THEN s ELSE Append(s, Out(i)), i)
    BY <2>1, SoundStep
  <2>. QED
    BY <1>6, <2>1, <2>2
<1>. QED
  BY <1>1, <1>2, <1>3, <1>5, <1>7

\* One line more, in a hunk or between two, keeps what has been rebuilt sound.
LEMMA RebuiltStep ==
  ASSUME ScriptOK, NEW i \in Lines, NEW j, RebuiltSound(i - 1, j)
  PROVE  \E k : RebuiltSound(i, k)
<1>1. PICK h : h = i - 1
  OBVIOUS
<1>2. h \in Nat /\ i \in Nat /\ i = h + 1 /\ h \in 0 .. Len(script) /\ i \in 0 .. Len(script) /\ Len(script) \in Nat
  BY <1>1, LinesAre
<1>3. PICK u : u = RebuiltTo[h]
  OBVIOUS
<1>4. /\ j \in 0 .. h /\ \A k \in j + 1 .. h : script[k] = "context"
      /\ h = 0 \/ InHunk(h) => j = h
      /\ u \in Rebuilts /\ Sound(u.result, j) /\ u.position = Len(OldLines[j])
      /\ \A d \in PairedDeletions : d <= h => u.saved[d] = d
  BY <1>1, <1>3 DEF RebuiltSound
<1>5. RebuiltTo[i] = RebuildHunk(u, i)
  BY <1>1, <1>3, RebuiltToIs
<1>6. CASE ~InHunk(i)
  <2>1. RebuiltTo[i] = u
    BY <1>5, <1>6 DEF RebuildHunk
  <2>2. script[i] = "context" /\ i \notin PairedDeletions
    BY <1>6, OutOfHunk
  <2>3. j \in 0 .. i /\ \A k \in j + 1 .. i : script[k] = "context"
    BY <1>2, <1>4, <2>2
  <2>4. ASSUME NEW d \in PairedDeletions, d <= i PROVE u.saved[d] = d
    <3>1. d \in Nat /\ d # i
      BY <2>2, DeletionOfIs, LinesAre
    <3>. QED
      BY <1>2, <1>4, <2>4, <3>1
  <2>5. i # 0
    BY <1>2
  <2>6. RebuiltSound(i, j)
    BY <1>4, <1>6, <2>1, <2>3, <2>4, <2>5 DEF RebuiltSound
  <2>. QED
    BY <2>6
<1>7. CASE InHunk(i)
  <2>1. PICK v : v = IF StartsHunk(i) THEN CopiedTo(u, OldStart(i)) ELSE u
    OBVIOUS
  <2>2. RebuiltTo[i] = Rebuild(v, i)
    BY <1>5, <1>7, <2>1 DEF RebuildHunk
  <2>3. v \in Rebuilts /\ Sound(v.result, h) /\ v.position = Len(OldLines[h]) /\ v.saved = u.saved
    <3>1. CASE StartsHunk(i)
      <4>1. PICK start : start = Len(OldLines[h])
        OBVIOUS
      <4>2. start = OldStart(i) /\ start \in Nat /\ start <= Len(old_lines)
        <5>1. start = OldStart(i)
          BY <1>1, <4>1 DEF OldStart
        <5>2. Len(script) \in h .. Len(script)
          BY <1>2
        <5>3. start <= Len(OldLines[Len(script)]) /\ start \in Nat
          BY <1>1, <1>2, <4>1, <5>2, PrefixStays, OldAtIs DEF OldLines
        <5>. QED
          BY <5>1, <5>3, OldLinesAre
      <4>3. v = CopiedTo(u, start)
        BY <2>1, <3>1, <4>2
      <4>4. /\ v \in Rebuilts /\ v.result = u.result \o SubSeq(old_lines, u.position + 1, start)
            /\ v.position = start /\ v.saved = u.saved
        BY <1>4, <4>2, <4>3, CopiedIs
      <4>5. Sound(v.result, h)
        <5>1. PICK s : s = u.result
          OBVIOUS
        <5>2. j \in 0 .. Len(script) /\ h \in j .. Len(script) /\ Sound(s, j)
          BY <1>2, <1>4, <5>1
        <5>3. Sound(s \o SubSeq(old_lines, Len(OldLines[j]) + 1, Len(OldLines[h])), h)
          BY <1>4, <5>2, GapIs
        <5>. QED
          BY <1>4, <4>1, <4>4, <5>1, <5>3
      <4>. QED
        BY <4>1, <4>4, <4>5
    <3>2. CASE ~StartsHunk(i)
      <4>1. i # 1 /\ InHunk(h)
        BY <1>1, <1>7, <3>2 DEF StartsHunk
      <4>2. j = h /\ v = u
        BY <1>4, <2>1, <3>2, <4>1
      <4>. QED
        BY <1>4, <4>2
    <3>. QED
      BY <3>1, <3>2
  <2>4. PICK w : w = Rebuild(v, i)
    OBVIOUS
  <2>5. \A d \in PairedDeletions : d <= h => v.saved[d] = d
    BY <1>4, <2>3
  <2>6. /\ w \in Rebuilts /\ Sound(w.result, i) /\ w.position = Len(OldLines[i])
        /\ \A d \in PairedDeletions : d <= i => w.saved[d] = d
    BY <1>1, <2>3, <2>4, <2>5, RebuildSound
  <2>7. i \in 0 .. i /\ \A k \in i + 1 .. i : script[k] = "context"
    BY <1>2
  <2>8. RebuiltSound(i, i)
    BY <2>2, <2>4, <2>6, <2>7 DEF RebuiltSound
  <2>. QED
    BY <2>8
<1>. QED
  BY <1>6, <1>7

\* After the last line what has been rebuilt is sound.
LEMMA RebuiltIsSound ==
  ASSUME ScriptOK
  PROVE  \E j : RebuiltSound(Len(script), j)
<1>. DEFINE S == {i \in 0 .. Len(script) : \E j : RebuiltSound(i, j)}
<1>1. Len(script) \in Nat
  BY LinesAre
<1>2. RebuiltSound(0, 0)
  <2>1. PICK zero : zero = 0
    OBVIOUS
  <2>2. PICK u : u = RebuiltTo[zero]
    OBVIOUS
  <2>3. u \in Rebuilts /\ u.result = <<>> /\ u.position = 0
    BY <1>1, <2>1, <2>2, RebuiltToIs
  <2>4. OldLines[zero] = <<>>
    BY <2>1, KeptIs DEF OldLines
  <2>5. Sound(u.result, zero) /\ u.position = Len(OldLines[zero])
    BY <2>1, <2>3, <2>4, SoundStart
  <2>6. zero \in 0 .. zero /\ \A k \in zero + 1 .. zero : script[k] = "context"
    BY <2>1
  <2>7. \A d \in PairedDeletions : ~(d <= zero)
    BY <2>1, DeletionOfIs, LinesAre
  <2>8. RebuiltSound(zero, zero)
    BY <2>2, <2>3, <2>5, <2>6, <2>7 DEF RebuiltSound
  <2>. QED
    BY <2>1, <2>8
<1>3. 0 \in S
  BY <1>1, <1>2
<1>4. ASSUME NEW n \in 0 .. Len(script) - 1, n \in S PROVE n + 1 \in S
  <2>1. PICK i : i = n + 1
    OBVIOUS
  <2>2. i \in Lines /\ i - 1 = n /\ i \in 0 .. Len(script)
    BY <1>1, <2>1 DEF Lines
  <2>3. PICK j : RebuiltSound(i - 1, j)
    BY <1>4, <2>2
  <2>4. \E k : RebuiltSound(i, k)
    BY <2>2, <2>3, RebuiltStep
  <2>. QED
    BY <2>1, <2>2, <2>4
<1>5. \A n \in 0 .. Len(script) : n \in S
  <2>. HIDE DEF S
  <2>. QED
    BY <1>1, <1>3, <1>4, UpTo
<1>6. Len(script) \in S
  <2>1. Len(script) \in 0 .. Len(script)
    BY <1>1
  <2>. HIDE DEF S
  <2>. QED
    BY <1>5, <2>1
<1>. QED
  BY <1>6

\* The file written: what the lines of the script put in, and the end of the old file.
LEMMA WrittenIs ==
  ASSUME ScriptOK
  PROVE  \E s : Sound(s, Len(script)) /\ reconstruct_partial = s \o ending
<1>1. PICK j : RebuiltSound(Len(script), j)
  BY RebuiltIsSound
<1>2. PICK n, u : n = Len(script) /\ u = RebuiltTo[Len(script)]
  OBVIOUS
<1>3. /\ j \in 0 .. n /\ n \in Nat /\ \A k \in j + 1 .. n : script[k] = "context"
      /\ u \in Rebuilts /\ Sound(u.result, j) /\ u.position = Len(OldLines[j])
  BY <1>1, <1>2, LinesAre DEF RebuiltSound
<1>4. PICK r, p, q, l : r = u.result /\ p = Len(OldLines[j]) /\ q = Len(OldLines[n]) /\ l = Len(old_lines)
  OBVIOUS
<1>5. Sound(r \o SubSeq(old_lines, p + 1, q), n) /\ p <= q /\ p \in Nat
  <2>1. j \in 0 .. Len(script) /\ n \in j .. Len(script)
    BY <1>2, <1>3
  <2>2. \A k \in j + 1 .. n : script[k] = "context"
    BY <1>3
  <2>3. Sound(r, j)
    BY <1>3, <1>4
  <2>. QED
    BY <1>4, <2>1, <2>2, <2>3, GapIs
<1>6. /\ old_lines \in Seq(Nat) /\ l = q + Len(ending) /\ Len(ending) \in Nat /\ ending \in Seq(Nat) /\ q \in Nat
      /\ \A x \in 1 .. Len(ending) : old_lines[q + x] = ending[x]
  BY <1>2, <1>4, OldLinesAre
<1>7. reconstruct_partial = r \o SubSeq(old_lines, p + 1, l)
  <2>1. l \in Nat /\ l <= Len(old_lines)
    BY <1>4, <1>6
  <2>2. CopiedTo(u, l).result = u.result \o SubSeq(old_lines, u.position + 1, l)
    BY <1>3, <2>1, CopiedIs
  <2>. QED
    BY <1>2, <1>3, <1>4, <2>2 DEF reconstruct_partial
<1>8. PICK a, b : a = SubSeq(old_lines, p + 1, q) /\ b = SubSeq(old_lines, q + 1, l)
  OBVIOUS
<1>9. SubSeq(old_lines, p + 1, l) = a \o b
  <2>1. PICK m : m = p + 1
    OBVIOUS
  <2>2. m \in 1 .. Len(old_lines) + 1 /\ q \in m - 1 .. Len(old_lines) /\ l \in q .. Len(old_lines)
    BY <1>4, <1>5, <1>6, <2>1
  <2>3. SubSeq(old_lines, m, q) \o SubSeq(old_lines, q + 1, l) = SubSeq(old_lines, m, l)
    BY <1>6, <2>2, ConcatAdjacentSubSeq
  <2>. QED
    BY <1>8, <2>1, <2>3
<1>10. a \in Seq(Nat) /\ r \in Seq(Nat)
  <2>1. PICK m : m = p + 1
    OBVIOUS
  <2>2. m \in Int /\ q \in Int /\ 1 <= m /\ q <= Len(old_lines)
    BY <1>4, <1>5, <1>6, <2>1
  <2>3. \A x \in m .. q : old_lines[x] \in Nat
    BY <1>6, <2>2
  <2>4. a \in Seq(Nat)
    BY <1>8, <2>1, <2>2, <2>3, SubSeqProperties
  <2>. QED
    BY <1>3, <1>4, <2>4 DEF Rebuilts
<1>11. b = ending
  <2>1. PICK m : m = q + 1
    OBVIOUS
  <2>2. m \in Int /\ l \in Int /\ 1 <= m /\ l <= Len(old_lines)
    BY <1>4, <1>6, <2>1
  <2>3. \A x \in m .. l : old_lines[x] \in Nat
    BY <1>6, <2>2
  <2>4. /\ b \in Seq(Nat) /\ Len(b) = (IF m <= l THEN l - m + 1 ELSE 0)
        /\ \A x \in 1 .. l - m + 1 : b[x] = old_lines[m + x - 1]
    BY <1>8, <2>1, <2>2, <2>3, SubSeqProperties
  <2>5. Len(b) = Len(ending) /\ l - m + 1 = Len(ending)
    BY <1>6, <2>1, <2>4
  <2>6. ASSUME NEW x \in 1 .. Len(b) PROVE b[x] = ending[x]
    <3>1. x \in 1 .. l - m + 1 /\ m + x - 1 = q + x /\ x \in 1 .. Len(ending)
      BY <1>6, <2>1, <2>5
    <3>2. b[x] = old_lines[q + x]
      BY <2>4, <3>1
    <3>. QED
      BY <1>6, <3>1, <3>2
  <2>. QED
    BY <1>6, <2>4, <2>5, <2>6, SeqEqual
<1>12. r \o (a \o b) = (r \o a) \o b
  <2>1. r \in Seq(Nat) /\ a \in Seq(Nat) /\ b \in Seq(Nat)
    BY <1>6, <1>10, <1>11
  <2>2. \A x, y, z \in Seq(Nat) : (x \o y) \o z = x \o (y \o z)
    BY ThreeParts
  <2>. QED
    BY <2>1, <2>2
<1>13. Sound(r \o a, Len(script)) /\ reconstruct_partial = (r \o a) \o ending
  BY <1>2, <1>5, <1>7, <1>8, <1>9, <1>11, <1>12
<1>. QED
  BY <1>13

\* Some of the lines are finitely many.
LEMMA FiniteLines ==
  ASSUME ScriptOK, NEW S, S \subseteq Lines
  PROVE  IsFiniteSet(S)
<1>1. IsFiniteSet(1 .. Len(script))
  <2>1. PICK one, n \in Int : one = 1 /\ n = Len(script) /\ one \in Int
    BY LinesAre
  <2>. QED
    BY <2>1, FS_Interval
<1>. QED
  BY <1>1, FS_Subset DEF Lines

\* A sequence without repetitions has as many members as it is long.
LEMMA EachOnce ==
  ASSUME NEW S, NEW s \in Seq(S), \A k, l \in 1 .. Len(s) : s[k] = s[l] => k = l
  PROVE  Len(s) = Cardinality({s[k] : k \in DOMAIN s})
<1>1. PICK n \in Nat : n = Len(s) /\ DOMAIN s = 1 .. n
  OBVIOUS
<1>2. PICK T : T = {s[k] : k \in DOMAIN s}
  OBVIOUS
<1>3. PICK f : f = [k \in 1 .. n |-> s[k]]
  OBVIOUS
<1>4. f \in [1 .. n -> T] /\ \A k \in 1 .. n : f[k] = s[k]
  BY <1>1, <1>2, <1>3
<1>5. f \in Surjection(1 .. n, T)
  <2>1. \A t \in T : \E k \in 1 .. n : f[k] = t
    BY <1>1, <1>2, <1>4
  <2>. QED
    BY <1>4, <2>1 DEF Surjection
<1>6. f \in Injection(1 .. n, T)
  <2>1. \A k, l \in 1 .. n : f[k] = f[l] => k = l
    BY <1>1, <1>4
  <2>. QED
    BY <1>4, <2>1 DEF Injection, IsInjective
<1>7. IsFiniteSet(1 .. n) /\ Cardinality(1 .. n) = n
  <2>1. PICK one : one = 1 /\ one \in Int
    OBVIOUS
  <2>2. IsFiniteSet(one .. n) /\ Cardinality(one .. n) = IF one > n THEN 0 ELSE n - one + 1
    BY <2>1, FS_Interval
  <2>3. (IF one > n THEN 0 ELSE n - one + 1) = n
    BY <2>1
  <2>. QED
    BY <2>1, <2>2, <2>3
<1>8. Cardinality(T) = Cardinality(1 .. n)
  BY <1>5, <1>6, <1>7, FS_Surjection
<1>. QED
  BY <1>1, <1>2, <1>7, <1>8

\* Which lines of the script the file written has.
LEMMA WrittenHas ==
  ASSUME ScriptOK
  PROVE  LET written == reconstruct_partial IN
         /\ \A x \in Lines : (\E k \in DOMAIN written : written[k] = x) <=> (\E j \in Lines : Out(j) = x)
         /\ Len(written) = Cardinality({written[k] : k \in DOMAIN written})
         /\ discarded \cap Toggleable = {} => written = NewLines[Len(script)] \o ending
<1>1. PICK s : Sound(s, Len(script)) /\ reconstruct_partial = s \o ending
  BY WrittenIs
<1>2. PICK t, w : t = ending /\ w = s \o t
  OBVIOUS
<1>3. s \in Seq(Lines) /\ s \in Seq(Nat)
  <2>1. s \in Seq(Lines) /\ Lines \subseteq Nat
    BY <1>1, LinesAre DEF Sound
  <2>. QED
    BY <2>1, SeqMonotonic
<1>4. t \in Seq(Nat) /\ Len(t) <= 1 /\ \A k \in 1 .. Len(t) : t[k] = 0 /\ k = 1
  BY <1>2 DEF ending, Ending
<1>5. /\ w \in Seq(Nat) /\ Len(w) = Len(s) + Len(t) /\ Len(s) \in Nat /\ Len(t) \in Nat /\ DOMAIN w = 1 .. Len(s) + Len(t)
      /\ \A k \in 1 .. Len(s) + Len(t) : w[k] = IF k <= Len(s) THEN s[k] ELSE t[k - Len(s)]
  BY <1>2, <1>3, <1>4, ConcatProperties, LenProperties
<1>6. \A k \in 1 .. Len(s) : k \in DOMAIN w /\ w[k] = s[k] /\ s[k] \in Lines
  BY <1>3, <1>5
<1>7. \A k \in DOMAIN w : k \in 1 .. Len(s) \/ (w[k] = 0 /\ k = Len(s) + 1)
  <2>1. ASSUME NEW k \in DOMAIN w, k \notin 1 .. Len(s) PROVE w[k] = 0 /\ k = Len(s) + 1
    <3>1. k - Len(s) \in 1 .. Len(t) /\ ~(k <= Len(s)) /\ k \in 1 .. Len(s) + Len(t)
      BY <1>5, <2>1
    <3>2. t[k - Len(s)] = 0 /\ k - Len(s) = 1
      BY <1>4, <3>1
    <3>. QED
      BY <1>5, <3>1, <3>2
  <2>. QED
    BY <2>1
<1>8. \A x \in Lines : x # 0
  BY LinesAre
<1>9. ASSUME NEW x \in Lines
      PROVE  (\E k \in DOMAIN w : w[k] = x) <=> (\E j \in Lines : Out(j) = x)
  <2>1. (\E k \in DOMAIN w : w[k] = x) <=> (\E k \in 1 .. Len(s) : s[k] = x)
    BY <1>6, <1>7, <1>8
  <2>. QED
    BY <1>1, <2>1 DEF Sound, Lines
<1>10. \A k, l \in 1 .. Len(w) : w[k] = w[l] => k = l
  <2>1. \A k, l \in 1 .. Len(s) : s[k] = s[l] => k = l
    BY <1>1 DEF Sound
  <2>2. 1 .. Len(w) = DOMAIN w
    BY <1>5
  <2>. QED
    BY <1>6, <1>7, <1>8, <2>1, <2>2
<1>11. Len(w) = Cardinality({w[k] : k \in DOMAIN w})
  <2>1. w \in Seq(Nat)
    BY <1>5
  <2>. QED
    BY <1>10, <2>1, EachOnce
<1>12. discarded \cap Toggleable = {} => w = NewLines[Len(script)] \o ending
  BY <1>1, <1>2 DEF Sound
<1>. QED
  BY <1>1, <1>2, <1>9, <1>11, <1>12

\* A kept addition stands in the file written; of a pair it is either the deletion or the
\* addition.
LEMMA OutOfKind ==
  ASSUME ScriptOK, NEW x \in Lines
  PROVE  LET has == \E j \in Lines : Out(j) = x IN
         /\ script[x] = "context" => has
         /\ script[x] = "addition" => (has <=> x \notin discarded)
         /\ script[x] = "deletion" /\ x \notin PairedDeletions => (has <=> x \in discarded)
         /\ \A a \in PairedAdditions : DeletionOf(a) = x => (has <=> a \in discarded)
<1>1. x # 0 /\ \A i \in Lines : i # 0 /\ script[i] \in Kinds
  BY LinesAre
<1>2. ASSUME NEW j \in Lines, Out(j) = x
      PROVE  \/ /\ j = x
                /\ \/ script[x] = "context"
                   \/ script[x] = "deletion" /\ x \notin PairedDeletions /\ x \in discarded
                   \/ script[x] = "addition" /\ x \notin discarded
             \/ j \in PairedAdditions /\ x = DeletionOf(j) /\ j \in discarded /\ script[j] = "addition"
  BY <1>1, <1>2 DEF Out, Kinds
<1>3. script[x] = "context" => Out(x) = x
  BY DEF Out
<1>4. script[x] = "addition" => ((\E j \in Lines : Out(j) = x) <=> x \notin discarded)
  <2>1. ASSUME script[x] = "addition", x \notin discarded PROVE Out(x) = x
    BY <2>1 DEF Out
  <2>2. ASSUME script[x] = "addition", NEW j \in Lines, Out(j) = x PROVE x \notin discarded
    <3>1. ASSUME j \in PairedAdditions, x = DeletionOf(j) PROVE FALSE
      BY <2>2, <3>1, DeletionOfIs
    <3>. QED
      BY <1>2, <2>2, <3>1
  <2>. QED
    BY <2>1, <2>2
<1>5. script[x] = "deletion" /\ x \notin PairedDeletions => ((\E j \in Lines : Out(j) = x) <=> x \in discarded)
  <2>1. ASSUME script[x] = "deletion", x \notin PairedDeletions, x \in discarded PROVE Out(x) = x
    BY <2>1 DEF Out
  <2>2. ASSUME script[x] = "deletion", x \notin PairedDeletions, NEW j \in Lines, Out(j) = x PROVE x \in discarded
    <3>1. ASSUME j \in PairedAdditions, x = DeletionOf(j) PROVE FALSE
      BY <2>2, <3>1, DeletionOfIs
    <3>. QED
      BY <1>2, <2>2, <3>1
  <2>. QED
    BY <2>1, <2>2
<1>6. ASSUME NEW a \in PairedAdditions, DeletionOf(a) = x
      PROVE  (\E j \in Lines : Out(j) = x) <=> a \in discarded
  <2>1. a \in Lines /\ script[a] = "addition" /\ x \in PairedDeletions /\ script[x] = "deletion"
    BY <1>6, DeletionOfIs
  <2>2. ASSUME a \in discarded PROVE Out(a) = x
    BY <1>6, <2>1, <2>2 DEF Out
  <2>3. ASSUME NEW j \in Lines, Out(j) = x PROVE a \in discarded
    <3>1. j \in PairedAdditions /\ x = DeletionOf(j) /\ j \in discarded
      BY <1>2, <2>1, <2>3
    <3>2. j = a
      BY <1>6, <3>1, DeletionOfIs
    <3>. QED
      BY <3>1, <3>2
  <2>. QED
    BY <2>1, <2>2, <2>3
<1>. QED
  BY <1>3, <1>4, <1>5, <1>6

\* The header counts what Apply does.
LEMMA HeaderIsRight ==
  ASSUME ScriptOK
  PROVE  HeaderMatchesApply
<1>. DEFINE Has(x) == \E j \in Lines : Out(j) = x
            added == {i \in Lines \ discarded : script[i] = "addition"}
            replaced == added \cap PairedAdditions
            removed == {i \in Lines \ (discarded \cup PairedDeletions) : script[i] = "deletion"}
            gone == {i \in Lines : script[i] = "deletion" /\ ~Has(i)}
            givenUp == {d \in PairedDeletions : ~Has(d)}
<1>1. \A i \in Lines : script[i] = "addition" => (Has(i) <=> i \notin discarded)
  BY OutOfKind
<1>2. added = {i \in Lines : script[i] = "addition" /\ Has(i)}
  <2>. HIDE DEF Has
  <2>. QED
    BY <1>1
<1>3. /\ \A d \in PairedDeletions : d \in Lines /\ script[d] = "deletion"
      /\ \A i \in Lines : script[i] = "deletion" /\ i \notin PairedDeletions => (Has(i) <=> i \in discarded)
  BY OutOfKind, DeletionOfIs
<1>4. gone = givenUp \cup removed /\ givenUp \cap removed = {}
  <2>. HIDE DEF Has
  <2>. QED
    BY <1>3
<1>5. IsFiniteSet(givenUp) /\ IsFiniteSet(removed) /\ IsFiniteSet(replaced)
  <2>. HIDE DEF Has
  <2>1. givenUp \subseteq Lines /\ removed \subseteq Lines /\ replaced \subseteq Lines
    BY <1>3
  <2>. HIDE DEF givenUp, removed, replaced
  <2>. QED
    BY <2>1, FiniteLines
<1>6. Cardinality(givenUp) = Cardinality(replaced)
  <2>1. PICK f : f = [a \in replaced |-> DeletionOf(a)]
    OBVIOUS
  <2>2. ASSUME NEW a \in replaced PROVE DeletionOf(a) \in givenUp
    <3>1. a \in PairedAdditions /\ a \notin discarded /\ DeletionOf(a) \in PairedDeletions /\ DeletionOf(a) \in Lines
      BY <1>3, DeletionOfIs
    <3>2. ~Has(DeletionOf(a))
      BY <3>1, OutOfKind
    <3>. HIDE DEF Has
    <3>. QED
      BY <3>1, <3>2
  <2>3. ASSUME NEW d \in givenUp PROVE \E a \in replaced : DeletionOf(a) = d
    <3>1. d \in PairedDeletions /\ d \in Lines /\ ~Has(d)
      BY <1>3
    <3>2. PICK a \in PairedAdditions : DeletionOf(a) = d
      BY <3>1, DeletionOfIs
    <3>3. a \notin discarded
      BY <3>1, <3>2, OutOfKind
    <3>4. a \in Lines /\ script[a] = "addition"
      BY DeletionOfIs
    <3>5. a \in replaced
      BY <3>3, <3>4
    <3>. QED
      BY <3>2, <3>5
  <2>4. \A a, b \in replaced : DeletionOf(a) = DeletionOf(b) => a = b
    BY DeletionOfIs
  <2>. HIDE DEF replaced, givenUp
  <2>5. f \in [replaced -> givenUp] /\ \A a \in replaced : f[a] = DeletionOf(a)
    BY <2>1, <2>2
  <2>6. f \in Surjection(replaced, givenUp)
    BY <2>3, <2>5 DEF Surjection
  <2>7. f \in Injection(replaced, givenUp)
    BY <2>4, <2>5 DEF Injection, IsInjective
  <2>. QED
    BY <1>5, <2>6, <2>7, FS_Surjection
<1>7. Cardinality(gone) = Cardinality(replaced) + Cardinality(removed)
  <2>. HIDE DEF gone, givenUp, removed, replaced
  <2>1. Cardinality(gone) = Cardinality(givenUp) + Cardinality(removed) - Cardinality(givenUp \cap removed)
    BY <1>4, <1>5, FS_Union
  <2>2. Cardinality(givenUp \cap removed) = 0
    BY <1>4, FS_EmptySet
  <2>3. Cardinality(givenUp) \in Nat /\ Cardinality(removed) \in Nat
    BY <1>5, FS_CardinalityType
  <2>. QED
    BY <1>6, <2>1, <2>2, <2>3
<1>8. effective_stats.additions = Cardinality(added) /\ effective_stats.deletions = Cardinality(replaced) + Cardinality(removed)
  BY DEF effective_stats
<1>9. PICK written : written = reconstruct_partial
  OBVIOUS
<1>. DEFINE has(x) == \E k \in DOMAIN written : written[k] = x
<1>10. /\ \A x \in Lines : has(x) <=> Has(x)
       /\ Len(written) = Cardinality({written[k] : k \in DOMAIN written})
       /\ discarded \cap Toggleable = {} => written = NewLines[Len(script)] \o ending
  BY <1>9, WrittenHas
<1>11. {i \in Lines : script[i] = "addition" /\ has(i)} = added
  <2>. HIDE DEF has, Has
  <2>. QED
    BY <1>2, <1>10
<1>12. {i \in Lines : script[i] = "deletion" /\ ~has(i)} = gone
  <2>. HIDE DEF has, Has
  <2>. QED
    BY <1>10
<1>13. \A i \in Lines : script[i] = "context" => has(i)
  <2>1. \A i \in Lines : script[i] = "context" => Has(i)
    BY OutOfKind
  <2>. HIDE DEF has, Has
  <2>. QED
    BY <1>10, <2>1
<1>. HIDE DEF added, gone, replaced, removed
<1>. QED
  BY <1>7, <1>8, <1>9, <1>10, <1>11, <1>12, <1>13 DEF HeaderMatchesApply

-----------------------------------------------------------------------------
(* ReviewDiff: what Copy takes                                             *)

\* A line's width is within the bound.
LEMMA WidthIs ==
  ASSUME NEW line \in Nat
  PROVE  WidthOf(line) \in 0 .. MaxWidth
<1>1. PICK m \in Nat : m = MaxWidth + 1 /\ m > 0
  BY DiffBounds
<1>2. line % m \in 0 .. m - 1
  BY <1>1
<1>. QED
  BY <1>1, <1>2, DiffBounds DEF WidthOf

\* What the panel shows is a sequence of lines, 0 for a header.
LEMMA DisplayIs ==
  ASSUME ScriptOK
  PROVE  display_lines \in Seq(Nat)
<1>. DEFINE m == Len(script)
            V == Seq(Nat)
            new(i) == IF StartsHunk(i) THEN <<0, i>> ELSE IF InHunk(i) THEN <<i>> ELSE <<>>
            Body(f, i) == IF i = 0 THEN <<>> ELSE f[i - 1] \o new(i)
            F == CHOOSE f : f = [i \in 0 .. m |-> Body(f, i)]
            step == [i \in 1 .. m |-> [v \in V |-> v \o new(i)]]
<1>1. m \in Nat /\ Lines = 1 .. m
  BY LinesAre DEF Lines
<1>2. ASSUME NEW i \in 1 .. m, NEW v \in V PROVE v \o new(i) \in V
  <2>1. new(i) \in Seq(Nat)
    BY <1>1
  <2>. HIDE DEF new
  <2>. QED
    BY <2>1, ConcatProperties
<1>. HIDE DEF new
<1>3. step \in [1 .. m -> [V -> V]] /\ \A i \in 1 .. m : \A v \in V : step[i][v] = v \o new(i)
  <2>. HIDE DEF m, V
  <2>. QED
    BY <1>2
<1>4. PICK f \in [0 .. m -> V] : f[0] = <<>> /\ \A i \in 1 .. m : f[i] = step[i][f[i - 1]]
  <2>1. PICK start : start = <<>>
    OBVIOUS
  <2>2. start \in V
    BY <2>1
  <2>. HIDE DEF m, step, V
  <2>3. Steps(m, V, start, step)
    BY <1>1, <1>3, <2>2 DEF Steps
  <2>4. \E f : Follows(f, m, V, start, step)
    BY <2>3, StepByStep
  <2>. QED
    BY <2>1, <2>4 DEF Follows
<1>5. f = [i \in 0 .. m |-> Body(f, i)]
  <2>1. \A i \in 1 .. m : i - 1 \in 0 .. m /\ i # 0
    BY <1>1
  <2>2. \A i \in 1 .. m : f[i] = f[i - 1] \o new(i)
    <3>. HIDE DEF m, step, V
    <3>. QED
      BY <1>3, <1>4, <2>1
  <2>3. 0 .. m = {0} \cup 1 .. m
    BY <1>1
  <2>4. \A i \in 0 .. m : f[i] = Body(f, i)
    <3>. HIDE DEF m, V, step
    <3>. QED
      BY <1>4, <2>1, <2>2, <2>3
  <2>. HIDE DEF Body, m, V
  <2>. QED
    BY <2>4
<1>6. F = [i \in 0 .. m |-> Body(F, i)]
  BY <1>5, Zenon
<1>7. display_lines = F[m]
  BY Zenon DEF display_lines, new
<1>. HIDE DEF F, step
<1>8. F[0] = <<>> /\ \A i \in 1 .. m : F[i] = F[i - 1] \o new(i)
  <2>1. 0 \in 0 .. m /\ \A i \in 1 .. m : i # 0 /\ i \in 0 .. m
    BY <1>1
  <2>2. \A i \in 0 .. m : F[i] = Body(F, i)
    <3>. HIDE DEF Body
    <3>. QED
      BY <1>6
  <2>. HIDE DEF m
  <2>. QED
    BY <2>1, <2>2
<1>. DEFINE S == {i \in 0 .. m : F[i] \in V}
<1>9. 0 \in S
  <2>1. F[0] \in V
    <3>1. PICK none : none = <<>>
      OBVIOUS
    <3>2. none \in V
      BY <3>1
    <3>. HIDE DEF V
    <3>. QED
      BY <1>8, <3>1, <3>2
  <2>. HIDE DEF V
  <2>. QED
    BY <1>1, <2>1
<1>10. ASSUME NEW i \in 0 .. m - 1, i \in S PROVE i + 1 \in S
  <2>1. i + 1 \in 1 .. m /\ i + 1 \in 0 .. m /\ (i + 1) - 1 = i
    BY <1>1
  <2>2. F[i + 1] = F[i] \o new(i + 1) /\ F[i] \in V
    <3>. HIDE DEF V
    <3>. QED
      BY <1>8, <1>10, <2>1
  <2>3. F[i] \o new(i + 1) \in V
    <3>. HIDE DEF V
    <3>. QED
      BY <1>2, <2>1, <2>2
  <2>. QED
    BY <2>1, <2>2, <2>3
<1>11. \A i \in 0 .. m : i \in S
  <2>. HIDE DEF S, m
  <2>. QED
    BY <1>1, <1>9, <1>10, UpTo
<1>12. m \in 0 .. m
  BY <1>1
<1>. HIDE DEF m, V
<1>13. F[m] \in V
  BY <1>11, <1>12
<1>. QED
  BY <1>7, <1>13 DEF V

\* Where a selection starts and ends.
Spots == (Nat \ {0}) \X Nat
Chars == Nat \X Nat
FirstOf(k, from) == IF k = from[1] THEN Upto(from[2], WidthOf(display_lines[k])) ELSE 0
LastOf(k, to) == IF k = to[1] THEN Upto(to[2], WidthOf(display_lines[k])) ELSE WidthOf(display_lines[k])

\* What one line gives.
LEMMA PartIs ==
  ASSUME ScriptOK, NEW k \in DOMAIN display_lines, NEW from \in Spots, NEW to \in Spots
  PROVE  /\ Part(k, from, to) \in Seq(Chars)
         /\ FirstOf(k, from) \in Nat /\ LastOf(k, to) \in Nat /\ display_lines[k] \in Nat
         /\ \A c \in Chars : c[2] # Newline =>
              ((\E n \in 1 .. Len(Part(k, from, to)) : Part(k, from, to)[n] = c)
                 <=> (display_lines[k] # 0 /\ c[1] = display_lines[k] /\ FirstOf(k, from) < c[2] /\ c[2] <= LastOf(k, to)))
<1>1. PICK line, first, last : line = display_lines[k] /\ first = FirstOf(k, from) /\ last = LastOf(k, to)
  OBVIOUS
<1>2. line \in Nat
  BY <1>1, DisplayIs
<1>3. WidthOf(line) \in Nat
  BY <1>2, WidthIs, DiffBounds
<1>4. first \in Nat /\ last \in Nat
  BY <1>1, <1>3 DEF FirstOf, LastOf, Upto, Spots
<1>5. PICK p : p = Part(k, from, to)
  OBVIOUS
<1>6. CASE line = 0
  <2>1. p = <<>>
    BY <1>1, <1>5, <1>6 DEF Part
  <2>2. p \in Seq(Chars) /\ Len(p) = 0
    BY <2>1
  <2>. QED
    BY <1>1, <1>2, <1>4, <1>5, <1>6, <2>2
<1>7. CASE line # 0
  <2>1. PICK d : d = (IF first < last THEN last - first ELSE 0) /\ d \in Nat
    BY <1>4
  <2>2. 1 .. last - first = 1 .. d
    BY <1>4, <2>1
  <2>3. PICK s, t : /\ s = [c \in 1 .. last - first |-> <<line, first + c>>]
                    /\ t = IF k = to[1] THEN <<>> ELSE <<<<line, Newline>>>>
    OBVIOUS
  <2>4. p = s \o t
    BY <1>1, <1>5, <1>7, <2>3 DEF Part, FirstOf, LastOf
  <2>5. s \in Seq(Chars) /\ Len(s) = d /\ \A n \in 1 .. d : s[n] = <<line, first + n>>
    <3>1. s = [c \in 1 .. d |-> <<line, first + c>>]
      BY <2>2, <2>3
    <3>2. \A c \in 1 .. d : <<line, first + c>> \in Chars
      BY <1>2, <1>4, <2>1 DEF Chars
    <3>. QED
      BY <2>1, <3>1, <3>2
  <2>6. t \in Seq(Chars) /\ \A n \in 1 .. Len(t) : t[n] = <<line, Newline>>
    <3>1. <<line, Newline>> \in Chars
      BY <1>2 DEF Chars, Newline
    <3>. QED
      BY <2>3, <3>1
  <2>7. /\ p \in Seq(Chars) /\ Len(p) = d + Len(t) /\ Len(t) \in Nat
        /\ \A n \in 1 .. d + Len(t) : p[n] = IF n <= d THEN s[n] ELSE t[n - d]
    <3>1. /\ s \o t \in Seq(Chars) /\ Len(s \o t) = Len(s) + Len(t)
          /\ \A n \in 1 .. Len(s) + Len(t) : (s \o t)[n] = IF n <= Len(s) THEN s[n] ELSE t[n - Len(s)]
      BY <2>5, <2>6, ConcatProperties
    <3>2. Len(t) \in Nat
      BY <2>6
    <3>. QED
      BY <2>4, <2>5, <3>1, <3>2
  <2>8. ASSUME NEW c \in Chars, c[2] # Newline
        PROVE  (\E n \in 1 .. Len(p) : p[n] = c) <=> (c[1] = line /\ first < c[2] /\ c[2] <= last)
    <3>1. c = <<c[1], c[2]>> /\ c[1] \in Nat /\ c[2] \in Nat
      BY DEF Chars
    <3>2. ASSUME NEW n \in 1 .. Len(p), p[n] = c PROVE c[1] = line /\ first < c[2] /\ c[2] <= last
      <4>1. CASE n <= d
        <5>1. n \in 1 .. d /\ n \in 1 .. d + Len(t)
          BY <2>1, <2>7, <4>1
        <5>2. c = <<line, first + n>>
          BY <2>5, <2>7, <3>2, <4>1, <5>1
        <5>. QED
          BY <1>4, <2>1, <3>1, <5>1, <5>2
      <4>2. CASE ~(n <= d)
        <5>1. n - d \in 1 .. Len(t) /\ n \in 1 .. d + Len(t)
          BY <2>1, <2>7, <4>2
        <5>2. c = <<line, Newline>>
          BY <2>6, <2>7, <3>2, <4>2, <5>1
        <5>. QED
          BY <2>8, <5>2
      <4>. QED
        BY <4>1, <4>2
    <3>3. ASSUME c[1] = line, first < c[2], c[2] <= last PROVE \E n \in 1 .. Len(p) : p[n] = c
      <4>1. PICK n : n = c[2] - first
        OBVIOUS
      <4>2. n \in 1 .. d /\ n \in 1 .. d + Len(t) /\ n <= d /\ first + n = c[2] /\ n \in 1 .. Len(p)
        <5>1. c[2] \in Nat /\ n \in Nat /\ 0 < n /\ first + n = c[2] /\ n <= d
          BY <1>4, <2>1, <3>1, <3>3, <4>1
        <5>. QED
          BY <2>1, <2>7, <5>1
      <4>3. p[n] = <<line, c[2]>>
        BY <2>5, <2>7, <4>2
      <4>. QED
        BY <3>1, <3>3, <4>2, <4>3
    <3>. QED
      BY <3>2, <3>3
  <2>. QED
    BY <1>1, <1>2, <1>4, <1>5, <1>7, <2>7, <2>8
<1>. QED
  BY <1>6, <1>7

\* The characters taken up to a line, from the first line marked.
TextOf(F, from, to, n) ==
  /\ F \in [0 .. n -> Seq(Chars)] /\ F[0] = <<>>
  /\ \A k \in 1 .. n : F[k] = IF k < from[1] THEN <<>> ELSE F[k - 1] \o Part(k, from, to)

\* What is copied is gathered line by line.
LEMMA TextIs ==
  ASSUME ScriptOK, ordered[1] \in Spots, ordered[2] \in Spots
  PROVE  /\ Upto(ordered[2][1], Len(display_lines)) \in 0 .. Len(display_lines)
         /\ \E F : /\ TextOf(F, ordered[1], ordered[2], Upto(ordered[2][1], Len(display_lines)))
                   /\ extract_selection_text = F[Upto(ordered[2][1], Len(display_lines))]
<1>. DEFINE from == ordered[1]
            to == ordered[2]
            m == Upto(to[1], Len(display_lines))
            V == Seq(Chars)
            Body(f, k) == IF k < from[1] THEN <<>> ELSE f[k - 1] \o Part(k, from, to)
            F == CHOOSE f : f = [k \in 0 .. m |-> Body(f, k)]
            Next(v, k) == IF k < from[1] THEN <<>> ELSE v \o Part(k, from, to)
            step == [k \in 1 .. m |-> [v \in V |-> Next(v, k)]]
<1>1. from[1] \in Nat /\ from[1] # 0 /\ to[1] \in Nat
  BY DEF Spots
<1>2. Len(display_lines) \in Nat /\ DOMAIN display_lines = 1 .. Len(display_lines)
  BY DisplayIs
<1>3. m \in Nat /\ m <= Len(display_lines)
  BY <1>1, <1>2 DEF Upto
<1>4. PICK none : none = <<>>
  OBVIOUS
<1>5. none \in V
  BY <1>4
<1>6. \A k \in 1 .. m : k \in DOMAIN display_lines /\ k - 1 \in 0 .. m /\ k \in 0 .. m /\ k # 0
  BY <1>2, <1>3
<1>7. ASSUME NEW k \in 1 .. m, NEW v \in V PROVE Next(v, k) \in V
  <2>1. Part(k, from, to) \in Seq(Chars)
    <3>1. k \in DOMAIN display_lines
      BY <1>6
    <3>. HIDE DEF from, to
    <3>2. from \in Spots /\ to \in Spots
      BY DEF from, to
    <3>. QED
      BY <3>1, <3>2, PartIs
  <2>2. v \o Part(k, from, to) \in V
    <3>. HIDE DEF from, to
    <3>. QED
      BY <2>1, ConcatProperties
  <2>. HIDE DEF V, from, to
  <2>. QED
    BY <1>4, <1>5, <2>2
<1>. HIDE DEF from, to
<1>8. step \in [1 .. m -> [V -> V]] /\ \A k \in 1 .. m : \A v \in V : step[k][v] = Next(v, k)
  <2>. HIDE DEF m, V, Next
  <2>. QED
    BY <1>7
<1>9. PICK f \in [0 .. m -> V] : f[0] = none /\ \A k \in 1 .. m : f[k] = step[k][f[k - 1]]
  <2>. HIDE DEF m, step, V
  <2>1. Steps(m, V, none, step)
    BY <1>3, <1>5, <1>8 DEF Steps
  <2>2. \E f : Follows(f, m, V, none, step)
    BY <2>1, StepByStep
  <2>. QED
    BY <2>2 DEF Follows
<1>10. 0 \in 0 .. m /\ 0 .. m = {0} \cup 1 .. m /\ 0 < from[1]
  BY <1>1, <1>3
<1>11. \A k \in 1 .. m : f[k] = Next(f[k - 1], k)
  <2>. HIDE DEF m, step, V, Next
  <2>. QED
    BY <1>6, <1>8, <1>9
<1>12. f = [k \in 0 .. m |-> Body(f, k)]
  <2>1. \A k \in 0 .. m : f[k] = Body(f, k)
    <3>1. f[0] = Body(f, 0)
      BY <1>4, <1>9, <1>10
    <3>2. \A k \in 1 .. m : f[k] = Body(f, k)
      <4>. HIDE DEF m, V, step
      <4>. QED
        BY <1>11
    <3>. HIDE DEF Body, m, V, step
    <3>. QED
      BY <1>10, <3>1, <3>2
  <2>. HIDE DEF Body, m, V, step
  <2>. QED
    BY <1>9, <2>1
<1>13. F = [k \in 0 .. m |-> Body(F, k)]
  BY <1>12, Zenon
<1>14. F = f
  <2>1. ASSUME NEW g, g = [k \in 0 .. m |-> Body(g, k)]
        PROVE  /\ DOMAIN g = 0 .. m /\ g[0] = none
               /\ \A k \in 1 .. m : g[k] = Next(g[k - 1], k)
    <3>1. \A k \in 0 .. m : g[k] = Body(g, k)
      <4>. HIDE DEF Body
      <4>. QED
        BY <2>1
    <3>2. DOMAIN g = 0 .. m
      <4>. HIDE DEF Body, m
      <4>. QED
        BY <2>1
    <3>3. g[0] = none
      BY <1>4, <1>10, <3>1
    <3>4. \A k \in 1 .. m : g[k] = Next(g[k - 1], k)
      <4>. HIDE DEF m
      <4>. QED
        BY <1>6, <3>1
    <3>. QED
      BY <3>2, <3>3, <3>4
  <2>2. DOMAIN F = 0 .. m /\ F[0] = none /\ \A k \in 1 .. m : F[k] = Next(F[k - 1], k)
    <3>. HIDE DEF F, Body, m, Next
    <3>. QED
      BY <1>13, <2>1
  <2>. DEFINE S == {k \in 0 .. m : F[k] = f[k]}
  <2>. HIDE DEF F, m, Next, V, step, Body
  <2>3. 0 \in S
    BY <1>9, <1>10, <2>2
  <2>4. ASSUME NEW k \in 0 .. m - 1, k \in S PROVE k + 1 \in S
    <3>1. k + 1 \in 1 .. m /\ k + 1 \in 0 .. m /\ (k + 1) - 1 = k
      BY <1>3
    <3>2. F[k] = f[k]
      BY <2>4
    <3>. QED
      BY <1>11, <2>2, <3>1, <3>2
  <2>5. \A k \in 0 .. m : k \in S
    <3>. HIDE DEF S
    <3>. QED
      BY <1>3, <2>3, <2>4, UpTo
  <2>. QED
    BY <1>9, <1>13, <2>2, <2>5
<1>15. extract_selection_text = F[m]
  BY Zenon DEF extract_selection_text, from, to
<1>. HIDE DEF F, step, Body
<1>16. TextOf(f, from, to, m)
  <2>. HIDE DEF m
  <2>. QED
    BY <1>4, <1>9, <1>11 DEF TextOf
<1>17. m \in 0 .. Len(display_lines) /\ extract_selection_text = f[m]
  <2>. HIDE DEF m
  <2>. QED
    BY <1>2, <1>3, <1>14, <1>15
<1>. QED
  BY <1>16, <1>17 DEF from, to

Holds(c, s) == \E n \in 1 .. Len(s) : s[n] = c

\* What two texts hold together is what either holds.
LEMMA BothHold ==
  ASSUME NEW s \in Seq(Chars), NEW t \in Seq(Chars), NEW c
  PROVE  Holds(c, s \o t) <=> Holds(c, s) \/ Holds(c, t)
<1>1. /\ Len(s \o t) = Len(s) + Len(t)
      /\ \A i \in 1 .. Len(s) + Len(t) : (s \o t)[i] = IF i <= Len(s) THEN s[i] ELSE t[i - Len(s)]
  BY ConcatProperties
<1>2. Len(s) \in Nat /\ Len(t) \in Nat
  OBVIOUS
<1>3. PICK u, a, b : u = s \o t /\ a = Len(s) /\ b = Len(t)
  OBVIOUS
<1>4. a \in Nat /\ b \in Nat /\ Len(u) = a + b /\ \A i \in 1 .. a + b : u[i] = IF i <= a THEN s[i] ELSE t[i - a]
  BY <1>1, <1>2, <1>3
<1>5. ASSUME NEW n \in 1 .. a + b, u[n] = c PROVE Holds(c, s) \/ Holds(c, t)
  <2>1. CASE n <= a
    <3>1. n \in 1 .. a /\ s[n] = c
      BY <1>4, <1>5, <2>1
    <3>. QED
      BY <1>3, <3>1 DEF Holds
  <2>2. CASE ~(n <= a)
    <3>1. n - a \in 1 .. b /\ t[n - a] = c
      BY <1>4, <1>5, <2>2
    <3>. QED
      BY <1>3, <3>1 DEF Holds
  <2>. QED
    BY <2>1, <2>2
<1>6. ASSUME NEW n \in 1 .. a, s[n] = c PROVE Holds(c, u)
  <2>1. n \in 1 .. Len(u) /\ u[n] = c
    BY <1>4, <1>6
  <2>. QED
    BY <2>1 DEF Holds
<1>7. ASSUME NEW n \in 1 .. b, t[n] = c PROVE Holds(c, u)
  <2>1. PICK k : k = a + n
    OBVIOUS
  <2>2. k \in 1 .. a + b /\ ~(k <= a) /\ k - a = n
    BY <1>4, <2>1
  <2>3. k \in 1 .. Len(u) /\ u[k] = c
    BY <1>4, <1>7, <2>2
  <2>. QED
    BY <2>3 DEF Holds
<1>. QED
  BY <1>3, <1>4, <1>5, <1>6, <1>7 DEF Holds

\* What the text holds is what one of its lines gives.
LEMMA TextHolds ==
  ASSUME ScriptOK, NEW from \in Spots, NEW to \in Spots, NEW m \in 0 .. Len(display_lines),
         NEW F, TextOf(F, from, to, m)
  PROVE  /\ F[m] \in Seq(Chars)
         /\ \A c : Holds(c, F[m]) <=> \E l \in 1 .. m : from[1] <= l /\ Holds(c, Part(l, from, to))
<1>. DEFINE Gives(c, k) == \E l \in 1 .. k : from[1] <= l /\ Holds(c, Part(l, from, to))
            S == {k \in 0 .. m : \A c : Holds(c, F[k]) <=> Gives(c, k)}
<1>1. from[1] \in Nat /\ from[1] # 0
  BY DEF Spots
<1>2. Len(display_lines) \in Nat /\ DOMAIN display_lines = 1 .. Len(display_lines)
  BY DisplayIs
<1>3. m \in Nat /\ 0 \in 0 .. m /\ m \in 0 .. m /\ \A k \in 1 .. m : k \in DOMAIN display_lines
  BY <1>2
<1>4. ASSUME NEW k \in 0 .. m PROVE F[k] \in Seq(Chars)
  BY DEF TextOf
<1>5. 0 \in S
  <2>1. F[0] = <<>>
    BY DEF TextOf
  <2>2. \A c : ~Holds(c, F[0])
    BY <2>1 DEF Holds
  <2>3. \A c : ~Gives(c, 0)
    OBVIOUS
  <2>. HIDE DEF Gives
  <2>. QED
    BY <1>3, <2>2, <2>3
<1>6. ASSUME NEW k \in 0 .. m - 1, k \in S PROVE k + 1 \in S
  <2>1. PICK j : j = k + 1
    OBVIOUS
  <2>2. j \in 1 .. m /\ j \in 0 .. m /\ j - 1 = k /\ k \in 0 .. m /\ k \in Nat /\ j \in Nat
    BY <1>3, <2>1
  <2>3. F[j] = IF j < from[1] THEN <<>> ELSE F[k] \o Part(j, from, to)
    BY <2>2 DEF TextOf
  <2>4. ASSUME NEW c PROVE Gives(c, j) <=> Gives(c, k) \/ (from[1] <= j /\ Holds(c, Part(j, from, to)))
    <3>1. 1 .. j = 1 .. k \cup {j}
      BY <2>1, <2>2
    <3>. QED
      BY <3>1
  <2>5. \A c : Holds(c, F[k]) <=> Gives(c, k)
    <3>. HIDE DEF Gives
    <3>. QED
      BY <1>6
  <2>6. CASE j < from[1]
    <3>1. ASSUME NEW c PROVE ~Gives(c, j)
      BY <1>1, <2>2, <2>6
    <3>2. F[j] = <<>>
      BY <2>3, <2>6
    <3>3. \A c : ~Holds(c, F[j])
      BY <3>2 DEF Holds
    <3>. HIDE DEF Gives
    <3>. QED
      BY <2>1, <2>2, <3>1, <3>3
  <2>7. CASE ~(j < from[1])
    <3>1. from[1] <= j
      BY <1>1, <2>2, <2>7
    <3>2. Part(j, from, to) \in Seq(Chars)
      <4>1. j \in DOMAIN display_lines
        BY <1>3, <2>2
      <4>. QED
        BY <4>1, PartIs
    <3>3. F[k] \in Seq(Chars)
      BY <1>4, <2>2
    <3>4. F[j] = F[k] \o Part(j, from, to)
      BY <2>3, <2>7
    <3>5. \A c : Holds(c, F[j]) <=> Holds(c, F[k]) \/ Holds(c, Part(j, from, to))
      BY <3>2, <3>3, <3>4, BothHold
    <3>. HIDE DEF Gives
    <3>6. \A c : Holds(c, F[j]) <=> Gives(c, j)
      BY <2>4, <2>5, <3>1, <3>5
    <3>. QED
      BY <2>1, <2>2, <3>6
  <2>. QED
    BY <2>6, <2>7
<1>7. \A k \in 0 .. m : k \in S
  <2>. HIDE DEF S
  <2>. QED
    BY <1>3, <1>5, <1>6, UpTo
<1>. HIDE DEF Gives
<1>8. m \in S
  BY <1>3, <1>7
<1>9. \A c : Holds(c, F[m]) <=> Gives(c, m)
  BY <1>8
<1>. QED
  BY <1>3, <1>4, <1>9 DEF Gives

SelectionOK == selection \in [anchor : Spots, end : Spots]
Between(from, p, to) == Before(from, p) /\ Before(p, to) /\ p # to

\* Whichever way it was dragged, a selection's earlier end comes first.
LEMMA OrderedIs ==
  ASSUME SelectionOK
  PROVE  /\ ordered[1] \in Spots /\ ordered[2] \in Spots
         /\ \A p \in Nat \X Nat :
              Between(ordered[1], p, ordered[2])
                <=> Between(selection.anchor, p, selection.end) \/ Between(selection.end, p, selection.anchor)
<1>1. PICK a, e : a = selection.anchor /\ e = selection.end
  OBVIOUS
<1>2. a \in Spots /\ e \in Spots
  BY <1>1 DEF SelectionOK
<1>3. a = <<a[1], a[2]>> /\ e = <<e[1], e[2]>> /\ {a[1], a[2], e[1], e[2]} \subseteq Nat
  BY <1>2 DEF Spots
<1>4. ASSUME NEW x, NEW y, x = <<x[1], x[2]>>, y = <<y[1], y[2]>>, {x[1], x[2], y[1], y[2]} \subseteq Nat,
             Before(x, y), NEW p \in Nat \X Nat
      PROVE  ~Between(y, p, x)
  <2>1. p = <<p[1], p[2]>> /\ p[1] \in Nat /\ p[2] \in Nat
    OBVIOUS
  <2>2. SUFFICES ASSUME Before(y, p), Before(p, x), p # x PROVE FALSE
    BY DEF Between
  <2>3. {x[1], x[2], y[1], y[2], p[1], p[2]} \subseteq Nat
    BY <1>4, <2>1
  <2>4. p[1] = x[1] /\ p[2] = x[2]
    BY <1>4, <2>2, <2>3 DEF Before
  <2>. QED
    BY <1>4, <2>1, <2>2, <2>4
<1>5. CASE Before(a, e)
  <2>1. ordered[1] = a /\ ordered[2] = e
    BY <1>1, <1>5 DEF ordered
  <2>. QED
    BY <1>1, <1>2, <1>3, <1>4, <1>5, <2>1
<1>6. CASE ~Before(a, e)
  <2>1. ordered[1] = e /\ ordered[2] = a
    BY <1>1, <1>6 DEF ordered
  <2>2. Before(e, a)
    BY <1>3, <1>6 DEF Before
  <2>. QED
    BY <1>1, <1>2, <1>3, <1>4, <2>1, <2>2
<1>. QED
  BY <1>5, <1>6

\* Of a line the text takes what lies between the ends.
LEMMA GivesIs ==
  ASSUME ScriptOK, NEW from \in Spots, NEW to \in Spots, NEW l \in DOMAIN display_lines, NEW c \in Chars,
         c[2] # Newline, NEW p, p = <<l, c[2] - 1>>
  PROVE  (from[1] <= l /\ l <= to[1] /\ Holds(c, Part(l, from, to)))
           <=> (/\ display_lines[l] # 0 /\ c[1] = display_lines[l] /\ p[2] < WidthOf(display_lines[l])
                /\ Between(from, p, to))
<1>1. /\ display_lines[l] \in Nat /\ l \in Nat
      /\ Holds(c, Part(l, from, to))
           <=> (display_lines[l] # 0 /\ c[1] = display_lines[l] /\ FirstOf(l, from) < c[2] /\ c[2] <= LastOf(l, to))
  <2>1. display_lines[l] \in Nat /\ l \in Nat
    BY DisplayIs
  <2>. QED
    BY <2>1, PartIs DEF Holds
<1>2. PICK w, x : w = WidthOf(display_lines[l]) /\ x = c[2]
  OBVIOUS
<1>3. w \in Nat
  BY <1>1, <1>2, WidthIs, DiffBounds
<1>4. x \in Nat /\ x # 0 /\ p[1] = l /\ p[2] = x - 1
  BY <1>2 DEF Chars, Newline
<1>5. /\ to = <<to[1], to[2]>> /\ {from[1], from[2], to[1], to[2]} \subseteq Nat
  BY DEF Spots
<1>6. FirstOf(l, from) = (IF l = from[1] THEN Upto(from[2], w) ELSE 0)
  BY <1>2 DEF FirstOf
<1>7. LastOf(l, to) = (IF l = to[1] THEN Upto(to[2], w) ELSE w)
  BY <1>2 DEF LastOf
<1>8. p = to <=> l = to[1] /\ x - 1 = to[2]
  BY <1>4, <1>5
<1>9. (from[1] <= l /\ FirstOf(l, from) < x /\ x <= w) <=> (Before(from, p) /\ x - 1 < w)
  BY <1>1, <1>3, <1>4, <1>5, <1>6 DEF Before, Upto
<1>10. (l <= to[1] /\ x <= LastOf(l, to)) <=> (Before(p, to) /\ p # to /\ x - 1 < w)
  BY <1>1, <1>3, <1>4, <1>5, <1>7, <1>8 DEF Before, Upto
<1>11. x <= LastOf(l, to) => x <= w
  BY <1>3, <1>4, <1>5, <1>7 DEF Upto
<1>. QED
  BY <1>1, <1>2, <1>4, <1>9, <1>10, <1>11 DEF Between

\* What is copied is what is marked.
LEMMA CopyIsRight ==
  ASSUME ScriptOK, SelectionOK
  PROVE  CopyIsWhatIsMarked
<1>. DEFINE between(from, p, to) == Before(from, p) /\ Before(p, to) /\ p # to
            marked(p) == between(selection.anchor, p, selection.end) \/ between(selection.end, p, selection.anchor)
            chars == {p \in (DOMAIN display_lines) \X (0 .. MaxWidth) :
                        display_lines[p[1]] # 0 /\ p[2] < WidthOf(display_lines[p[1]])}
            copied == {extract_selection_text[n] : n \in DOMAIN extract_selection_text}
            taken == {c \in copied : c[2] # Newline}
            wanted == {<<display_lines[p[1]], p[2] + 1>> : p \in {q \in chars : marked(q)}}
<1>1. PICK from, to : from = ordered[1] /\ to = ordered[2]
  OBVIOUS
<1>2. from \in Spots /\ to \in Spots /\ \A p \in Nat \X Nat : marked(p) <=> Between(from, p, to)
  BY <1>1, OrderedIs DEF Between
<1>3. Len(display_lines) \in Nat /\ DOMAIN display_lines = 1 .. Len(display_lines)
      /\ \A l \in DOMAIN display_lines : display_lines[l] \in Nat
  BY DisplayIs
<1>4. PICK m : m = Upto(to[1], Len(display_lines))
  OBVIOUS
<1>5. \A l \in Nat : l <= m <=> l <= to[1] /\ l <= Len(display_lines)
  <2>1. to[1] \in Nat
    BY <1>2 DEF Spots
  <2>. QED
    BY <1>3, <1>4, <2>1 DEF Upto
<1>6. m \in 0 .. Len(display_lines)
  BY <1>1, <1>2, <1>4, TextIs
<1>7. PICK F : TextOf(F, from, to, m) /\ extract_selection_text = F[m]
  BY <1>1, <1>2, <1>4, TextIs
<1>8. /\ extract_selection_text \in Seq(Chars)
      /\ \A c : Holds(c, extract_selection_text) <=> \E l \in 1 .. m : from[1] <= l /\ Holds(c, Part(l, from, to))
  BY <1>2, <1>6, <1>7, TextHolds
<1>9. \A c : c \in copied <=> Holds(c, extract_selection_text)
  BY <1>8 DEF Holds
<1>10. copied \subseteq Chars
  BY <1>8
<1>11. MaxWidth \in Nat
  BY DiffBounds
<1>. HIDE DEF copied
<1>12. ASSUME NEW c \in taken PROVE c \in wanted
  <2>1. c \in Chars /\ c[2] # Newline /\ Holds(c, extract_selection_text)
    BY <1>9, <1>10, <1>12
  <2>2. PICK l \in 1 .. m : from[1] <= l /\ Holds(c, Part(l, from, to))
    BY <1>8, <2>1
  <2>3. l \in DOMAIN display_lines /\ l <= to[1] /\ l \in Nat
    BY <1>3, <1>5, <1>6
  <2>4. PICK p : p = <<l, c[2] - 1>>
    OBVIOUS
  <2>5. /\ display_lines[l] # 0 /\ c[1] = display_lines[l] /\ p[2] < WidthOf(display_lines[l])
        /\ Between(from, p, to)
    BY <1>2, <2>1, <2>2, <2>3, <2>4, GivesIs
  <2>6. c = <<c[1], c[2]>> /\ c[2] \in Nat /\ c[2] # 0
    BY <2>1 DEF Chars, Newline
  <2>7. p \in Nat \X Nat /\ p[1] = l /\ p[2] = c[2] - 1 /\ p[2] + 1 = c[2]
    BY <2>3, <2>4, <2>6
  <2>8. WidthOf(display_lines[l]) \in 0 .. MaxWidth
    BY <1>3, <2>3, WidthIs
  <2>9. p[2] \in 0 .. MaxWidth
    BY <1>11, <2>5, <2>7, <2>8
  <2>10. p \in chars
    BY <2>3, <2>4, <2>5, <2>7, <2>9
  <2>11. marked(p)
    BY <1>2, <2>5, <2>7
  <2>12. c = <<display_lines[p[1]], p[2] + 1>>
    BY <2>5, <2>6, <2>7
  <2>. HIDE DEF chars, marked
  <2>. QED
    BY <2>10, <2>11, <2>12
<1>13. ASSUME NEW c \in wanted PROVE c \in taken
  <2>1. PICK p \in chars : marked(p) /\ c = <<display_lines[p[1]], p[2] + 1>>
    <3>. HIDE DEF chars, marked
    <3>. QED
      BY <1>13
  <2>2. /\ p = <<p[1], p[2]>> /\ p[1] \in DOMAIN display_lines /\ p[2] \in 0 .. MaxWidth
        /\ display_lines[p[1]] # 0 /\ p[2] < WidthOf(display_lines[p[1]])
    OBVIOUS
  <2>3. PICK l : l = p[1]
    OBVIOUS
  <2>4. l \in DOMAIN display_lines /\ l \in 1 .. Len(display_lines) /\ l \in Nat /\ p[2] \in Nat
    BY <1>3, <2>2, <2>3
  <2>5. p \in Nat \X Nat
    BY <2>2, <2>3, <2>4
  <2>6. Between(from, p, to)
    BY <1>2, <2>1, <2>5
  <2>7. c \in Chars /\ c[1] = display_lines[l] /\ c[2] = p[2] + 1 /\ c[2] # Newline /\ c[2] - 1 = p[2]
    BY <1>3, <2>1, <2>3, <2>4 DEF Chars, Newline
  <2>8. p = <<l, c[2] - 1>>
    BY <2>2, <2>3, <2>7
  <2>9. from[1] <= l /\ l <= to[1] /\ Holds(c, Part(l, from, to))
    <3>1. display_lines[l] # 0 /\ p[2] < WidthOf(display_lines[l])
      BY <2>2, <2>3
    <3>. HIDE DEF marked, chars
    <3>. QED
      BY <1>2, <2>4, <2>6, <2>7, <2>8, <3>1, GivesIs
  <2>10. l \in 1 .. m
    BY <1>5, <1>6, <2>4, <2>9
  <2>11. c \in copied
    BY <1>8, <1>9, <2>9, <2>10
  <2>. QED
    BY <2>7, <2>11
<1>14. taken = wanted
  <2>. HIDE DEF taken, wanted
  <2>. QED
    BY <1>12, <1>13
<1>. QED
  BY <1>14 DEF CopyIsWhatIsMarked, copied

-----------------------------------------------------------------------------
(* ReviewDiff: what holds in every state                                   *)

\* The lines are of the kinds there are, and a selection runs from a line to a line.
DiffInv == ScriptOK /\ SelectionOK /\ {old_ends, selecting} \subseteq BOOLEAN

\* A diff's lines are of the kinds there are.
LEMMA ScriptsAre ==
  ASSUME NEW n \in Nat, NEW s \in Scripts(n)
  PROVE  s \in Seq(Kinds)
<1>1. PICK m \in 1 .. n : s \in [1 .. m -> {"context", "deletion", "addition"}]
  BY DEF Scripts
<1>2. m \in Nat /\ s \in [1 .. m -> Kinds]
  BY <1>1 DEF Kinds
<1>. QED
  BY <1>2

\* It starts without a selection.
LEMMA DiffInvInit == DiffInit => DiffInv
<1>1. SUFFICES ASSUME DiffInit PROVE DiffInv
  OBVIOUS
<1>2. ScriptOK
  <2>1. MaxScript \in Nat /\ script \in Scripts(MaxScript)
    BY <1>1, DiffBounds DEF DiffInit
  <2>. QED
    BY <2>1, ScriptsAre DEF ScriptOK
<1>3. SelectionOK
  <2>1. PICK spot : spot = <<1, 0>>
    OBVIOUS
  <2>2. spot \in Spots
    BY <2>1 DEF Spots
  <2>3. selection = [anchor |-> spot, end |-> spot]
    BY <1>1, <2>1 DEF DiffInit
  <2>. QED
    BY <2>2, <2>3 DEF SelectionOK
<1>4. old_ends \in BOOLEAN /\ selecting \in BOOLEAN
  BY <1>1 DEF DiffInit
<1>. QED
  BY <1>2, <1>3, <1>4 DEF DiffInv

\* Every step keeps it: the mouse is at a shown line, and a new diff has no other kinds of line.
LEMMA DiffInvNext == DiffInv /\ [DiffNext]_diff_vars => DiffInv'
<1>1. SUFFICES ASSUME DiffInv, [DiffNext]_diff_vars PROVE DiffInv'
  OBVIOUS
<1>2. ScriptOK /\ SelectionOK /\ old_ends \in BOOLEAN /\ selecting \in BOOLEAN
  BY <1>1 DEF DiffInv
<1>3. ASSUME NEW place \in Places PROVE place \in Spots /\ place[1] \in Nat /\ place[1] # 0
  <2>1. PICK k \in DOMAIN display_lines, c \in 0 .. MaxWidth : place = <<k, c>>
    BY DEF Places
  <2>2. display_lines \in Seq(Nat)
    BY <1>2, DisplayIs
  <2>3. k \in Nat \ {0}
    BY <2>2
  <2>4. c \in Nat
    BY DiffBounds
  <2>. QED
    BY <2>1, <2>3, <2>4 DEF Spots
<1>4. CASE toggle
  BY <1>2, <1>4 DEF toggle, DiffInv, ScriptOK, SelectionOK
<1>5. CASE RefreshDiff
  <2>1. MaxSelectable \in Nat /\ script' \in Scripts(MaxSelectable)
    BY <1>5, DiffBounds DEF RefreshDiff
  <2>2. ScriptOK'
    BY <2>1, ScriptsAre DEF ScriptOK
  <2>. QED
    BY <1>2, <1>5, <2>2 DEF RefreshDiff, DiffInv, SelectionOK
<1>6. CASE MouseDown
  <2>1. PICK place \in Places : selection' = [anchor |-> place, end |-> place]
    BY <1>6 DEF MouseDown
  <2>2. place \in Spots
    BY <1>3
  <2>3. SelectionOK'
    BY <2>1, <2>2 DEF SelectionOK
  <2>. QED
    BY <1>2, <1>6, <2>3 DEF MouseDown, DiffInv, ScriptOK
<1>7. CASE MouseMove
  <2>1. PICK place \in Places : selection' = [selection EXCEPT !.end = place]
    BY <1>7 DEF MouseMove
  <2>2. place \in Spots
    BY <1>3
  <2>3. SelectionOK'
    BY <1>2, <2>1, <2>2 DEF SelectionOK
  <2>. QED
    BY <1>2, <1>7, <2>3 DEF MouseMove, DiffInv, ScriptOK
<1>8. CASE MouseUp
  BY <1>2, <1>8 DEF MouseUp, DiffInv, ScriptOK, SelectionOK
<1>9. CASE RightClick
  <2>1. PICK place \in Places :
          IF Inside(place) THEN UNCHANGED <<selection, selecting>>
          ELSE /\ \E k \in place[1] .. Len(display_lines) :
                    /\ display_lines[k] # 0
                    /\ \A j \in place[1] .. k - 1 : display_lines[j] = 0
                    /\ selection' = [anchor |-> <<k, 0>>, end |-> <<k, WidthOf(display_lines[k])>>]
               /\ selecting' = FALSE
    BY <1>9 DEF RightClick
  <2>2. UNCHANGED <<script, old_ends, discarded>>
    BY <1>9 DEF RightClick
  <2>3. CASE Inside(place)
    <3>1. UNCHANGED <<selection, selecting>>
      BY <2>1, <2>3
    <3>. QED
      BY <1>2, <2>2, <3>1 DEF DiffInv, ScriptOK, SelectionOK
  <2>4. CASE ~Inside(place)
    <3>1. PICK k \in place[1] .. Len(display_lines) :
            selection' = [anchor |-> <<k, 0>>, end |-> <<k, WidthOf(display_lines[k])>>]
      BY <2>1, <2>4
    <3>2. selecting' = FALSE
      BY <2>1, <2>4
    <3>3. display_lines \in Seq(Nat)
      BY <1>2, DisplayIs
    <3>4. place[1] \in Nat /\ place[1] # 0
      BY <1>3
    <3>5. Len(display_lines) \in Nat
      BY <3>3
    <3>6. k \in Nat /\ k # 0 /\ k \in 1 .. Len(display_lines)
      BY <3>4, <3>5
    <3>7. display_lines[k] \in Nat
      BY <3>3, <3>6
    <3>8. PICK w : w = WidthOf(display_lines[k])
      OBVIOUS
    <3>9. w \in Nat
      <4>1. w \in 0 .. MaxWidth
        BY <3>7, <3>8, WidthIs
      <4>. QED
        BY <4>1, DiffBounds
    <3>10. PICK a, e : a = <<k, 0>> /\ e = <<k, w>>
      OBVIOUS
    <3>11. a \in Spots /\ e \in Spots
      BY <3>6, <3>9, <3>10 DEF Spots
    <3>12. selection' = [anchor |-> a, end |-> e]
      BY <3>1, <3>8, <3>10
    <3>13. SelectionOK'
      BY <3>11, <3>12 DEF SelectionOK
    <3>14. ScriptOK'
      BY <1>2, <2>2 DEF ScriptOK
    <3>. QED
      BY <1>2, <2>2, <3>2, <3>13, <3>14 DEF DiffInv
  <2>. QED
    BY <2>3, <2>4
<1>10. CASE UNCHANGED diff_vars
  BY <1>2, <1>10 DEF diff_vars, DiffInv, ScriptOK, SelectionOK
<1>. QED
  BY <1>1, <1>4, <1>5, <1>6, <1>7, <1>8, <1>9, <1>10 DEF DiffNext

\* What the diff shows is what its buttons do: for a diff of any length, whatever is unchecked and
\* however it was dragged over, Apply writes what the header counts and Copy takes what is marked.
THEOREM ShownStaysDone == DiffSpec => []ShownIsDone
<1>1. DiffInv => ShownIsDone
  BY HeaderIsRight, CopyIsRight DEF DiffInv, ShownIsDone
<1>. QED
  BY <1>1, DiffInvInit, DiffInvNext, PTL DEF DiffSpec
===============================================================================
