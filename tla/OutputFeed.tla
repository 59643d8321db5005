------------------------------ MODULE OutputFeed ------------------------------
(***************************************************************************)
(* What a terminal's output promises each remote viewer (the comments of   *)
(* PtyBus::snapshot_and_subscribe and of ShuruPtyReader).                  *)
(*                                                                         *)
(* The process writes bytes 1, 2, 3, ...  A viewer joins with the most     *)
(* recent of them, and from there is shown every byte once and in order.   *)
(* The only exception is a viewer that is too slow: it may lose the bytes  *)
(* before the last few messages, never any other.                          *)
(***************************************************************************)
EXTENDS Naturals, Sequences

CONSTANTS Viewers,
          ScrollCap, \* bytes of scrollback a viewer joins with
          Window     \* bytes a slow viewer is never made to lose

VARIABLES published, \* bytes written by the process so far
          shown,     \* viewer -> the bytes its terminal was given
          joined     \* viewer -> {}, or {n} if it joined after n bytes

feedVars == <<published, shown, joined>>

FeedInit == /\ published = 0
            /\ shown = [v \in Viewers |-> <<>>]
            /\ joined = [v \in Viewers |-> {}]

Publish == /\ published' \in Nat /\ published' > published
           /\ UNCHANGED <<shown, joined>>

Join(v) == /\ joined[v] = {}
           /\ joined' = [joined EXCEPT ![v] = {published}]
           /\ UNCHANGED <<published, shown>>

\* The byte a viewer is owed next.
Start(n) == IF n > ScrollCap THEN n - ScrollCap + 1 ELSE 1
Due(v) == IF shown[v] = <<>> THEN Start(CHOOSE n \in joined[v] : TRUE)
                             ELSE shown[v][Len(shown[v])] + 1

Run(a, b) == [i \in 1 .. b - a + 1 |-> a + i - 1]

\* The next bytes in order - or, for a viewer more than Window bytes behind, later
\* ones, but nothing of the last Window bytes is skipped.
Show(v) == /\ joined[v] # {}
           /\ \E a, b \in 1 .. published :
                /\ a <= b
                /\ \/ a = Due(v)
                   \/ /\ Due(v) + Window <= published
                      /\ a > Due(v) /\ a + Window <= published + 1
                /\ shown' = [shown EXCEPT ![v] = @ \o Run(a, b)]
           /\ UNCHANGED <<published, joined>>

FeedNext == Publish \/ \E v \in Viewers : Join(v) \/ Show(v)

FeedSpec == FeedInit /\ [][FeedNext]_feedVars
===============================================================================
