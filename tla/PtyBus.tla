-------------------------------- MODULE PtyBus --------------------------------
(***************************************************************************)
(* The size aggregator of one terminal's PtyBus (src/ui/remote/pty_bus.rs). *)
(*                                                                         *)
(* One PTY has one size, and every client that shows it - the desktop's own *)
(* TerminalView and any number of remote devices - reports the size of its *)
(* viewport.  The bus keeps the last report of each client and resizes the *)
(* PTY to the componentwise minimum.  Every operation runs under one mutex, *)
(* so each is one step here.                                               *)
(*                                                                         *)
(* This module is the bus under its most general use: any client reports   *)
(* or is released at any time.  PtyAttach is the remote handler's use of   *)
(* it.                                                                     *)
(***************************************************************************)
EXTENDS Naturals

CONSTANTS Devices,   \* paired devices: the keys ClientId::Remote(device)
          Local,     \* the desktop's TerminalView: ClientId::Local
          NoSize,    \* "no entry in per_client"
          Cols, Rows, \* the columns and rows a viewport can have
          Seed       \* 80x24, the size every PTY is opened with

Sizes == Cols \X Rows

ASSUME LocalAssumption == Local \notin Devices
ASSUME SizesAssumption == Cols \subseteq Nat /\ Rows \subseteq Nat /\ Seed \in Sizes
ASSUME NoSizeAssumption == NoSize \notin Sizes

VARIABLES per_client, \* the last size each client advertised
          effective,  \* the size last decided by the bus
          pty_size,   \* the size the PTY really has
          alive       \* the process behind the PTY still runs

busVars == <<per_client, effective, pty_size, alive>>

ClientId == {Local} \union Devices

Attached(pc) == {c \in ClientId : pc[c] # NoSize}

Smallest(S) == CHOOSE n \in S : \A m \in S : n <= m

MinOf(pc) == << Smallest({pc[c][1] : c \in Attached(pc)}),
                Smallest({pc[c][2] : c \in Attached(pc)}) >>

BusInit == /\ per_client = [c \in ClientId |-> NoSize]
           /\ effective = Seed
           /\ pty_size = Seed
           /\ alive = TRUE

\* update_with: the closure leaves per_client equal to pc.  With no client left
\* the effective size is kept; a changed one is pushed to the writer, whose
\* error (the process is gone) is ignored.
UpdateWith(pc) ==
    /\ per_client' = pc
    /\ effective' = IF Attached(pc) = {} THEN effective ELSE MinOf(pc)
    /\ pty_size' = IF effective' # effective /\ alive THEN effective' ELSE pty_size
    /\ UNCHANGED alive

\* Mistaken: the first report of a client wins.
ReportFirstSize(c, size) ==
    UpdateWith([per_client EXCEPT ![c] = IF @ = NoSize THEN size ELSE @])

ReportClientSize(c, size) == UpdateWith([per_client EXCEPT ![c] = size])

\* Mistaken: the entry is removed without deciding the size again.
ForgetClient(c) == /\ per_client' = [per_client EXCEPT ![c] = NoSize]
                   /\ UNCHANGED <<effective, pty_size, alive>>

ReleaseClient(c) == UpdateWith([per_client EXCEPT ![c] = NoSize])

\* The shell or agent exits: the PTY keeps its last size for good.
PtyExit == /\ alive
           /\ alive' = FALSE
           /\ UNCHANGED <<per_client, effective, pty_size>>

BusNext == \/ \E c \in ClientId, size \in Sizes : ReportClientSize(c, size)
           \/ \E c \in ClientId : ReleaseClient(c)
           \/ PtyExit

BusSpec == BusInit /\ [][BusNext]_busVars
-------------------------------------------------------------------------------
\* The state of the aggregator has its declared types.
BusTypeOK == /\ per_client \in [ClientId -> Sizes \union {NoSize}]
             /\ effective \in Sizes
             /\ pty_size \in Sizes
             /\ alive \in BOOLEAN

\* While any client is attached, the effective size is the componentwise minimum
\* of all the sizes advertised: no step leaves a departed client's constraint
\* behind, and none forgets one that is still recorded (update_with, min_of).
EffectiveIsMin ==
    Attached(per_client) # {} => effective = MinOf(per_client)

\* The running PTY has the size that current_dimensions and every pty.attach
\* reply report: a decided size is never left unpushed, although the bus resizes
\* only on a change and starts from a seed it never pushed.
PtyMatches == alive => pty_size = effective
===============================================================================
