----------------------------- MODULE Session_proofs -----------------------------
(***************************************************************************)
(* Proofs about one connection of the host with a remote client, for any   *)
(* tabs, calls, data streams and bounds: what the connection's tasks and   *)
(* streams leave behind, and what a nonce and an answer can stand for; and *)
(* about a terminal's output on its way to the viewers of such streams and *)
(* to the desktop, for any sizes of its buffers.                           *)
(***************************************************************************)
EXTENDS ControlSession, PtyOutput, TLAPS, SequenceTheorems, FiniteSetTheorems

-----------------------------------------------------------------------------
(* Queues                                                                  *)

Holds(q, x) == \E k \in DOMAIN q : q[k] = x
OnceEach(q) == \A j, k \in DOMAIN q : q[j] = q[k] => j = k

\* What is taken from a queue was in it, and what is left was too.
LEMMA TailOfQueue ==
  ASSUME NEW S, NEW q \in Seq(S), q # <<>>
  PROVE  /\ Head(q) \in S /\ Tail(q) \in Seq(S) /\ Holds(q, Head(q))
         /\ \A x : Holds(Tail(q), x) => Holds(q, x)
         /\ OnceEach(q) => OnceEach(Tail(q)) /\ ~Holds(Tail(q), Head(q))
<1>1. /\ Head(q) \in S /\ Tail(q) \in Seq(S) /\ Len(Tail(q)) = Len(q) - 1
      /\ \A k \in 1 .. Len(Tail(q)) : Tail(q)[k] = q[k + 1]
  BY HeadTailProperties
<1>2. Len(q) \in Nat /\ Len(q) # 0 /\ DOMAIN q = 1 .. Len(q) /\ Head(q) = q[1]
  BY LenProperties, EmptySeq
<1>3. DOMAIN Tail(q) = 1 .. Len(q) - 1
  BY <1>1, LenProperties
<1>4. 1 \in DOMAIN q /\ \A k \in DOMAIN Tail(q) : k + 1 \in DOMAIN q /\ k + 1 # 1 /\ Tail(q)[k] = q[k + 1]
  BY <1>1, <1>2, <1>3
<1>5. \A j, k \in DOMAIN Tail(q) : j + 1 = k + 1 => j = k
  BY <1>2, <1>3
<1>6. ASSUME OnceEach(q) PROVE OnceEach(Tail(q)) /\ ~Holds(Tail(q), Head(q))
  BY <1>2, <1>4, <1>5, <1>6 DEF OnceEach, Holds
<1>. QED
  BY <1>1, <1>2, <1>4, <1>6 DEF Holds

\* What a queue holds once something is put into it.
LEMMA AppendToQueue ==
  ASSUME NEW S, NEW q \in Seq(S), NEW e \in S
  PROVE  /\ Append(q, e) \in Seq(S)
         /\ \A x : Holds(Append(q, e), x) => Holds(q, x) \/ x = e
         /\ OnceEach(q) /\ ~Holds(q, e) => OnceEach(Append(q, e))
<1>1. /\ Append(q, e) \in Seq(S) /\ Len(Append(q, e)) = Len(q) + 1 /\ Len(q) \in Nat
      /\ Append(q, e)[Len(q) + 1] = e /\ \A k \in 1 .. Len(q) : Append(q, e)[k] = q[k]
  BY AppendProperties, LenProperties
<1>2. DOMAIN Append(q, e) = 1 .. Len(q) + 1 /\ DOMAIN q = 1 .. Len(q)
  BY <1>1, LenProperties
<1>3. \A k \in DOMAIN Append(q, e) : k \in DOMAIN q \/ k = Len(q) + 1
  BY <1>1, <1>2
<1>. QED
  BY <1>1, <1>2, <1>3 DEF Holds, OnceEach

-----------------------------------------------------------------------------
(* ControlSession                                                          *)

CallStates == [method: Method, nonce: Nat, by: 0 .. MaxCalls, state: {"none", "inserted", "sent"} \cup Ended]
Lines == [id: CallId, ok: BOOLEAN, nonce: Nat]

\* Whether the host has heard of a call.
Heard(i) == Holds(up, i) \/ Holds(commands, i) \/ handling = i \/ runs[i] > 0

WiresInv ==
  /\ call \in [CallId -> CallStates] /\ next_id \in 1 .. MaxCalls + 1 /\ pending \subseteq CallId
  /\ learned \subseteq Nat
  /\ up \in Seq(CallId) /\ commands \in Seq(CallId) /\ down \in Seq(Lines)
  /\ handling \in 0 .. MaxCalls /\ reply \in {"none", "ok", "error"}
  /\ runs \in [CallId -> Nat]

\* A call is on its way once, and has run at most once, after it was on its way.
OnTheWay ==
  /\ OnceEach(up) /\ OnceEach(commands)
  /\ \A i \in CallId : Holds(up, i) => ~Holds(commands, i) /\ handling # i
  /\ \A i \in CallId : Holds(up, i) \/ Holds(commands, i) => runs[i] = 0

\* Only a call that was sent is heard of or answered, and a success is of what ran.
Answerable ==
  /\ \A i \in CallId : i >= next_id => call[i].state = "none"
  /\ \A i \in CallId : Heard(i) => call[i].state \notin {"none", "inserted"}
  /\ handling # 0 /\ reply = "ok" => runs[handling] = 1
  /\ \A x \in Lines : Holds(down, x) =>
       /\ call[x.id].state \notin {"none", "inserted"}
       /\ x.ok /\ call[x.id].method = "command" => runs[x.id] = 1

CallsInv == WiresInv /\ OnTheWay /\ Answerable /\ AnswersMatch

\* A step of one call's client.
LEMMA CallMoves ==
  ASSUME CallsInv, NEW i \in CallId, NEW r \in CallStates, call' = [call EXCEPT ![i] = r],
         r.by \in {0, i}, r.state # "none", r.state = "inserted" => call[i].state = "none",
         call[i].state # "none" => r.method = call[i].method,
         r.state = "ok" /\ r.method = "command" => runs[i] = 1,
         next_id' \in 1 .. MaxCalls + 1, i < next_id', next_id <= next_id',
         pending' \subseteq CallId, learned' \subseteq Nat,
         UNCHANGED <<up, commands, handling, reply, runs>>,
         down' \in Seq(Lines), \A x \in Lines : Holds(down', x) => Holds(down, x)
  PROVE  CallsInv'
<1>1. call' \in [CallId -> CallStates] /\ \A j \in CallId : call'[j] = IF j = i THEN r ELSE call[j]
  BY DEF CallsInv, WiresInv
<1>2. WiresInv' /\ OnTheWay'
  BY <1>1 DEF CallsInv, WiresInv, OnTheWay
<1>3. ASSUME NEW j \in CallId, j >= next_id' PROVE call'[j].state = "none"
  <2>1. j # i /\ j >= next_id
    BY <1>3 DEF CallsInv, WiresInv, CallId
  <2>. QED
    BY <1>1, <2>1 DEF CallsInv, Answerable
<1>4. \A j \in CallId : Heard(j)' => call'[j].state \notin {"none", "inserted"}
  <2>1. \A j \in CallId : Heard(j)' => Heard(j)
    BY DEF Heard
  <2>. QED
    BY <1>1, <2>1 DEF CallsInv, Answerable
<1>5. handling' # 0 /\ reply' = "ok" => runs'[handling'] = 1
  BY DEF CallsInv, Answerable
<1>6. ASSUME NEW x \in Lines, Holds(down', x)
      PROVE  /\ call'[x.id].state \notin {"none", "inserted"}
             /\ x.ok /\ call'[x.id].method = "command" => runs'[x.id] = 1
  <2>1. /\ x.id \in CallId /\ call[x.id].state \notin {"none", "inserted"}
        /\ x.ok /\ call[x.id].method = "command" => runs[x.id] = 1
    BY <1>6 DEF CallsInv, Answerable, Lines
  <2>. QED
    BY <1>1, <2>1
<1>7. AnswersMatch'
  BY <1>1 DEF CallsInv, AnswersMatch
<1>. QED
  BY <1>2, <1>3, <1>4, <1>5, <1>6, <1>7 DEF CallsInv, Answerable

\* What an answer adds to the stream.
LEMMA AnswerAdds ==
  ASSUME WiresInv, NEW i \in CallId, NEW ok \in BOOLEAN, NEW n \in Nat, Answer(i, ok, n)
  PROVE  /\ down' \in Seq(Lines)
         /\ \A x \in Lines : Holds(down', x) => Holds(down, x) \/ (x.id = i /\ (x.ok <=> ok))
<1>. DEFINE line == [id |-> i, ok |-> ok, nonce |-> n]
<1>1. line \in Lines /\ line.id = i /\ line.ok = ok
  BY DEF Lines
<1>2. down' = IF connection = "open" THEN Append(down, line) ELSE down
  BY DEF Answer
<1>. HIDE DEF line
<1>3. CASE connection = "open"
  <2>1. down' \in Seq(Lines) /\ \A x : Holds(down', x) => Holds(down, x) \/ x = line
    BY <1>1, <1>2, <1>3, AppendToQueue DEF WiresInv
  <2>. QED
    BY <1>1, <2>1
<1>4. CASE connection # "open"
  BY <1>2, <1>4 DEF WiresInv
<1>. QED
  BY <1>3, <1>4

\* The nonces that were issued, and those that proved something.
NoncesInv ==
  /\ nonces \in Nat /\ pending_challenge \in {0, nonces} /\ verified \in [Nonce -> Nat]
  /\ \A n \in Nonce \ {0} :
       verified[n] <= 1 /\ (verified[n] > 0 => n <= nonces /\ n # pending_challenge)

\* A nonce proves once, since a hello uses up the challenge whatever it finds.
LEMMA NoncesStaySound == ControlSpec => []NoncesInv
<1>. MaxCalls \in Nat
  BY CapAssumption
<1>1. ControlInit => NoncesInv
  BY DEF ControlInit, NoncesInv
<1>2. NoncesInv /\ [ControlNext]_control_vars => NoncesInv'
  <2> SUFFICES ASSUME NoncesInv, [ControlNext]_control_vars PROVE NoncesInv'
    OBVIOUS
  <2>1. CASE SessionChallenge
    <3>1. nonces' = nonces + 1 /\ pending_challenge' = nonces + 1 /\ verified' = verified
      BY <2>1 DEF SessionChallenge
    <3>2. \A n \in Nonce \ {0} : n <= nonces => n <= nonces + 1 /\ n # nonces + 1
      BY DEF NoncesInv, Nonce
    <3>. QED
      BY <3>1, <3>2 DEF NoncesInv
  <2>2. CASE SessionHello
    <3>. DEFINE n == call[Head(up)].nonce
    <3>1. /\ pending_challenge' = 0 /\ nonces' = nonces
          /\ verified' = verified \/ (n = pending_challenge /\ n # 0 /\ verified' = [verified EXCEPT ![n] = verified[n] + 1])
      BY <2>2 DEF SessionHello, Hello, CheckAuth
    <3>. HIDE DEF n
    <3>2. CASE verified' = verified
      BY <3>1, <3>2 DEF NoncesInv
    <3>3. CASE n = pending_challenge /\ n # 0 /\ verified' = [verified EXCEPT ![n] = verified[n] + 1]
      <4>1. n = nonces
        BY <3>3 DEF NoncesInv
      <4>2. CASE n \in Nonce
        <5>1. verified[n] = 0
          BY <3>3, <4>2 DEF NoncesInv
        <5>2. verified' \in [Nonce -> Nat] /\ \A k \in Nonce : verified'[k] = IF k = n THEN 1 ELSE verified[k]
          BY <3>3, <4>2, <5>1 DEF NoncesInv
        <5>. QED
          BY <3>1, <4>1, <5>2 DEF NoncesInv
      <4>3. CASE n \notin Nonce
        <5>1. verified' = verified
          BY <3>3, <4>3 DEF NoncesInv
        <5>. QED
          BY <3>2, <5>1
      <4>. QED
        BY <4>2, <4>3
    <3>. QED
      BY <3>1, <3>2, <3>3
  <2>3. CASE UNCHANGED <<pending_challenge, nonces, verified>>
    BY <2>3 DEF NoncesInv
  <2>. QED
    BY <2>1, <2>2, <2>3
       DEF ControlNext, control_vars, client, wires, auth, work, streams, HostReads, Call, CallSends, CallTimesOut,
           CallSeesClosed, ReceivesResponse, ReceiveLoopExits, LinkCloses, RequestRefused, SendCommand, CommandAnswered,
           CommandTimesOut, OnHostCommand, Revoked, AcceptsStream, RefusesStream, StreamInit, StreamTaskEnds
<1>. QED
  BY <1>1, <1>2, PTL DEF ControlSpec

\* The host's answers are those to their own calls, and nothing runs twice.
LEMMA CallsStaySound == ControlSpec => []CallsInv
<1>. MaxCalls \in Nat
  BY CapAssumption
<1>1. ControlInit => CallsInv
  <2> SUFFICES ASSUME ControlInit PROVE CallsInv
    OBVIOUS
  <2>1. ~(\E x : Holds(up, x) \/ Holds(down, x) \/ Holds(commands, x)) /\ OnceEach(up) /\ OnceEach(commands)
    BY DEF ControlInit, Holds, OnceEach
  <2>2. WiresInv
    BY DEF ControlInit, WiresInv, CallStates, Method, Lines
  <2>3. Answerable /\ OnTheWay /\ AnswersMatch
    BY <2>1 DEF ControlInit, Answerable, OnTheWay, AnswersMatch, Heard, CallId
  <2>. QED
    BY <2>2, <2>3 DEF CallsInv
<1>2. CallsInv /\ NoncesInv /\ [ControlNext]_control_vars => CallsInv'
  <2> SUFFICES ASSUME CallsInv, NoncesInv, [ControlNext]_control_vars PROVE CallsInv'
    OBVIOUS
  <2>0. /\ call \in [CallId -> CallStates] /\ next_id \in 1 .. MaxCalls + 1 /\ pending \subseteq CallId
        /\ learned \subseteq Nat
        /\ up \in Seq(CallId) /\ commands \in Seq(CallId) /\ down \in Seq(Lines)
        /\ handling \in 0 .. MaxCalls /\ reply \in {"none", "ok", "error"}
        /\ runs \in [CallId -> Nat] /\ WiresInv
    BY DEF CallsInv, WiresInv
  \* Nothing of the calls and their answers changes, or answers are lost.
  <2>1. ASSUME UNCHANGED <<call, next_id, learned, up, work>>, pending' \subseteq CallId, down' \in {down, <<>>}
        PROVE  CallsInv'
    <3>1. down' \in Seq(Lines) /\ \A x : Holds(down', x) => Holds(down, x)
      <4>1. CASE down' = down
        BY <2>0, <4>1
      <4>2. CASE down' = <<>>
        BY <4>2 DEF Holds
      <4>. QED
        BY <2>1, <4>1, <4>2
    <3>2. WiresInv' /\ OnTheWay' /\ AnswersMatch'
      BY <2>1, <3>1 DEF CallsInv, WiresInv, OnTheWay, AnswersMatch, work
    <3>3. Answerable'
      BY <2>1, <3>1 DEF CallsInv, Answerable, Heard, work
    <3>. QED
      BY <3>2, <3>3 DEF CallsInv
  <2>2. ASSUME NEW m \in Method, Call(m) PROVE CallsInv'
    <3>1. next_id \in CallId /\ next_id <= MaxCalls /\ next_id' = next_id + 1
      BY <2>0, <2>2 DEF Call, CallId
    <3>2. PICK n \in Nat : call' = [call EXCEPT ![next_id] = [call[next_id] EXCEPT !.method = m, !.nonce = n, !.state = "inserted"]]
      <4>1. PICK n \in IF m = "hello" THEN learned ELSE {0} :
               call' = [call EXCEPT ![next_id] = [call[next_id] EXCEPT !.method = m, !.nonce = n, !.state = "inserted"]]
        BY <2>2 DEF Call
      <4>2. n \in Nat
        BY <2>0
      <4>. QED
        BY <4>1, <4>2
    <3>. DEFINE r == [call[next_id] EXCEPT !.method = m, !.nonce = n, !.state = "inserted"]
    <3>3. ASSUME NEW s \in CallStates
          PROVE  LET q == [s EXCEPT !.method = m, !.nonce = n, !.state = "inserted"] IN
                   q \in CallStates /\ q.by = s.by /\ q.state = "inserted"
      BY DEF CallStates
    <3>4. r \in CallStates /\ r.by = call[next_id].by /\ r.state = "inserted"
      BY <2>0, <3>1, <3>3
    <3>5. call' = [call EXCEPT ![next_id] = r]
      BY <3>2
    <3>. HIDE DEF r
    <3>6. call[next_id].state = "none" /\ call[next_id].by \in {0, next_id}
      BY <2>0, <3>1 DEF CallsInv, Answerable, AnswersMatch
    <3>7. next_id' \in 1 .. MaxCalls + 1 /\ next_id < next_id' /\ next_id <= next_id'
      BY <2>0, <3>1
    <3>8. /\ pending' \subseteq CallId /\ learned' = learned /\ UNCHANGED <<up, down, commands, handling, reply, runs>>
      BY <2>0, <2>2, <3>1 DEF Call, wires, work
    <3>. QED
      BY <2>0, <3>1, <3>4, <3>5, <3>6, <3>7, <3>8, CallMoves
  \* A call that was inserted or sent ends or goes on, with or without an answer.
  <2>3. ASSUME NEW i \in CallId, NEW s \in {"sent"} \cup Ended, call[i].state \in {"inserted", "sent"},
               call' = [call EXCEPT ![i].state = s], s # "ok",
               pending' \subseteq CallId, UNCHANGED <<next_id, learned, up, down, commands, handling, reply, runs>>
        PROVE  CallsInv'
    <3>. DEFINE r == [call[i] EXCEPT !.state = s]
    <3>1. ASSUME NEW c \in CallStates
          PROVE  LET q == [c EXCEPT !.state = s] IN
                   q \in CallStates /\ q.by = c.by /\ q.state = s /\ q.method = c.method
      BY <2>3 DEF CallStates
    <3>2. r \in CallStates /\ r.by = call[i].by /\ r.state = s /\ r.method = call[i].method
      BY <2>0, <3>1
    <3>3. call' = [call EXCEPT ![i] = r]
      BY <2>0, <2>3
    <3>. HIDE DEF r
    <3>4. i < next_id
      <4>1. ~(i >= next_id)
        BY <2>3 DEF CallsInv, Answerable
      <4>. QED
        BY <2>0, <4>1 DEF CallId
    <3>5. call[i].by \in {0, i} /\ s # "none" /\ s # "inserted" /\ next_id <= next_id
      BY <2>0, <2>3 DEF CallsInv, AnswersMatch, Ended
    <3>. QED
      BY <2>0, <2>3, <3>2, <3>3, <3>4, <3>5, CallMoves
  <2>4. ASSUME NEW i \in CallId, CallSends(i) PROVE CallsInv'
    <3>1. CASE connection = "open"
      <4>1. /\ call[i].state = "inserted" /\ call' = [call EXCEPT ![i].state = "sent"] /\ up' = Append(up, i)
            /\ UNCHANGED <<pending, next_id, learned, down, commands, handling, reply, runs>>
        BY <2>4, <3>1 DEF CallSends, work
      <4>2. ASSUME NEW c \in CallStates
            PROVE  LET q == [c EXCEPT !.state = "sent"] IN
                     q \in CallStates /\ q.by = c.by /\ q.state = "sent" /\ q.method = c.method
        BY DEF CallStates
      <4>3. /\ call' \in [CallId -> CallStates] /\ \A j \in CallId \ {i} : call'[j] = call[j]
            /\ call'[i].by = call[i].by /\ call'[i].state = "sent" /\ call'[i].method = call[i].method
        BY <2>0, <4>1, <4>2
      <4>4. ~Heard(i)
        BY <4>1 DEF CallsInv, Answerable
      <4>5. up' \in Seq(CallId) /\ OnceEach(up') /\ \A x : Holds(up', x) => Holds(up, x) \/ x = i
        BY <2>0, <4>1, <4>4, AppendToQueue DEF CallsInv, OnTheWay, Heard
      <4>6. WiresInv'
        BY <2>0, <4>1, <4>3, <4>5 DEF WiresInv
      <4>7. runs[i] = 0
        BY <2>0, <4>4 DEF Heard
      <4>8. OnTheWay'
        BY <4>1, <4>4, <4>5, <4>7 DEF CallsInv, OnTheWay, Heard
      <4>9. \A j \in CallId : Heard(j)' => Heard(j) \/ j = i
        BY <4>1, <4>5 DEF Heard
      <4>10. \A j \in CallId : j >= next_id' => call'[j].state = "none"
        BY <4>1, <4>3 DEF CallsInv, Answerable
      <4>11. \A j \in CallId : Heard(j)' => call'[j].state \notin {"none", "inserted"}
        BY <4>3, <4>9 DEF CallsInv, Answerable
      <4>12. ASSUME NEW x \in Lines, Holds(down', x)
             PROVE  /\ call'[x.id].state \notin {"none", "inserted"}
                    /\ x.ok /\ call'[x.id].method = "command" => runs'[x.id] = 1
        <5>1. /\ x.id \in CallId /\ call[x.id].state \notin {"none", "inserted"}
              /\ x.ok /\ call[x.id].method = "command" => runs[x.id] = 1
          BY <4>1, <4>12 DEF CallsInv, Answerable, Lines
        <5>. QED
          BY <4>1, <4>3, <5>1
      <4>13. AnswersMatch'
        BY <4>1, <4>3 DEF CallsInv, AnswersMatch
      <4>. QED
        BY <4>1, <4>6, <4>8, <4>10, <4>11, <4>12, <4>13 DEF CallsInv, Answerable
    <3>2. CASE connection # "open"
      BY <2>0, <2>3, <2>4, <3>2 DEF CallSends, Ends, work, Ended
    <3>. QED
      BY <3>1, <3>2
  <2>5. ASSUME NEW i \in CallId, CallTimesOut(i) \/ CallSeesClosed(i) PROVE CallsInv'
    BY <2>0, <2>3, <2>5 DEF CallTimesOut, CallSeesClosed, Ends, wires, work, Ended
  <2>6. CASE ReceivesResponse
    <3>. DEFINE line == Head(down)
    <3>. DEFINE i == line.id
    <3>1. down # <<>> /\ down' = Tail(down) /\ UNCHANGED <<next_id, up, commands, handling, reply, runs>>
      BY <2>6 DEF ReceivesResponse, TakesLine, work
    <3>2. line \in Lines /\ down' \in Seq(Lines) /\ Holds(down, line) /\ \A x : Holds(down', x) => Holds(down, x)
      BY <2>0, <3>1, TailOfQueue
    <3>3. i \in CallId /\ line.nonce \in Nat /\ line.ok \in BOOLEAN
      BY <3>2 DEF Lines
    <3>4. CASE i \in pending
      <4>1. PICK s \in {"ok", "error"} : s = IF line.ok THEN "ok" ELSE "error"
        OBVIOUS
      <4>. DEFINE r == [call[i] EXCEPT !.state = s, !.by = i]
      <4>2. /\ call' = [call EXCEPT ![i].state = s, ![i].by = i] /\ pending' = pending \ {i}
            /\ learned' = IF line.nonce = 0 THEN learned ELSE learned \cup {line.nonce}
        BY <2>6, <3>4, <4>1 DEF ReceivesResponse, Resolves
      <4>3. i \in 0 .. MaxCalls
        BY <3>3 DEF CallId
      <4>. HIDE DEF i
      <4>4. ASSUME NEW c \in CallStates
            PROVE  LET q == [c EXCEPT !.state = s, !.by = i] IN
                     q \in CallStates /\ q.by = i /\ q.state = s /\ q.method = c.method
        BY <4>1, <4>3 DEF CallStates, Ended
      <4>5. r \in CallStates /\ r.by = i /\ r.state = s /\ r.method = call[i].method
        BY <2>0, <3>3, <4>4
      <4>6. call' = [call EXCEPT ![i] = r]
        BY <2>0, <3>3, <4>2
      <4>. HIDE DEF r
      <4>7. /\ call[i].state \notin {"none", "inserted"}
            /\ line.ok /\ call[i].method = "command" => runs[i] = 1
        BY <3>2 DEF CallsInv, Answerable, i
      <4>8. s = "ok" /\ r.method = "command" => runs[i] = 1
        BY <3>3, <4>1, <4>5, <4>7
      <4>9. i < next_id
        <5>1. ~(i >= next_id)
          BY <3>3, <4>7 DEF CallsInv, Answerable
        <5>. QED
          BY <2>0, <3>3, <5>1 DEF CallId
      <4>10. pending' \subseteq CallId /\ learned' \subseteq Nat /\ next_id <= next_id /\ s \notin {"none", "inserted"}
        BY <2>0, <3>3, <4>1, <4>2
      <4>. HIDE DEF line
      <4>. QED
        BY <2>0, <3>1, <3>2, <3>3, <4>5, <4>6, <4>7, <4>8, <4>9, <4>10, CallMoves
    <3>5. CASE i \notin pending
      <4>1. UNCHANGED <<call, pending, learned>>
        BY <2>6, <3>5 DEF ReceivesResponse
      <4>. HIDE DEF line
      <4>2. WiresInv' /\ OnTheWay' /\ AnswersMatch'
        BY <2>0, <3>1, <3>2, <4>1 DEF CallsInv, WiresInv, OnTheWay, AnswersMatch
      <4>3. Answerable'
        BY <3>1, <3>2, <4>1 DEF CallsInv, Answerable, Heard
      <4>. QED
        BY <4>2, <4>3 DEF CallsInv
    <3>. QED
      BY <3>4, <3>5
  <2>7. CASE ReceiveLoopExits \/ LinkCloses
    BY <2>0, <2>1, <2>7 DEF ReceiveLoopExits, LinkCloses, client, wires, work
  \* The host takes a request and answers it at once; only a challenge or a hello succeeds.
  <2>8. ASSUME Reads, NEW ok \in BOOLEAN, NEW n \in Nat, Answer(Head(up), ok, n),
               ok => call[Head(up)].method # "command", UNCHANGED <<client, work>>
        PROVE  CallsInv'
    <3>. DEFINE i == Head(up)
    <3>1. up # <<>> /\ up' = Tail(up) /\ UNCHANGED <<call, next_id, pending, learned, commands, handling, reply, runs>>
      BY <2>8 DEF Reads, client, work
    <3>2. i \in CallId /\ up' \in Seq(CallId) /\ Holds(up, i) /\ OnceEach(up') /\ \A x : Holds(up', x) => Holds(up, x)
      BY <2>0, <3>1, TailOfQueue DEF CallsInv, OnTheWay
    <3>3. /\ down' \in Seq(Lines)
          /\ \A x \in Lines : Holds(down', x) => Holds(down, x) \/ (x.id = i /\ (x.ok <=> ok))
      BY <2>0, <2>8, <3>2, AnswerAdds
    <3>. HIDE DEF i
    <3>4. WiresInv' /\ OnTheWay' /\ AnswersMatch'
      BY <2>0, <3>1, <3>2, <3>3 DEF CallsInv, WiresInv, OnTheWay, AnswersMatch
    <3>5. call[i].state \notin {"none", "inserted"} /\ (ok => call[i].method # "command")
      BY <2>8, <3>2 DEF CallsInv, Answerable, Heard, i
    <3>6. \A j \in CallId : Heard(j)' => Heard(j)
      BY <3>1, <3>2 DEF Heard
    <3>7. Answerable'
      BY <3>1, <3>3, <3>5, <3>6 DEF CallsInv, Answerable
    <3>. QED
      BY <3>4, <3>7 DEF CallsInv
  <2>9. CASE SessionChallenge
    <3>1. PICK ok \in BOOLEAN : ok = TRUE
      OBVIOUS
    <3>2. PICK n \in Nat : n = nonces + 1
      BY DEF NoncesInv
    <3>3. /\ Reads /\ Answer(Head(up), ok, n) /\ call[Head(up)].method # "command"
          /\ UNCHANGED <<client, work>>
      BY <2>9, <3>1, <3>2 DEF SessionChallenge, Asked
    <3>. QED
      BY <2>8, <3>3
  <2>10. CASE SessionHello
    <3>1. PICK ok \in BOOLEAN : ok = CheckAuth(Head(up))
      BY DEF CheckAuth
    <3>2. /\ Reads /\ Answer(Head(up), ok, 0) /\ call[Head(up)].method # "command"
          /\ UNCHANGED <<client, work>>
      BY <2>10, <3>1 DEF SessionHello, Hello, Asked
    <3>. QED
      BY <2>8, <3>2
  <2>11. CASE RequestRefused
    <3>1. PICK ok \in BOOLEAN : ok = FALSE
      OBVIOUS
    <3>2. Reads /\ Answer(Head(up), ok, 0) /\ ~ok /\ UNCHANGED <<client, work>>
      BY <2>11, <3>1 DEF RequestRefused
    <3>. QED
      BY <2>8, <3>2
  <2>12. CASE SendCommand
    <3>. DEFINE i == Head(up)
    <3>1. /\ up # <<>> /\ up' = Tail(up) /\ handling' = i /\ commands' = Append(commands, i) /\ reply' = "none"
          /\ UNCHANGED <<call, next_id, pending, learned, down, runs>>
      BY <2>12 DEF SendCommand, Reads, client
    <3>2. /\ i \in CallId /\ up' \in Seq(CallId) /\ Holds(up, i) /\ OnceEach(up') /\ ~Holds(up', i)
          /\ \A x : Holds(up', x) => Holds(up, x)
      BY <2>0, <3>1, TailOfQueue DEF CallsInv, OnTheWay
    <3>. HIDE DEF i
    <3>3. ~Holds(commands, i) /\ runs[i] = 0
      BY <3>2 DEF CallsInv, OnTheWay
    <3>4. commands' \in Seq(CallId) /\ OnceEach(commands') /\ \A x : Holds(commands', x) => Holds(commands, x) \/ x = i
      BY <2>0, <3>1, <3>2, <3>3, AppendToQueue DEF CallsInv, OnTheWay
    <3>5. i \in 0 .. MaxCalls /\ call[i].state \notin {"none", "inserted"}
      BY <3>2 DEF CallsInv, Answerable, Heard, CallId
    <3>6. WiresInv' /\ AnswersMatch'
      BY <2>0, <3>1, <3>2, <3>4, <3>5 DEF CallsInv, WiresInv, AnswersMatch
    <3>7. OnTheWay'
      BY <3>1, <3>2, <3>3, <3>4 DEF CallsInv, OnTheWay
    <3>8. \A j \in CallId : Heard(j)' => Heard(j) \/ j = i
      BY <3>1, <3>2, <3>4 DEF Heard
    <3>9. Answerable'
      BY <3>1, <3>5, <3>8 DEF CallsInv, Answerable
    <3>. QED
      BY <3>6, <3>7, <3>9 DEF CallsInv
  \* The awaited command is answered, or given up.
  <2>13. ASSUME handling # 0, NEW ok \in BOOLEAN, Answer(handling, ok, 0), ok => reply = "ok",
                handling' = 0, UNCHANGED <<client, up, commands, reply, runs>>
         PROVE  CallsInv'
    <3>1. handling \in CallId /\ call[handling].state \notin {"none", "inserted"} /\ (ok => runs[handling] = 1)
      BY <2>0, <2>13 DEF CallsInv, Answerable, Heard, CallId
    <3>2. /\ down' \in Seq(Lines)
          /\ \A x \in Lines : Holds(down', x) => Holds(down, x) \/ (x.id = handling /\ (x.ok <=> ok))
      BY <2>0, <2>13, <3>1, AnswerAdds
    <3>3. WiresInv' /\ AnswersMatch'
      BY <2>0, <2>13, <3>2 DEF CallsInv, WiresInv, AnswersMatch, client
    <3>4. \A j \in CallId : j # 0
      BY DEF CallId
    <3>5. OnTheWay' /\ \A j \in CallId : Heard(j)' => Heard(j)
      BY <2>13, <3>4 DEF CallsInv, OnTheWay, Heard
    <3>6. Answerable'
      BY <2>13, <3>1, <3>2, <3>5 DEF CallsInv, Answerable, client
    <3>. QED
      BY <3>3, <3>5, <3>6 DEF CallsInv
  <2>14. CASE CommandAnswered
    <3>1. PICK ok \in BOOLEAN : ok = (reply = "ok")
      OBVIOUS
    <3>2. handling # 0 /\ Answer(handling, ok, 0) /\ (ok => reply = "ok") /\ handling' = 0 /\ UNCHANGED <<client, up, commands, reply, runs>>
      BY <2>14, <3>1 DEF CommandAnswered
    <3>. QED
      BY <2>13, <3>2
  <2>15. CASE CommandTimesOut
    <3>1. PICK ok \in BOOLEAN : ok = FALSE
      OBVIOUS
    <3>2. handling # 0 /\ Answer(handling, ok, 0) /\ ~ok /\ handling' = 0 /\ UNCHANGED <<client, up, commands, reply, runs>>
      BY <2>15, <3>1 DEF CommandTimesOut
    <3>. QED
      BY <2>13, <3>2
  <2>16. CASE OnHostCommand
    <3>. DEFINE i == Head(commands)
    <3>1. commands # <<>> /\ commands' = Tail(commands) /\ UNCHANGED <<call, next_id, pending, learned, up, down, handling>>
      BY <2>16 DEF OnHostCommand, client, wires
    <3>2. PICK done \in BOOLEAN :
            /\ runs' = IF done THEN [runs EXCEPT ![i] = runs[i] + 1] ELSE runs
            /\ reply' = IF handling = i THEN (IF done THEN "ok" ELSE "error") ELSE reply
      BY <2>16 DEF OnHostCommand
    <3>3. /\ i \in CallId /\ commands' \in Seq(CallId) /\ Holds(commands, i) /\ OnceEach(commands') /\ ~Holds(commands', i)
          /\ \A x : Holds(commands', x) => Holds(commands, x)
      BY <2>0, <3>1, TailOfQueue DEF CallsInv, OnTheWay
    <3>. HIDE DEF i
    <3>4. runs[i] = 0 /\ ~Holds(up, i)
      BY <3>3 DEF CallsInv, OnTheWay
    <3>5. runs' \in [CallId -> Nat] /\ \A j \in CallId : runs'[j] = IF j = i /\ done THEN 1 ELSE runs[j]
      BY <2>0, <3>2, <3>3, <3>4
    <3>6. WiresInv'
      BY <2>0, <3>1, <3>2, <3>3, <3>5 DEF WiresInv
    <3>7. OnTheWay'
      BY <3>1, <3>3, <3>4, <3>5 DEF CallsInv, OnTheWay
    <3>8. call[i].state \notin {"none", "inserted"}
      BY <3>3 DEF CallsInv, Answerable, Heard
    <3>9. \A j \in CallId : Heard(j)' => Heard(j) \/ j = i
      BY <3>1, <3>3, <3>5 DEF Heard
    <3>10. handling' # 0 /\ reply' = "ok" => runs'[handling'] = 1
      <4>1. ASSUME handling # 0, reply' = "ok" PROVE runs'[handling] = 1
        <5>1. handling \in CallId
          BY <2>0, <4>1 DEF CallId
        <5>. QED
          BY <3>2, <3>5, <4>1, <5>1 DEF CallsInv, Answerable
      <4>. QED
        BY <3>1, <4>1
    <3>11. ASSUME NEW x \in Lines, Holds(down', x)
           PROVE  /\ call'[x.id].state \notin {"none", "inserted"}
                  /\ x.ok /\ call'[x.id].method = "command" => runs'[x.id] = 1
      <4>1. x.id \in CallId
        BY DEF Lines
      <4>. QED
        BY <3>1, <3>5, <3>11, <4>1 DEF CallsInv, Answerable
    <3>12. Answerable'
      BY <3>1, <3>8, <3>9, <3>10, <3>11 DEF CallsInv, Answerable
    <3>13. AnswersMatch'
      BY <3>1, <3>4, <3>5 DEF CallsInv, AnswersMatch
    <3>. QED
      BY <3>6, <3>7, <3>12, <3>13 DEF CallsInv
  <2>17. CASE Revoked \/ (\E s \in Stream : AcceptsStream(s) \/ RefusesStream(s) \/ StreamInit(s) \/ StreamTaskEnds(s)) \/ UNCHANGED control_vars
    <3>1. UNCHANGED <<client, wires, work>>
      BY <2>17 DEF Revoked, AcceptsStream, RefusesStream, StreamInit, StreamTaskEnds, control_vars
    <3>. QED
      BY <2>0, <2>1, <3>1 DEF client, wires
  <2>. QED
    BY <2>2, <2>4, <2>5, <2>6, <2>7, <2>9, <2>10, <2>11, <2>12, <2>14, <2>15, <2>16, <2>17 DEF ControlNext, HostReads
<1>. QED
  BY <1>1, <1>2, NoncesStaySound, PTL DEF ControlSpec

\* The counter of the data streams' tasks, and the cap.
StreamsInv ==
  /\ stream \in [Stream -> {"none", "refused", "init", "live", "ended"}]
  /\ IsFiniteSet(Stream) /\ data_streams \in Nat /\ StreamsCounted

\* The tasks a step adds or takes away.
LEMMA TasksMove ==
  ASSUME StreamsInv, NEW s \in Stream, NEW to \in {"refused", "init", "live", "ended"},
         stream' = [stream EXCEPT ![s] = to], NEW states
  PROVE  /\ IsFiniteSet(TasksOf(states)) /\ Cardinality(TasksOf(states)) \in Nat
         /\ Cardinality(TasksOf(states)') =
              IF stream[s] \in states
              THEN IF to \in states THEN Cardinality(TasksOf(states)) ELSE Cardinality(TasksOf(states)) - 1
              ELSE IF to \in states THEN Cardinality(TasksOf(states)) + 1 ELSE Cardinality(TasksOf(states))
<1>1. TasksOf(states) \in SUBSET Stream
  BY DEF TasksOf
<1>2. IsFiniteSet(TasksOf(states))
  BY <1>1, FS_Subset DEF StreamsInv
<1>3. Cardinality(TasksOf(states)) \in Nat
  BY <1>2, FS_CardinalityType
<1>4. \A r \in Stream : stream'[r] = IF r = s THEN to ELSE stream[r]
  BY DEF StreamsInv
<1>5. TasksOf(states)' = IF to \in states THEN TasksOf(states) \cup {s} ELSE TasksOf(states) \ {s}
  BY <1>4 DEF TasksOf
<1>6. s \in TasksOf(states) <=> stream[s] \in states
  BY DEF TasksOf
<1>7. /\ Cardinality(TasksOf(states) \cup {s}) = IF s \in TasksOf(states) THEN Cardinality(TasksOf(states)) ELSE Cardinality(TasksOf(states)) + 1
      /\ Cardinality(TasksOf(states) \ {s}) = IF s \in TasksOf(states) THEN Cardinality(TasksOf(states)) - 1 ELSE Cardinality(TasksOf(states))
  BY <1>2, FS_AddElement, FS_RemoveElement
<1>. QED
  BY <1>2, <1>3, <1>5, <1>6, <1>7

\* The streams are counted, and no more than the cap have a task past its first line.
LEMMA StreamsStayCounted == ControlSpec => []StreamsInv
<1>. MaxStreams \in Nat /\ Cap \in Nat
  BY CapAssumption
<1>1. ControlInit => StreamsInv
  <2> SUFFICES ASSUME ControlInit PROVE StreamsInv
    OBVIOUS
  <2>1. IsFiniteSet(Stream)
    BY FS_Interval DEF Stream
  <2>2. TasksOf({"refused", "init", "live"}) = {} /\ TasksOf({"init", "live"}) = {}
    BY DEF ControlInit, TasksOf
  <2>3. Cardinality({}) = 0
    BY FS_EmptySet
  <2>4. StreamsCounted
    <3>1. Cardinality(TasksOf({"refused", "init", "live"})) = 0 /\ Cardinality(TasksOf({"init", "live"})) = 0
      BY <2>2, <2>3
    <3>2. data_streams = 0 /\ 0 <= Cap
      BY DEF ControlInit
    <3>. QED
      BY <3>1, <3>2 DEF StreamsCounted
  <2>. QED
    BY <2>1, <2>4 DEF ControlInit, StreamsInv
<1>2. StreamsInv /\ [ControlNext]_control_vars => StreamsInv'
  <2> SUFFICES ASSUME StreamsInv, [ControlNext]_control_vars PROVE StreamsInv'
    OBVIOUS
  <2>. DEFINE all == Cardinality(TasksOf({"refused", "init", "live"}))
  <2>. DEFINE let_in == Cardinality(TasksOf({"init", "live"}))
  <2>0. all \in Nat /\ let_in \in Nat /\ data_streams = all /\ let_in <= Cap /\ let_in <= all
    <3>1. /\ TasksOf({"refused", "init", "live"}) \in SUBSET Stream /\ IsFiniteSet(Stream)
          /\ TasksOf({"init", "live"}) \in SUBSET TasksOf({"refused", "init", "live"})
      BY DEF StreamsInv, TasksOf
    <3>2. IsFiniteSet(TasksOf({"refused", "init", "live"}))
      BY <3>1, FS_Subset
    <3>3. IsFiniteSet(TasksOf({"init", "live"})) /\ let_in <= all
      BY <3>1, <3>2, FS_Subset
    <3>4. all \in Nat /\ let_in \in Nat
      BY <3>2, <3>3, FS_CardinalityType
    <3>. QED
      BY <3>3, <3>4 DEF StreamsInv, StreamsCounted
  <2>1. ASSUME NEW s \in Stream, NEW to \in {"refused", "init", "live", "ended"},
               stream' = [stream EXCEPT ![s] = to], stream[s] \in {"none", "refused", "init", "live"},
               data_streams' = IF stream[s] = "none" THEN data_streams + 1
                               ELSE IF to = "ended" THEN data_streams - 1 ELSE data_streams,
               stream[s] = "none" => to \in {"refused", "init"}, stream[s] = "refused" => to = "ended",
               stream[s] = "none" /\ to = "init" => data_streams < Cap
        PROVE  StreamsInv'
    <3>1. all' = IF stream[s] \in {"refused", "init", "live"}
                 THEN IF to \in {"refused", "init", "live"} THEN all ELSE all - 1
                 ELSE IF to \in {"refused", "init", "live"} THEN all + 1 ELSE all
      BY <2>1, TasksMove
    <3>2. let_in' = IF stream[s] \in {"init", "live"}
                    THEN IF to \in {"init", "live"} THEN let_in ELSE let_in - 1
                    ELSE IF to \in {"init", "live"} THEN let_in + 1 ELSE let_in
      BY <2>1, TasksMove
    <3>3. stream[s] \in {"refused", "init", "live"} => all > 0
      <4>1. ASSUME stream[s] \in {"refused", "init", "live"} PROVE all # 0
        <5>1. s \in TasksOf({"refused", "init", "live"})
          BY <4>1 DEF TasksOf
        <5>2. IsFiniteSet(TasksOf({"refused", "init", "live"}))
          BY <2>1, TasksMove
        <5>. QED
          BY <5>1, <5>2, FS_EmptySet
      <4>. QED
        BY <2>0, <4>1
    <3>. HIDE DEF all, let_in
    <3>4. data_streams' \in Nat /\ data_streams' = all'
      BY <2>0, <2>1, <3>1, <3>3
    <3>5. let_in' <= Cap
      BY <2>0, <2>1, <3>2
    <3>6. stream' \in [Stream -> {"none", "refused", "init", "live", "ended"}] /\ IsFiniteSet(Stream)
      BY <2>1 DEF StreamsInv
    <3>7. StreamsCounted'
      BY <3>4, <3>5 DEF StreamsCounted, all, let_in
    <3>. QED
      BY <3>4, <3>6, <3>7 DEF StreamsInv
  <2>2. ASSUME NEW s \in Stream, AcceptsStream(s) PROVE StreamsInv'
    <3>1. PICK to \in {"refused", "init"} : to = IF data_streams >= Cap THEN "refused" ELSE "init"
      OBVIOUS
    <3>2. stream' = [stream EXCEPT ![s] = to] /\ stream[s] = "none" /\ data_streams' = data_streams + 1
      BY <2>2, <3>1 DEF AcceptsStream
    <3>3. to = "init" => data_streams < Cap
      BY <2>0, <3>1 DEF StreamsInv
    <3>. QED
      BY <2>1, <3>2, <3>3
  <2>3. ASSUME NEW s \in Stream, RefusesStream(s) \/ StreamTaskEnds(s) PROVE StreamsInv'
    BY <2>1, <2>3 DEF RefusesStream, StreamTaskEnds
  <2>4. ASSUME NEW s \in Stream, StreamInit(s) PROVE StreamsInv'
    BY <2>1, <2>4 DEF StreamInit
  <2>5. CASE UNCHANGED streams
    BY <2>5 DEF streams, StreamsInv, StreamsCounted, TasksOf
  <2>. QED
    BY <2>2, <2>3, <2>4, <2>5
       DEF ControlNext, control_vars, HostReads, Call, CallSends, CallTimesOut, CallSeesClosed, ReceivesResponse,
           ReceiveLoopExits, LinkCloses, SessionChallenge, SessionHello, Hello, RequestRefused, SendCommand,
           CommandAnswered, CommandTimesOut, OnHostCommand, Revoked
<1>. QED
  BY <1>1, <1>2, PTL DEF ControlSpec

\* What a connection admits, for any numbers of calls, streams and tasks.
THEOREM ConnectionStaysSound == ControlSpec => []ConnectionIsSound
<1>1. CallsInv /\ NoncesInv /\ StreamsInv => ConnectionIsSound
  BY DEF CallsInv, NoncesInv, StreamsInv, ConnectionIsSound, NonceProvesOnce
<1>. QED
  BY <1>1, CallsStaySound, NoncesStaySound, StreamsStayCounted, PTL
-------------------------------------------------------------------------------
(* PtyOutput                                                               *)

\* The last byte of the first i messages of a log.
End(l, i) == IF i = 0 THEN 0 ELSE l[i][Len(l[i])]

\* A log's messages are whole runs of the output, one after the other.
IsLog(l) ==
    /\ l \in Seq(Seq(Nat))
    /\ \A i \in 0 .. Len(l) : End(l, i) \in Nat
    /\ \A i \in 1 .. Len(l) : l[i] = Run(End(l, i - 1) + 1, End(l, i))
    /\ \A i, j \in 0 .. Len(l) : j <= i => End(l, j) + (i - j) <= End(l, i)

\* The oldest byte of the scrollback after n bytes.
Oldest(n) == IF n > ScrollCap THEN n - ScrollCap + 1 ELSE 1
Kept(n) == Run(Oldest(n), n)

\* The byte a viewer is owed next, and the one it will be given next.
Owed(r) == IF r.screen = <<>> THEN Oldest(CHOOSE n \in r.at : TRUE)
                              ELSE r.screen[Len(r.screen)] + 1
Given(r, l) == End(l, r.next - 1) + 1 - Len(r.out)

ViewerRecords == [step : {"new", "locked", "subscribe", "stream", "ended"},
                  snapshot : Seq(Nat), at : SUBSET Nat, next : Nat, out : Seq(Nat),
                  screen : Seq(Nat), lagged : BOOLEAN, peer : BOOLEAN]

\* A viewer is given the byte it is owed, unless it lagged: then what it misses lies
\* before the messages the channel keeps.
Streams(r, l) ==
    /\ r.next \in 1 .. Len(l) + 1
    /\ Len(r.out) <= End(l, r.next - 1)
    /\ r.out = Run(Given(r, l), End(l, r.next - 1))
    /\ Owed(r) \in Nat \ {0}
    /\ \/ Given(r, l) = Owed(r)
       \/ r.lagged /\ Given(r, l) > Owed(r) /\ Given(r, l) + BusCap <= End(l, Len(l)) + 1

SoundViewer(r, l) ==
    /\ r.step \in {"new", "locked", "subscribe"} => r.screen = <<>> /\ r.out = <<>> /\ r.at = {}
    /\ r.step \in {"stream", "ended"} =>
         \E n \in Nat :
           /\ r.at = {n}
           /\ r.lagged \/ r.screen = Run(Oldest(n), Oldest(n) + Len(r.screen) - 1)
    /\ r.step = "stream" => Streams(r, l)

BridgeInv ==
    /\ bridge \in [step : {"recv", "lock", "push", "send", "forward", "done"}, chunk : Seq(Nat)]
    /\ bridge.step \in {"lock", "push", "send"} =>
         bridge.chunk # <<>> /\ bridge.chunk = Run(Written + 1, Written + Len(bridge.chunk))
    /\ bridge.step = "forward" => log # <<>> /\ bridge.chunk = log[Len(log)]

LockInv ==
    /\ "bridge" \in lock <=> bridge.step \in {"push", "send"}
    /\ \A v \in Viewers : v \in lock <=> viewer[v].step \in {"locked", "subscribe"}
    /\ \A x, y \in lock : x = y

RingInv == ring = Kept(IF bridge.step = "send" THEN Written + Len(bridge.chunk) ELSE Written)

Sent == IF bridge.step = "forward" THEN Len(log) - 1 ELSE Len(log)

\* What the local reader has not read is the rest of a chunk and the last ones sent to it.
LocalInv ==
    /\ queue \in Seq(Seq(Nat)) /\ buffer \in Seq(Nat)
    /\ reader \in {"reading", "eof", "dropped"}
    /\ local \in Seq(Nat) /\ local = Run(1, Len(local))
    /\ reader = "reading" =>
         /\ Len(queue) <= Sent
         /\ \A i \in 1 .. Len(queue) : queue[i] = log[Sent - Len(queue) + i]
         /\ buffer = Run(Len(local) + 1, End(log, Sent - Len(queue)))
         /\ Len(local) <= End(log, Sent - Len(queue))
    /\ reader = "eof" => bridge.step = "done" /\ Len(local) = Written

ViewersInv ==
    /\ viewer \in [Viewers -> ViewerRecords]
    /\ \A v \in Viewers : SoundViewer(viewer[v], log)
    /\ \A v \in Viewers : viewer[v].step = "subscribe" => viewer[v].snapshot = ring

OutputInv == IsLog(log) /\ BridgeInv /\ LockInv /\ RingInv /\ LocalInv /\ ViewersInv
\* A run of bytes is a sequence of as many.
LEMMA RunIsSeq ==
  ASSUME NEW a \in Nat, NEW b \in Nat, a <= b + 1
  PROVE  /\ Run(a, b) \in Seq(Nat)
         /\ Len(Run(a, b)) = b - a + 1
         /\ \A i \in 1 .. b - a + 1 : Run(a, b)[i] = a + i - 1
<1>1. b - a + 1 \in Nat
  OBVIOUS
<1>2. Run(a, b) \in [1 .. b - a + 1 -> Nat]
  BY DEF Run
<1>3. \A i \in 1 .. b - a + 1 : Run(a, b)[i] = a + i - 1
  BY DEF Run
<1>. HIDE DEF Run
<1>4. Run(a, b) \in Seq(Nat)
  BY <1>1, <1>2, IsASeq
<1>5. Len(Run(a, b)) = b - a + 1
  BY <1>1, <1>2, <1>4, LenProperties
<1>. QED
  BY <1>3, <1>4, <1>5

\* Two runs that meet are one.
LEMMA RunsMeet ==
  ASSUME NEW a \in Nat, NEW b \in Nat, NEW c \in Nat, a <= b + 1, b <= c
  PROVE  Run(a, b) \o Run(b + 1, c) = Run(a, c)
<1>1. /\ Run(a, b) \in Seq(Nat) /\ Len(Run(a, b)) = b - a + 1
      /\ \A i \in 1 .. b - a + 1 : Run(a, b)[i] = a + i - 1
  BY RunIsSeq
<1>2. /\ Run(b + 1, c) \in Seq(Nat) /\ Len(Run(b + 1, c)) = c - b
      /\ \A i \in 1 .. c - b : Run(b + 1, c)[i] = b + i
  <2>1. /\ Run(b + 1, c) \in Seq(Nat) /\ Len(Run(b + 1, c)) = c - (b + 1) + 1
        /\ \A i \in 1 .. c - (b + 1) + 1 : Run(b + 1, c)[i] = b + 1 + i - 1
    BY RunIsSeq, b + 1 \in Nat, b + 1 <= c + 1
  <2>. QED
    BY <2>1
<1>3. /\ Run(a, c) \in Seq(Nat) /\ Len(Run(a, c)) = c - a + 1
      /\ \A i \in 1 .. c - a + 1 : Run(a, c)[i] = a + i - 1
  BY RunIsSeq, a <= c + 1
<1>. DEFINE r == Run(a, b)
            s == Run(b + 1, c)
            t == Run(a, c)
<1>. HIDE DEF r, s, t
<1>4. r \o s \in Seq(Nat) /\ Len(r \o s) = Len(r) + Len(s)
  BY <1>1, <1>2, ConcatProperties DEF r, s
<1>5. \A i \in 1 .. Len(r) + Len(s) : (r \o s)[i] = IF i <= Len(r) THEN r[i] ELSE s[i - Len(r)]
  BY <1>1, <1>2, ConcatProperties DEF r, s
<1>6. Len(r \o s) = Len(t)
  BY <1>1, <1>2, <1>3, <1>4 DEF r, s, t
<1>7. \A i \in 1 .. Len(t) : (r \o s)[i] = t[i]
  <2> TAKE i \in 1 .. Len(t)
  <2>1. CASE i <= Len(r)
    BY <2>1, <1>1, <1>2, <1>3, <1>4, <1>5, <1>6 DEF r, s, t
  <2>2. CASE ~(i <= Len(r))
    <3>1. i - Len(r) \in 1 .. c - b
      BY <2>2, <1>1, <1>2, <1>3, <1>6 DEF r, s, t
    <3>2. s[i - Len(r)] = b + (i - Len(r))
      BY <3>1, <1>2 DEF s
    <3>. QED
      <4>1. i \in 1 .. Len(r) + Len(s) /\ ~(i <= Len(r)) /\ i \in 1 .. c - a + 1 /\ Len(r) = b - a + 1
        BY <2>2, <1>1, <1>2, <1>3, <1>4, <1>6 DEF r, s, t
      <4>2. (r \o s)[i] = b + (i - (b - a + 1))
        BY <4>1, <3>2, <1>5
      <4>3. t[i] = a + i - 1
        BY <4>1, <1>3 DEF t
      <4>. QED
        BY <4>1, <4>2, <4>3
  <2>. QED
    BY <2>1, <2>2
<1>. QED
  BY <1>3, <1>4, <1>6, <1>7, SeqEqual DEF r, s, t

\* A part of a run is a run.
LEMMA PartOfRun ==
  ASSUME NEW a \in Nat \ {0}, NEW b \in Nat, a <= b + 1,
         NEW i \in Nat \ {0}, NEW j \in Nat, i <= j + 1, j <= b - a + 1
  PROVE  SubSeq(Run(a, b), i, j) = Run(a + i - 1, a + j - 1)
<1>1. /\ Run(a, b) \in Seq(Nat) /\ Len(Run(a, b)) = b - a + 1
      /\ \A k \in 1 .. b - a + 1 : Run(a, b)[k] = a + k - 1
  BY RunIsSeq
<1>2. a + i - 1 \in Nat /\ a + j - 1 \in Nat /\ a + i - 1 <= a + j - 1 + 1
  OBVIOUS
<1>3. /\ Run(a + i - 1, a + j - 1) \in Seq(Nat)
      /\ Len(Run(a + i - 1, a + j - 1)) = (a + j - 1) - (a + i - 1) + 1
      /\ \A k \in 1 .. (a + j - 1) - (a + i - 1) + 1 : Run(a + i - 1, a + j - 1)[k] = a + i - 1 + k - 1
  BY <1>2, RunIsSeq
<1>. DEFINE t == Run(a + i - 1, a + j - 1)
            r == Run(a, b)
<1>. HIDE DEF t, r
<1>4. \A k \in i .. j : r[k] \in Nat
  BY <1>1 DEF r
<1>5. SubSeq(r, i, j) \in Seq(Nat) /\ Len(SubSeq(r, i, j)) = j - i + 1
  BY <1>4, SubSeqProperties, i <= j + 1, i \in Int, j \in Int
<1>6. \A k \in 1 .. j - i + 1 : SubSeq(r, i, j)[k] = a + i + k - 2
  <2> TAKE k \in 1 .. j - i + 1
  <2>1. SubSeq(r, i, j)[k] = r[i + k - 1]
    BY <1>4, SubSeqProperties, i \in Int, j \in Int
  <2>. QED
    BY <2>1, <1>1 DEF r
<1>7. Len(t) = j - i + 1 /\ t \in Seq(Nat)
  BY <1>3 DEF t
<1>8. \A k \in 1 .. Len(t) : SubSeq(r, i, j)[k] = t[k]
  <2> TAKE k \in 1 .. Len(t)
  <2>1. t[k] = a + i - 1 + k - 1
    BY <1>3, <1>7 DEF t
  <2>. QED
    BY <1>6, <1>7, <2>1
<1>. QED
  BY <1>5, <1>7, <1>8, SeqEqual DEF t, r

\* The ring after n bytes, and after a chunk more.
LEMMA RingKeeps ==
  ASSUME NEW n \in Nat, NEW m \in Nat, n <= m
  PROVE  LastOf(Kept(n) \o Run(n + 1, m), ScrollCap) = Kept(m)
<1>0. \A f \in Nat \ {0}, i \in Nat \ {0}, j \in Nat :
        f <= m + 1 /\ i <= j + 1 /\ j <= m - f + 1 => SubSeq(Run(f, m), i, j) = Run(f + i - 1, f + j - 1)
  BY PartOfRun, ZenonT(30)
<1>. USE SizesAssumption
<1>1. Oldest(n) \in Nat \ {0} /\ Oldest(n) <= n + 1 /\ Oldest(n) <= m + 1
  BY DEF Oldest
<1>2. Kept(n) \o Run(n + 1, m) = Run(Oldest(n), m)
  BY <1>1, RunsMeet DEF Kept
<1>. DEFINE r == Run(Oldest(n), m)
<1>3. Len(r) = m - Oldest(n) + 1
  BY <1>1, RunIsSeq
<1>. HIDE DEF r
<1>4. CASE Len(r) > ScrollCap
  <2>1. SubSeq(r, Len(r) - ScrollCap + 1, Len(r)) = Run(Oldest(n) + (Len(r) - ScrollCap + 1) - 1, Oldest(n) + Len(r) - 1)
    <3>1. /\ Len(r) \in Nat /\ Len(r) - ScrollCap + 1 \in Nat \ {0}
          /\ Len(r) - ScrollCap + 1 <= Len(r) + 1 /\ Len(r) <= m - Oldest(n) + 1
      BY <1>1, <1>3, <1>4
    <3>2. \A i \in Nat \ {0}, j \in Nat : i <= j + 1 /\ j <= m - Oldest(n) + 1 =>
            SubSeq(r, i, j) = Run(Oldest(n) + i - 1, Oldest(n) + j - 1)
      <4>1. Oldest(n) \in Nat \ {0} /\ Oldest(n) <= m + 1
        BY <1>1
      <4>. QED
        BY <4>1, <1>0 DEF r
    <3>. QED
      BY <3>1, <3>2
  <2>2. m > ScrollCap /\ Oldest(m) = m - ScrollCap + 1
    BY <1>1, <1>3, <1>4 DEF Oldest
  <2>3. Oldest(n) + (Len(r) - ScrollCap + 1) - 1 = Oldest(m) /\ Oldest(n) + Len(r) - 1 = m
    BY <2>2, <1>1, <1>3
  <2>. QED
    BY <2>1, <2>3, <1>2, <1>4 DEF LastOf, Kept, r
<1>5. CASE ~(Len(r) > ScrollCap)
  <2>1. Oldest(n) = Oldest(m)
    BY <1>1, <1>3, <1>5 DEF Oldest
  <2>. QED
    BY <2>1, <1>2, <1>5 DEF LastOf, Kept, r
<1>. QED
  BY <1>4, <1>5

\* A chunk more in the log leaves the earlier messages where they were.
LEMMA LogGrows ==
  ASSUME NEW l, IsLog(l), NEW m \in Nat, m > End(l, Len(l))
  PROVE  LET k == Append(l, Run(End(l, Len(l)) + 1, m))
         IN  /\ IsLog(k) /\ Len(k) = Len(l) + 1 /\ k[Len(k)] = Run(End(l, Len(l)) + 1, m)
             /\ \A i \in 1 .. Len(l) : k[i] = l[i]
             /\ \A i \in 0 .. Len(l) : End(k, i) = End(l, i)
             /\ End(k, Len(k)) = m
<1>. DEFINE c == Run(End(l, Len(l)) + 1, m)
            k == Append(l, c)
<1>1. l \in Seq(Seq(Nat)) /\ Len(l) \in Nat /\ \A i \in 0 .. Len(l) : End(l, i) \in Nat
  BY DEF IsLog
<1>2. End(l, Len(l)) \in Nat
  BY <1>1
<1>3. /\ c \in Seq(Nat) /\ Len(c) = m - End(l, Len(l))
      /\ \A i \in 1 .. m - End(l, Len(l)) : c[i] = End(l, Len(l)) + i
  <2>1. /\ c \in Seq(Nat) /\ Len(c) = m - (End(l, Len(l)) + 1) + 1
        /\ \A i \in 1 .. m - (End(l, Len(l)) + 1) + 1 : c[i] = End(l, Len(l)) + 1 + i - 1
    <3>1. End(l, Len(l)) + 1 \in Nat /\ End(l, Len(l)) + 1 <= m + 1
      BY <1>2
    <3>. QED
      BY <3>1, RunIsSeq
  <2>. QED
    BY <2>1, <1>2
<1>. HIDE DEF c
<1>4. k \in Seq(Seq(Nat)) /\ Len(k) = Len(l) + 1 /\ k[Len(l) + 1] = c /\ \A i \in 1 .. Len(l) : k[i] = l[i]
  BY <1>1, <1>3, AppendProperties
<1>. HIDE DEF k
<1>5. \A i \in 0 .. Len(l) : End(k, i) = End(l, i)
  BY <1>1, <1>4 DEF End
<1>6. End(k, Len(l) + 1) = m
  <2>1. End(k, Len(l) + 1) = c[Len(c)]
    BY <1>1, <1>4 DEF End
  <2>. QED
    BY <2>1, <1>2, <1>3
<1>7. \A i \in 0 .. Len(k) : End(k, i) \in Nat
  <2> TAKE i \in 0 .. Len(k)
  <2>1. i \in 0 .. Len(l) \/ i = Len(l) + 1
    BY <1>1, <1>4
  <2>. QED
    BY <2>1, <1>1, <1>5, <1>6
<1>8. \A i \in 1 .. Len(k) : k[i] = Run(End(k, i - 1) + 1, End(k, i))
  <2> TAKE i \in 1 .. Len(k)
  <2>1. CASE i <= Len(l)
    <3>1. i \in 1 .. Len(l) /\ i - 1 \in 0 .. Len(l) /\ i \in 0 .. Len(l)
      BY <2>1, <1>1, <1>4
    <3>. QED
      BY <3>1, <1>4, <1>5 DEF IsLog
  <2>2. CASE i = Len(l) + 1
    <3>1. i - 1 = Len(l) /\ Len(l) \in 0 .. Len(l)
      BY <2>2, <1>1
    <3>. QED
      BY <3>1, <2>2, <1>4, <1>5, <1>6 DEF c
  <2>. QED
    BY <2>1, <2>2, <1>1, <1>4
<1>9. \A i, j \in 0 .. Len(k) : j <= i => End(k, j) + (i - j) <= End(k, i)
  <2> SUFFICES ASSUME NEW i \in 0 .. Len(k), NEW j \in 0 .. Len(k), j <= i
               PROVE  End(k, j) + (i - j) <= End(k, i)
    OBVIOUS
  <2>1. CASE i <= Len(l)
    <3>1. i \in 0 .. Len(l) /\ j \in 0 .. Len(l)
      BY <2>1, <1>1
    <3>. QED
      BY <3>1, <1>5 DEF IsLog
  <2>2. CASE i = Len(l) + 1 /\ j <= Len(l)
    <3>1. j \in 0 .. Len(l) /\ Len(l) \in 0 .. Len(l)
      BY <2>2, <1>1
    <3>2. End(l, j) + (Len(l) - j) <= End(l, Len(l))
      BY <3>1 DEF IsLog
    <3>3. End(l, j) \in Nat
      BY <3>1, <1>1
    <3>. QED
      BY <3>1, <3>2, <3>3, <2>2, <1>1, <1>2, <1>5, <1>6
  <2>3. CASE i = Len(l) + 1 /\ j = Len(l) + 1
    BY <2>3, <1>7
  <2>. QED
    BY <2>1, <2>2, <2>3, <1>1, <1>4
<1>10. IsLog(k)
  BY <1>4, <1>7, <1>8, <1>9 DEF IsLog
<1>. QED
  BY <1>4, <1>5, <1>6, <1>10 DEF k, c

\* The run of the next bytes.
LEMMA NextRun ==
  ASSUME NEW w \in Nat, NEW size \in Nat
  PROVE  Run(w + 1, w + size) \in Seq(Nat) /\ Len(Run(w + 1, w + size)) = size
<1>1. w + 1 \in Nat /\ w + size \in Nat /\ w + 1 <= w + size + 1 /\ w + size - (w + 1) + 1 = size
  OBVIOUS
<1>. QED
  BY <1>1, RunIsSeq

\* Bytes taken from the front of a run join those read before it.
LEMMA ReadSplits ==
  ASSUME NEW x \in Nat, NEW e \in Nat, x <= e, NEW n \in Nat, n <= e - x
  PROVE  /\ SubSeq(Run(x + 1, e), 1, n) = Run(x + 1, x + n)
         /\ SubSeq(Run(x + 1, e), n + 1, e - x) = Run(x + n + 1, e)
         /\ Run(1, x) \o Run(x + 1, x + n) = Run(1, x + n)
         /\ Run(1, x + n) \in Seq(Nat) /\ Len(Run(1, x + n)) = x + n
         /\ Run(x + n + 1, e) \in Seq(Nat)
<1>1. PICK c \in Nat \ {0} : c = x + 1 /\ c <= e + 1
  OBVIOUS
<1>2. SubSeq(Run(c, e), 1, n) = Run(c + 1 - 1, c + n - 1)
  <2>1. 1 \in Nat \ {0} /\ 1 <= n + 1 /\ n <= e - c + 1
    BY <1>1
  <2>. QED
    BY <1>1, <2>1, PartOfRun
<1>3. SubSeq(Run(c, e), n + 1, e - x) = Run(c + (n + 1) - 1, c + (e - x) - 1)
  <2>1. PICK i \in Nat \ {0}, j \in Nat : i = n + 1 /\ j = e - x /\ i <= j + 1 /\ j <= e - c + 1
    BY <1>1
  <2>2. SubSeq(Run(c, e), i, j) = Run(c + i - 1, c + j - 1)
    <3>1. c <= e + 1 /\ i <= j + 1 /\ j <= e - c + 1
      BY <1>1, <2>1
    <3>. QED
      BY <3>1, PartOfRun, ZenonT(30)
  <2>. QED
    BY <2>1, <2>2
<1>4. c + 1 - 1 = x + 1 /\ c + n - 1 = x + n /\ c + (n + 1) - 1 = x + n + 1 /\ c + (e - x) - 1 = e
  BY <1>1
<1>5. Run(1, x) \o Run(x + 1, x + n) = Run(1, x + n)
  BY RunsMeet, 1 <= x + 1, x <= x + n, x + n \in Nat
<1>6. Run(1, x + n) \in Seq(Nat) /\ Len(Run(1, x + n)) = x + n
  BY RunIsSeq, 1 <= x + n + 1, x + n \in Nat, x + n - 1 + 1 = x + n
<1>7. Run(x + n + 1, e) \in Seq(Nat)
  BY RunIsSeq, x + n + 1 \in Nat, x + n + 1 <= e + 1
<1>. QED
  BY <1>1, <1>2, <1>3, <1>4, <1>5, <1>6, <1>7

\* What was written is the end of the log.
LEMMA WrittenIsEnd ==
  ASSUME IsLog(log)
  PROVE  Written = End(log, Len(log)) /\ Written \in Nat /\ Len(log) \in Nat
<1>1. log \in Seq(Seq(Nat)) /\ Len(log) \in Nat
  BY DEF IsLog
<1>2. log = <<>> <=> Len(log) = 0
  BY <1>1, EmptySeq
<1>3. End(log, Len(log)) \in Nat
  BY <1>1 DEF IsLog
<1>. QED
  BY <1>1, <1>2, <1>3 DEF Written, End

\* A log that grows takes nothing from a viewer that is still owed what it lacks.
LEMMA ViewerWaits ==
  ASSUME NEW l, IsLog(l), NEW k, IsLog(k), Len(k) = Len(l) + 1,
         \A i \in 0 .. Len(l) : End(k, i) = End(l, i),
         NEW r \in ViewerRecords, SoundViewer(r, l)
  PROVE  SoundViewer(r, k)
<1>1. Len(l) \in Nat /\ Len(k) \in Nat
  BY DEF IsLog
<1>2. ASSUME r.step = "stream" PROVE Streams(r, k)
  <2>1. Streams(r, l) /\ r.next \in 1 .. Len(l) + 1
    BY <1>2 DEF SoundViewer, Streams
  <2>2. r.next - 1 \in 0 .. Len(l) /\ r.next \in 1 .. Len(k) + 1
    BY <2>1, <1>1
  <2>3. End(k, r.next - 1) = End(l, r.next - 1) /\ Given(r, k) = Given(r, l)
    BY <2>2 DEF Given
  <2>4. End(l, Len(l)) \in Nat /\ End(k, Len(k)) \in Nat /\ End(l, Len(l)) <= End(k, Len(k))
    <3>1. Len(l) \in 0 .. Len(l) /\ Len(l) \in 0 .. Len(k) /\ Len(k) \in 0 .. Len(k) /\ Len(l) <= Len(k)
      BY <1>1
    <3>2. End(k, Len(l)) + (Len(k) - Len(l)) <= End(k, Len(k)) /\ End(k, Len(l)) \in Nat /\ End(k, Len(k)) \in Nat
      BY <3>1 DEF IsLog
    <3>. QED
      BY <3>1, <3>2, <1>1
  <2>5. End(l, r.next - 1) \in Nat /\ Len(r.out) \in Nat /\ BusCap \in Nat
    BY <2>2, SizesAssumption DEF IsLog, ViewerRecords
  <2>. QED
    BY <2>1, <2>2, <2>3, <2>4, <2>5 DEF Streams, Given
<1>. QED
  BY <1>2 DEF SoundViewer

\* The bridge alone moves on: the log and the viewers stay.
LEMMA BridgeKeeps ==
  ASSUME OutputInv, (\E size \in ChunkSizes : BridgeReceives(size)) \/ BridgeLocks \/ BridgePushes \/ BridgeExits
  PROVE  OutputInv'
<1>. USE DEF OutputInv
<1>0. Written \in Nat /\ Written' = Written
  BY WrittenIsEnd DEF Written, BridgeReceives, BridgeLocks, BridgePushes, BridgeExits
<1>1. CASE \E size \in ChunkSizes : BridgeReceives(size)
  <2>1. PICK size \in ChunkSizes : BridgeReceives(size)
    BY <1>1
  <2>2. size \in Nat \ {0}
    BY <1>0, SizesAssumption
  <2>3. /\ Run(Written + 1, Written + size) \in Seq(Nat)
        /\ Len(Run(Written + 1, Written + size)) = size
    BY <1>0, <2>2, NextRun
  <2>4. /\ bridge' = [step |-> "lock", chunk |-> Run(Written + 1, Written + size)]
        /\ bridge.step = "recv"
        /\ UNCHANGED <<lock, ring, log, queue, buffer, local, reader, viewer>>
    BY <2>1 DEF BridgeReceives
  <2>5. BridgeInv'
    <3>1. Len(bridge'.chunk) = size /\ bridge'.chunk \in Seq(Nat) /\ bridge'.chunk = Run(Written + 1, Written + size)
      BY <2>2, <2>3, <2>4, <1>0
    <3>2. bridge'.chunk # <<>>
      BY <3>1, <2>2
    <3>3. bridge' \in [step : {"recv", "lock", "push", "send", "forward", "done"}, chunk : Seq(Nat)]
      BY <2>4, <3>1
    <3>. QED
      BY <2>4, <3>1, <3>2, <3>3, <1>0 DEF BridgeInv
  <2>6. LockInv' /\ RingInv' /\ LocalInv' /\ ViewersInv' /\ IsLog(log)'
    BY <2>4, <1>0 DEF LockInv, RingInv, LocalInv, ViewersInv, Sent
  <2>. QED
    BY <2>5, <2>6
<1>2. CASE BridgeLocks
  <2>1. /\ bridge.step = "lock" /\ lock = {} /\ lock' = {"bridge"} /\ bridge' = [bridge EXCEPT !.step = "push"]
        /\ UNCHANGED <<ring, log, queue, buffer, local, reader, viewer>>
    BY <1>2 DEF BridgeLocks
  <2>2. bridge'.step = "push" /\ bridge'.chunk = bridge.chunk
        /\ bridge' \in [step : {"recv", "lock", "push", "send", "forward", "done"}, chunk : Seq(Nat)]
    BY <2>1 DEF BridgeInv
  <2>3. BridgeInv'
    BY <2>1, <2>2, <1>0 DEF BridgeInv
  <2>4. LockInv'
    BY <2>1, <2>2, PromptAssumption DEF LockInv
  <2>5. RingInv' /\ LocalInv' /\ ViewersInv' /\ IsLog(log)'
    BY <2>1, <2>2, <1>0 DEF RingInv, LocalInv, ViewersInv, Sent
  <2>. QED
    BY <2>3, <2>4, <2>5
<1>3. CASE BridgePushes
  <2>1. /\ bridge.step = "push" /\ ring' = LastOf(ring \o bridge.chunk, ScrollCap)
        /\ bridge' = [bridge EXCEPT !.step = "send"]
        /\ UNCHANGED <<lock, log, queue, buffer, local, reader, viewer>>
    BY <1>3 DEF BridgePushes
  <2>2. bridge'.step = "send" /\ bridge'.chunk = bridge.chunk
        /\ bridge' \in [step : {"recv", "lock", "push", "send", "forward", "done"}, chunk : Seq(Nat)]
    BY <2>1 DEF BridgeInv
  <2>3. BridgeInv' /\ LockInv'
    BY <2>1, <2>2, <1>0 DEF BridgeInv, LockInv
  <2>4. RingInv'
    <3>1. ring = Kept(Written) /\ bridge.chunk = Run(Written + 1, Written + Len(bridge.chunk)) /\ Len(bridge.chunk) \in Nat
      BY <2>1 DEF RingInv, BridgeInv
    <3>2. LastOf(Kept(Written) \o Run(Written + 1, Written + Len(bridge.chunk)), ScrollCap) = Kept(Written + Len(bridge.chunk))
      BY <1>0, <3>1, RingKeeps, Written + Len(bridge.chunk) \in Nat, Written <= Written + Len(bridge.chunk)
    <3>. QED
      BY <2>1, <2>2, <1>0, <3>1, <3>2 DEF RingInv
  <2>5. \A v \in Viewers : viewer[v].step # "subscribe"
    BY <2>1, PromptAssumption DEF LockInv
  <2>6. LocalInv' /\ ViewersInv' /\ IsLog(log)'
    BY <2>1, <2>2, <2>5, <1>0 DEF LocalInv, ViewersInv, Sent
  <2>. QED
    BY <2>3, <2>4, <2>6
<1>4. CASE BridgeExits
  <2>1. /\ bridge.step = "recv" /\ bridge' = [bridge EXCEPT !.step = "done"]
        /\ UNCHANGED <<lock, ring, log, queue, buffer, local, reader, viewer>>
    BY <1>4 DEF BridgeExits
  <2>2. bridge'.step = "done" /\ bridge'.chunk = bridge.chunk
        /\ bridge' \in [step : {"recv", "lock", "push", "send", "forward", "done"}, chunk : Seq(Nat)]
    BY <2>1 DEF BridgeInv
  <2>. QED
    BY <2>1, <2>2, <1>0 DEF BridgeInv, LockInv, RingInv, LocalInv, ViewersInv, Sent
<1>. QED
  BY <1>1, <1>2, <1>3, <1>4

\* A chunk that is sent lengthens the log by the run it is.
LEMMA SendGrows ==
  ASSUME OutputInv, BridgeSends
  PROVE  /\ IsLog(log') /\ Len(log') = Len(log) + 1 /\ log'[Len(log')] = bridge.chunk
         /\ \A i \in 1 .. Len(log) : log'[i] = log[i]
         /\ \A i \in 0 .. Len(log) : End(log', i) = End(log, i)
         /\ Written' = Written + Len(bridge.chunk) /\ Written' > Written
<1>. USE DEF OutputInv
<1>1. /\ Written \in Nat /\ Written = End(log, Len(log)) /\ Len(log) \in Nat
  BY WrittenIsEnd
<1>2. /\ bridge.chunk = Run(Written + 1, Written + Len(bridge.chunk))
      /\ bridge.chunk # <<>> /\ bridge.chunk \in Seq(Nat)
  BY DEF BridgeSends, BridgeInv
<1>3. Len(bridge.chunk) \in Nat /\ Len(bridge.chunk) > 0
  BY <1>2, EmptySeq
<1>. DEFINE m == Written + Len(bridge.chunk)
<1>4. m \in Nat /\ m > End(log, Len(log)) /\ bridge.chunk = Run(End(log, Len(log)) + 1, m)
  BY <1>1, <1>2, <1>3
<1>. HIDE DEF m
<1>5. log' = Append(log, bridge.chunk)
  BY DEF BridgeSends
<1>6. /\ IsLog(log') /\ Len(log') = Len(log) + 1 /\ log'[Len(log')] = bridge.chunk
      /\ \A i \in 1 .. Len(log) : log'[i] = log[i]
      /\ \A i \in 0 .. Len(log) : End(log', i) = End(log, i)
      /\ End(log', Len(log')) = m
  BY <1>4, <1>5, LogGrows
<1>7. Written' = m
  <2>1. log' # <<>>
    BY <1>6, <1>1, EmptySeq
  <2>2. Len(log') # 0
    BY <1>6, <1>1
  <2>. QED
    BY <1>6, <2>1, <2>2 DEF Written, End
<1>. QED
  BY <1>6, <1>7, <1>1, <1>3 DEF m

\* A chunk sent leaves the ring what was broadcast, and is next for the local reader.
LEMMA SendKeeps ==
  ASSUME OutputInv, BridgeSends
  PROVE  OutputInv'
<1>. USE DEF OutputInv
<1>1. /\ IsLog(log') /\ Len(log') = Len(log) + 1 /\ log'[Len(log')] = bridge.chunk
      /\ \A i \in 1 .. Len(log) : log'[i] = log[i]
      /\ \A i \in 0 .. Len(log) : End(log', i) = End(log, i)
      /\ Written' = Written + Len(bridge.chunk) /\ Written' > Written
  BY SendGrows
<1>2. /\ bridge.step = "send" /\ lock' = lock \ {"bridge"} /\ bridge' = [bridge EXCEPT !.step = "forward"]
      /\ UNCHANGED <<ring, queue, buffer, local, reader, viewer>>
  BY DEF BridgeSends
<1>3. bridge'.step = "forward" /\ bridge'.chunk = bridge.chunk
      /\ bridge' \in [step : {"recv", "lock", "push", "send", "forward", "done"}, chunk : Seq(Nat)]
  BY <1>2 DEF BridgeInv
<1>4. Len(log) \in Nat
  BY WrittenIsEnd
<1>5. BridgeInv'
  <2>1. log' # <<>>
    BY <1>1, <1>4, EmptySeq
  <2>. QED
    BY <2>1, <1>1, <1>3 DEF BridgeInv
<1>6. LockInv'
  BY <1>2, <1>3, PromptAssumption DEF LockInv
<1>7. RingInv'
  BY <1>1, <1>2, <1>3 DEF RingInv
<1>8. LocalInv'
  <2>1. Sent' = Sent /\ Sent = Len(log)
    BY <1>1, <1>2, <1>3, <1>4 DEF Sent
  <2>2. reader # "eof"
    BY <1>2 DEF LocalInv
  <2>3. ASSUME reader = "reading"
        PROVE  /\ \A i \in 1 .. Len(queue) : queue[i] = log'[Sent - Len(queue) + i]
               /\ End(log', Sent - Len(queue)) = End(log, Sent - Len(queue))
    <3>1. Len(queue) \in Nat /\ Len(queue) <= Len(log)
      BY <2>1, <2>3 DEF LocalInv
    <3>2. \A i \in 1 .. Len(queue) : Sent - Len(queue) + i \in 1 .. Len(log)
      BY <3>1, <2>1, <1>4
    <3>3. Sent - Len(queue) \in 0 .. Len(log)
      BY <3>1, <2>1, <1>4
    <3>. QED
      BY <3>2, <3>3, <1>1, <2>3 DEF LocalInv
  <2>. QED
    BY <1>2, <2>1, <2>2, <2>3 DEF LocalInv
<1>9. ViewersInv'
  <2>1. ASSUME NEW v \in Viewers PROVE SoundViewer(viewer[v], log')
    BY <1>1, ViewerWaits DEF ViewersInv
  <2>. QED
    BY <2>1, <1>2 DEF ViewersInv
<1>. QED
  BY <1>1, <1>5, <1>6, <1>7, <1>8, <1>9

\* A chunk handed over follows those already in the local reader's queue.
LEMMA ForwardKeeps ==
  ASSUME OutputInv, BridgeForwards
  PROVE  OutputInv'
<1>. USE DEF OutputInv
<1>0. Written' = Written /\ Len(log) \in Nat
  BY WrittenIsEnd DEF Written, BridgeForwards
<1>1. bridge.step = "forward" /\ UNCHANGED <<lock, ring, log, buffer, local, reader, viewer>>
  BY DEF BridgeForwards
<1>2. bridge'.step \in {"recv", "done"} /\ bridge'.chunk = bridge.chunk
      /\ bridge' \in [step : {"recv", "lock", "push", "send", "forward", "done"}, chunk : Seq(Nat)]
  BY DEF BridgeForwards, BridgeInv
<1>3. BridgeInv' /\ LockInv' /\ RingInv' /\ ViewersInv' /\ IsLog(log)'
  BY <1>0, <1>1, <1>2 DEF BridgeInv, LockInv, RingInv, ViewersInv
<1>4. reader # "eof"
  BY <1>1 DEF LocalInv
<1>5. CASE reader = "dropped"
  BY <1>0, <1>1, <1>2, <1>3, <1>5 DEF LocalInv, BridgeForwards, Sent
<1>6. CASE reader = "reading"
  <2>1. queue' = Append(queue, bridge.chunk) /\ bridge.chunk = log[Len(log)] /\ log # <<>>
    BY <1>1, <1>6 DEF BridgeForwards, BridgeInv
  <2>2. Sent = Len(log) - 1 /\ Sent' = Len(log) /\ Len(log) > 0
    BY <1>0, <1>1, <1>2, <2>1, EmptySeq DEF Sent, IsLog
  <2>3. queue \in Seq(Seq(Nat)) /\ bridge.chunk \in Seq(Nat) /\ Len(queue) \in Nat /\ Len(queue) <= Sent
    BY <1>6 DEF LocalInv, BridgeInv
  <2>4. queue' \in Seq(Seq(Nat)) /\ Len(queue') = Len(queue) + 1
        /\ queue'[Len(queue) + 1] = bridge.chunk /\ \A i \in 1 .. Len(queue) : queue'[i] = queue[i]
    BY <2>1, <2>3, AppendProperties
  <2>5. Sent' - Len(queue') = Sent - Len(queue) /\ Len(queue') <= Sent'
    BY <2>2, <2>3, <2>4, <1>0
  <2>6. \A i \in 1 .. Len(queue') : queue'[i] = log[Sent - Len(queue) + i]
    <3> TAKE i \in 1 .. Len(queue')
    <3>1. CASE i \in 1 .. Len(queue)
      BY <3>1, <2>4, <1>6 DEF LocalInv
    <3>2. CASE i = Len(queue) + 1
      <4>1. Sent - Len(queue) + i = Len(log)
        BY <3>2, <2>2, <2>3, <1>0
      <4>. QED
        BY <4>1, <3>2, <2>1, <2>4
    <3>. QED
      BY <3>1, <3>2, <2>3, <2>4
  <2>. QED
    BY <1>1, <1>3, <1>6, <2>4, <2>5, <2>6 DEF LocalInv
<1>. QED
  BY <1>4, <1>5, <1>6 DEF LocalInv

\* A read at the desktop takes the next bytes, whole chunk or part.
LEMMA ReadKeeps ==
  ASSUME OutputInv, NEW size \in ReadSizes, LocalReads(size)
  PROVE  OutputInv'
<1>. USE DEF OutputInv
<1>. DEFINE source == IF buffer # <<>> THEN buffer ELSE Head(queue)
            n == IF Len(source) < size THEN Len(source) ELSE size
            k == IF buffer # <<>> THEN Sent - Len(queue) ELSE Sent - Len(queue) + 1
<1>1. /\ reader = "reading" /\ (buffer # <<>> \/ queue # <<>>)
      /\ local' = local \o SubSeq(source, 1, n)
      /\ buffer' = SubSeq(source, n + 1, Len(source))
      /\ queue' = IF buffer # <<>> THEN queue ELSE Tail(queue)
      /\ UNCHANGED <<bridge, lock, ring, log, reader, viewer>>
  BY DEF LocalReads
<1>2. Written' = Written /\ Sent' = Sent /\ Sent \in Nat /\ Sent <= Len(log) /\ Len(log) \in Nat
  <2>1. bridge.step = "forward" => Len(log) > 0
    BY EmptySeq DEF BridgeInv, IsLog
  <2>. QED
    BY <1>1, <2>1, WrittenIsEnd DEF Written, Sent
<1>3. /\ queue \in Seq(Seq(Nat)) /\ buffer \in Seq(Nat) /\ local \in Seq(Nat) /\ local = Run(1, Len(local))
      /\ Len(queue) <= Sent /\ Len(queue) \in Nat /\ Len(local) \in Nat
      /\ \A i \in 1 .. Len(queue) : queue[i] = log[Sent - Len(queue) + i]
      /\ buffer = Run(Len(local) + 1, End(log, Sent - Len(queue)))
      /\ Len(local) <= End(log, Sent - Len(queue))
  <2>1. LocalInv /\ reader = "reading"
    BY <1>1
  <2>2. Len(queue) \in Nat /\ Len(local) \in Nat
    BY <2>1 DEF LocalInv
  <2>. QED
    BY <2>1, <2>2 DEF LocalInv
<1>4. BridgeInv' /\ LockInv' /\ RingInv' /\ ViewersInv' /\ IsLog(log)'
  BY <1>1, <1>2 DEF BridgeInv, LockInv, RingInv, ViewersInv
<1>5. size \in Nat \ {0}
  BY SizesAssumption
<1>6. Sent - Len(queue) \in 0 .. Len(log)
  BY <1>2, <1>3
\* The bytes at hand run from the first one not read to the end of a message.
<1>7. /\ k \in 0 .. Len(log) /\ source = Run(Len(local) + 1, End(log, k)) /\ Len(local) <= End(log, k)
      /\ queue' \in Seq(Seq(Nat)) /\ Len(queue') <= Sent /\ Sent - Len(queue') = k
      /\ \A i \in 1 .. Len(queue') : queue'[i] = log[k + i]
  <2>1. CASE buffer # <<>>
    BY <2>1, <1>1, <1>2, <1>3, <1>6
  <2>2. CASE buffer = <<>>
    <3>1. queue # <<>> /\ Len(queue) > 0 /\ source = queue[1] /\ queue' = Tail(queue)
      BY <2>2, <1>1, <1>3, EmptySeq, HeadTailProperties
    <3>2. queue' \in Seq(Seq(Nat)) /\ Len(queue') = Len(queue) - 1 /\ \A i \in 1 .. Len(queue) - 1 : queue'[i] = queue[i + 1]
      BY <3>1, <1>3, HeadTailProperties
    <3>3. k = Sent - Len(queue) + 1 /\ k \in 1 .. Len(log) /\ k - 1 = Sent - Len(queue)
      BY <2>2, <3>1, <1>2, <1>3
    <3>4. source = log[k] /\ log[k] = Run(End(log, k - 1) + 1, End(log, k))
      <4>1. Len(queue) \in Nat /\ 1 \in 1 .. Len(queue) /\ Sent - Len(queue) + 1 = k
        BY <3>1, <3>3, <1>3
      <4>2. source = log[k]
        BY <4>1, <3>1, <1>3
      <4>. QED
        BY <4>2, <3>3 DEF IsLog
    <3>5. Len(local) = End(log, k - 1)
      <4>1. End(log, k - 1) \in Nat
        BY <1>6, <3>3 DEF IsLog
      <4>2. Len(Run(Len(local) + 1, End(log, k - 1))) = End(log, k - 1) - (Len(local) + 1) + 1
        BY <4>1, <1>3, <3>3, RunIsSeq, Len(local) + 1 \in Nat, Len(local) + 1 <= End(log, k - 1) + 1
      <4>3. Len(<<>>) = 0 /\ buffer = Run(Len(local) + 1, End(log, k - 1))
        BY <1>3, <3>3, EmptySeq
      <4>. QED
        BY <4>1, <4>2, <4>3, <2>2, <1>3
    <3>6. End(log, k - 1) + 1 <= End(log, k) /\ End(log, k) \in Nat /\ End(log, k - 1) \in Nat
      <4>1. k \in 0 .. Len(log) /\ k - 1 \in 0 .. Len(log) /\ k - 1 <= k /\ k - (k - 1) = 1
        BY <3>3, <1>2
      <4>. QED
        BY <4>1 DEF IsLog
    <3>7. \A i \in 1 .. Len(queue') : queue'[i] = log[k + i]
      <4> TAKE i \in 1 .. Len(queue')
      <4>1. i + 1 \in 1 .. Len(queue) /\ i \in 1 .. Len(queue) - 1
        BY <3>2, <1>3
      <4>2. Sent - Len(queue) + (i + 1) = k + i
        BY <4>1, <3>3, <1>2, <1>3
      <4>. QED
        BY <4>1, <4>2, <3>2, <1>3
    <3>. QED
      BY <3>2, <3>3, <3>4, <3>5, <3>6, <3>7, <1>2, <1>3, SMTT(30)
  <2>. QED
    BY <2>1, <2>2
<1>. HIDE DEF source, k
<1>8. End(log, k) \in Nat /\ Len(source) = End(log, k) - Len(local)
  <2>1. End(log, k) \in Nat
    BY <1>7 DEF IsLog
  <2>2. Len(source) = End(log, k) - (Len(local) + 1) + 1
    BY <2>1, <1>3, <1>7, RunIsSeq, Len(local) + 1 \in Nat, Len(local) + 1 <= End(log, k) + 1
  <2>. QED
    BY <2>1, <2>2, <1>3
<1>9. n \in Nat /\ n <= Len(source) /\ Len(source) \in Nat
  BY <1>3, <1>5, <1>7, <1>8
<1>. HIDE DEF n
<1>10. PICK x \in Nat, e \in Nat : x = Len(local) /\ e = End(log, k)
  BY <1>3, <1>8
<1>11. x <= e /\ n <= e - x /\ Len(source) = e - x /\ source = Run(x + 1, e) /\ local = Run(1, x)
  BY <1>3, <1>7, <1>8, <1>9, <1>10
<1>12. /\ local' = Run(1, x + n) /\ local' \in Seq(Nat) /\ Len(local') = x + n
       /\ buffer' = Run(x + n + 1, e) /\ buffer' \in Seq(Nat) /\ x + n <= e
  <2>1. /\ SubSeq(source, 1, n) = Run(x + 1, x + n)
        /\ SubSeq(source, n + 1, Len(source)) = Run(x + n + 1, e)
        /\ Run(1, x) \o Run(x + 1, x + n) = Run(1, x + n)
        /\ Run(1, x + n) \in Seq(Nat) /\ Len(Run(1, x + n)) = x + n
        /\ Run(x + n + 1, e) \in Seq(Nat)
    <3>1. /\ SubSeq(Run(x + 1, e), 1, n) = Run(x + 1, x + n)
          /\ SubSeq(Run(x + 1, e), n + 1, e - x) = Run(x + n + 1, e)
      BY <1>9, <1>11, ReadSplits, ZenonT(30)
    <3>2. /\ Run(1, x) \o Run(x + 1, x + n) = Run(1, x + n)
          /\ Run(1, x + n) \in Seq(Nat) /\ Len(Run(1, x + n)) = x + n
          /\ Run(x + n + 1, e) \in Seq(Nat)
      BY <1>9, <1>11, ReadSplits, ZenonT(30)
    <3>. QED
      BY <3>1, <3>2, <1>11
  <2>2. x + n <= e
    BY <1>9, <1>11
  <2>. QED
    BY <1>1, <1>11, <2>1, <2>2
<1>13. LocalInv'
  BY <1>1, <1>2, <1>7, <1>10, <1>12 DEF LocalInv
<1>. QED
  BY <1>4, <1>13

\* The desktop is told of the end when nothing is left; or its terminal goes.
LEMMA LocalEndKeeps ==
  ASSUME OutputInv, LocalEnds \/ LocalDropped
  PROVE  OutputInv'
<1>. USE DEF OutputInv
<1>1. Written' = Written /\ Sent' = Sent /\ Written = End(log, Len(log)) /\ Written \in Nat /\ Len(log) \in Nat
  BY WrittenIsEnd DEF Written, Sent, LocalEnds, LocalDropped
<1>2. BridgeInv' /\ LockInv' /\ RingInv' /\ ViewersInv' /\ IsLog(log)'
  BY <1>1 DEF BridgeInv, LockInv, RingInv, ViewersInv, LocalEnds, LocalDropped
<1>3. CASE LocalEnds
  <2>1. reader = "reading" /\ buffer = <<>> /\ queue = <<>> /\ bridge.step = "done" /\ Sent = Len(log)
    BY <1>3 DEF LocalEnds, Sent
  <2>2. Len(queue) = 0 /\ Len(buffer) = 0
    BY <2>1, EmptySeq
  <2>3. buffer = Run(Len(local) + 1, Written) /\ Len(local) <= Written /\ Len(local) \in Nat
    BY <2>1, <2>2, <1>1 DEF LocalInv
  <2>4. Len(Run(Len(local) + 1, Written)) = Written - (Len(local) + 1) + 1
    BY <2>3, <1>1, RunIsSeq, Len(local) + 1 \in Nat, Len(local) + 1 <= Written + 1
  <2>5. Len(local) = Written
    BY <2>2, <2>3, <2>4, <1>1
  <2>. QED
    BY <2>1, <2>5, <1>1, <1>2, <1>3 DEF LocalInv, LocalEnds
<1>4. CASE LocalDropped
  BY <1>1, <1>2, <1>4 DEF LocalInv, LocalDropped
<1>. QED
  BY <1>3, <1>4

\* A run that ends before it begins is empty; any other ends with its last byte.
LEMMA RunEnds ==
  ASSUME NEW a \in Nat \ {0}, NEW b \in Nat, a <= b + 1
  PROVE  /\ a = b + 1 <=> Run(a, b) = <<>>
         /\ a <= b => Run(a, b)[Len(Run(a, b))] = b
<1>1. /\ Run(a, b) \in Seq(Nat) /\ Len(Run(a, b)) = b - a + 1
      /\ \A i \in 1 .. b - a + 1 : Run(a, b)[i] = a + i - 1
  BY RunIsSeq
<1>2. Run(a, b) = <<>> <=> b - a + 1 = 0
  BY <1>1, EmptySeq
<1>3. a <= b => b - a + 1 \in 1 .. b - a + 1 /\ a + (b - a + 1) - 1 = b
  OBVIOUS
<1>. QED
  BY <1>1, <1>2, <1>3

\* What a lag changes of a viewer, and what it leaves.
LEMMA ViewerSkips ==
  ASSUME NEW q \in ViewerRecords, NEW i \in Nat
  PROVE  LET r == [q EXCEPT !.next = i, !.lagged = TRUE]
         IN  /\ r \in ViewerRecords
             /\ r.step = q.step /\ r.next = i /\ r.at = q.at /\ r.out = q.out /\ r.screen = q.screen /\ r.lagged
<1>. USE EmptySeq DEF ViewerRecords
<1>1. LET r == [q EXCEPT !.next = i, !.lagged = TRUE]
      IN  r \in ViewerRecords
  OBVIOUS
<1>2. LET r == [q EXCEPT !.next = i, !.lagged = TRUE]
      IN  r.step = q.step /\ r.next = i /\ r.at = q.at /\ r.out = q.out /\ r.screen = q.screen /\ r.lagged
  OBVIOUS
<1>. HIDE DEF ViewerRecords
<1>. QED
  BY <1>1, <1>2

\* One viewer's step that leaves it sound leaves all as it should be.
LEMMA ViewerKeeps ==
  ASSUME OutputInv, NEW v \in Viewers, NEW r \in ViewerRecords, Set(v, r), LockInv',
         UNCHANGED <<bridge, ring, log, queue, buffer, local, reader>>,
         SoundViewer(r, log), r.step = "subscribe" => r.snapshot = ring
  PROVE  OutputInv'
<1>. USE DEF OutputInv
<1>1. IsLog(log)' /\ BridgeInv' /\ RingInv' /\ LocalInv'
  BY DEF BridgeInv, RingInv, LocalInv, Written, Sent
<1>2. viewer \in [Viewers -> ViewerRecords] /\ viewer' = [viewer EXCEPT ![v] = r]
  BY DEF ViewersInv, Set
<1>3. viewer' \in [Viewers -> ViewerRecords] /\ \A w \in Viewers : viewer'[w] = IF w = v THEN r ELSE viewer[w]
  BY <1>2
<1>4. ViewersInv'
  BY <1>3 DEF ViewersInv
<1>. QED
  BY <1>1, <1>4

\* A viewer alone takes the mutex, and the scrollback under it.
LEMMA LocksKeeps ==
  ASSUME OutputInv, NEW v \in Viewers, ViewerLocks(v) \/ ViewerSnapshots(v)
  PROVE  OutputInv'
<1>. USE DEF OutputInv
<1>1. viewer[v] \in ViewerRecords /\ SoundViewer(viewer[v], log) /\ viewer \in [Viewers -> ViewerRecords]
  BY DEF ViewersInv
<1>2. CASE ViewerLocks(v)
  <2>. DEFINE r == [viewer[v] EXCEPT !.step = "locked"]
  <2>1. r \in ViewerRecords /\ SoundViewer(r, log)
    BY <1>1, <1>2 DEF ViewerLocks, SoundViewer, ViewerRecords
  <2>2. \A w \in Viewers : viewer'[w] = IF w = v THEN r ELSE viewer[w]
    BY <1>1, <1>2 DEF ViewerLocks, Set
  <2>3. LockInv'
    BY <2>2, <1>1, <1>2, PromptAssumption DEF ViewerLocks, LockInv, ViewerRecords
  <2>4. Set(v, r) /\ r.step = "locked" /\ UNCHANGED <<bridge, ring, log, queue, buffer, local, reader>>
    BY <1>1, <1>2 DEF ViewerLocks, ViewerRecords
  <2>. HIDE DEF r
  <2>. QED
    BY <2>1, <2>3, <2>4, ViewerKeeps
<1>3. CASE ViewerSnapshots(v)
  <2>. DEFINE r == [viewer[v] EXCEPT !.step = "subscribe", !.snapshot = ring]
  <2>0. ring \in Seq(Nat)
    <3>1. \A n \in Nat : Kept(n) \in Seq(Nat)
      <4> TAKE n \in Nat
      <4>1. Oldest(n) \in Nat /\ Oldest(n) <= n + 1
        BY SizesAssumption DEF Oldest
      <4>. QED
        BY <4>1, RunIsSeq DEF Kept
    <3>2. Written \in Nat /\ Len(bridge.chunk) \in Nat
      BY WrittenIsEnd DEF BridgeInv
    <3>. QED
      BY <3>1, <3>2, Written + Len(bridge.chunk) \in Nat DEF RingInv
  <2>1. r \in ViewerRecords /\ SoundViewer(r, log) /\ r.snapshot = ring /\ r.step = "subscribe"
    BY <2>0, <1>1, <1>3 DEF ViewerSnapshots, SoundViewer, ViewerRecords
  <2>. HIDE DEF r
  <2>2. \A w \in Viewers : viewer'[w] = IF w = v THEN r ELSE viewer[w]
    BY <1>1, <1>3 DEF ViewerSnapshots, Set, r
  <2>3. LockInv'
    BY <2>1, <2>2, <1>1, <1>3 DEF ViewerSnapshots, LockInv
  <2>4. Set(v, r) /\ UNCHANGED <<bridge, ring, log, queue, buffer, local, reader>>
    BY <1>3 DEF ViewerSnapshots, r
  <2>. QED
    BY <2>1, <2>3, <2>4, ViewerKeeps
<1>. QED
  BY <1>2, <1>3

\* It joins behind the last message, with the scrollback that ends there.
LEMMA SubscribesKeeps ==
  ASSUME OutputInv, NEW v \in Viewers, ViewerSubscribes(v)
  PROVE  OutputInv'
<1>. USE DEF OutputInv
<1>1. viewer[v] \in ViewerRecords /\ SoundViewer(viewer[v], log) /\ viewer \in [Viewers -> ViewerRecords]
      /\ viewer[v].step = "subscribe" /\ viewer[v].snapshot = ring
  BY DEF ViewersInv, ViewerSubscribes
<1>2. Written \in Nat /\ Written = End(log, Len(log)) /\ Len(log) \in Nat
  BY WrittenIsEnd
<1>3. v \in lock /\ "bridge" \notin lock /\ bridge.step # "send" /\ ring = Kept(Written)
  BY <1>1, PromptAssumption DEF LockInv, RingInv
<1>. DEFINE r == [viewer[v] EXCEPT !.step = "stream", !.next = Len(log) + 1, !.at = {Written}, !.out = viewer[v].snapshot]
<1>4. Set(v, r) /\ lock' = lock \ {v} /\ UNCHANGED <<bridge, ring, log, queue, buffer, local, reader>>
  BY DEF ViewerSubscribes
<1>5. /\ r \in ViewerRecords /\ r.step = "stream" /\ r.next = Len(log) + 1 /\ r.at = {Written}
      /\ r.out = ring /\ r.screen = <<>> /\ (r.lagged <=> viewer[v].lagged)
  <2>1. viewer[v].snapshot \in Seq(Nat) /\ {Written} \in SUBSET Nat /\ Len(log) + 1 \in Nat
    BY <1>1, <1>2 DEF ViewerRecords
  <2>2. viewer[v].screen = <<>>
    BY <1>1 DEF SoundViewer
  <2>3. r = [viewer[v] EXCEPT !.step = "stream", !.next = Len(log) + 1, !.at = {Written}, !.out = viewer[v].snapshot]
    OBVIOUS
  <2>. HIDE DEF r
  <2>4. /\ r \in ViewerRecords /\ r.step = "stream" /\ r.next = Len(log) + 1 /\ r.at = {Written}
        /\ r.out = viewer[v].snapshot /\ r.screen = viewer[v].screen /\ (r.lagged <=> viewer[v].lagged)
    <3>1. PICK i \in Nat, a \in SUBSET Nat, s \in Seq(Nat) : i = Len(log) + 1 /\ a = {Written} /\ s = viewer[v].snapshot
      BY <2>1
    <3>2. r = [viewer[v] EXCEPT !.step = "stream", !.next = i, !.at = a, !.out = s]
      BY <2>3, <3>1
    <3>3. /\ r \in ViewerRecords /\ r.step = "stream" /\ r.next = i /\ r.at = a
          /\ r.out = s /\ r.screen = viewer[v].screen /\ (r.lagged <=> viewer[v].lagged)
      <4>1. PICK q \in ViewerRecords : q = viewer[v]
        BY <1>1
      <4>2. r = [q EXCEPT !.step = "stream", !.next = i, !.at = a, !.out = s]
        BY <3>2, <4>1
      <4>3. /\ r \in ViewerRecords /\ r.step = "stream" /\ r.next = i /\ r.at = a
            /\ r.out = s /\ r.screen = q.screen /\ (r.lagged <=> q.lagged)
        BY <4>2 DEF ViewerRecords
      <4>. QED
        BY <4>1, <4>3
    <3>. QED
      BY <3>1, <3>3
  <2>. QED
    BY <1>1, <2>2, <2>4
<1>. HIDE DEF r
<1>6. \A w \in Viewers : viewer'[w] = IF w = v THEN r ELSE viewer[w]
  BY <1>1, <1>4 DEF Set
<1>7. LockInv'
  BY <1>3, <1>4, <1>5, <1>6, PromptAssumption DEF LockInv
<1>8. Oldest(Written) \in Nat \ {0} /\ Oldest(Written) <= Written + 1
  BY <1>2, SizesAssumption DEF Oldest
<1>9. Owed(r) = Oldest(Written)
  BY <1>5 DEF Owed
<1>10. ring \in Seq(Nat) /\ Len(ring) = Written - Oldest(Written) + 1
  BY <1>2, <1>3, <1>8, RunIsSeq DEF Kept
<1>11. Len(log) + 1 - 1 = Len(log) /\ Given(r, log) = Oldest(Written)
  BY <1>2, <1>5, <1>8, <1>10 DEF Given
<1>12. Streams(r, log)
  <2>1. r.next \in 1 .. Len(log) + 1 /\ Len(r.out) <= End(log, r.next - 1)
    BY <1>2, <1>5, <1>8, <1>10, <1>11
  <2>2. r.out = Run(Given(r, log), End(log, r.next - 1))
    BY <1>2, <1>3, <1>5, <1>11 DEF Kept
  <2>. QED
    BY <2>1, <2>2, <1>8, <1>9, <1>11 DEF Streams
<1>13. r.screen = Run(Oldest(Written), Oldest(Written) + Len(r.screen) - 1)
  <2>1. Len(r.screen) = 0
    BY <1>5
  <2>2. PICK a \in Nat \ {0}, b \in Nat : a = Oldest(Written) /\ b = Oldest(Written) + 0 - 1 /\ a = b + 1
    BY <1>8
  <2>3. Run(a, b) = <<>>
    BY <2>2, RunEnds
  <2>. QED
    BY <2>1, <2>2, <2>3, <1>5
<1>14. SoundViewer(r, log)
  BY <1>2, <1>5, <1>12, <1>13 DEF SoundViewer
<1>. QED
  BY <1>4, <1>5, <1>7, <1>14, ViewerKeeps

\* The next message, and the oldest one kept, follow what was given before.
LEMMA ReceivesKeeps ==
  ASSUME OutputInv, NEW v \in Viewers, ViewerReceives(v)
  PROVE  OutputInv'
<1>. USE DEF OutputInv
<1>1. viewer[v] \in ViewerRecords /\ SoundViewer(viewer[v], log) /\ viewer \in [Viewers -> ViewerRecords]
      /\ viewer[v].step = "stream" /\ viewer[v].out = <<>>
  BY DEF ViewersInv, ViewerReceives, Receiving
<1>2. Len(log) \in Nat /\ viewer[v].next \in 1 .. Len(log) + 1 /\ BusCap \in Nat /\ Streams(viewer[v], log)
  BY <1>1, WrittenIsEnd, SizesAssumption DEF SoundViewer, Streams
<1>3. PICK i \in 1 .. Len(log) : i = viewer[v].next
  BY <1>2 DEF ViewerReceives, Behind
<1>. DEFINE r == [viewer[v] EXCEPT !.out = log[viewer[v].next], !.next = @ + 1]
<1>4. Set(v, r) /\ lock' = lock /\ UNCHANGED <<bridge, ring, log, queue, buffer, local, reader>>
  BY DEF ViewerReceives
<1>5. log[i] \in Seq(Nat)
  BY <1>3 DEF IsLog
<1>6. /\ r \in ViewerRecords /\ r.step = "stream" /\ r.next = i + 1 /\ r.at = viewer[v].at
      /\ r.out = log[i] /\ r.screen = viewer[v].screen /\ (r.lagged <=> viewer[v].lagged)
  <2>1. PICK j \in Nat, s \in Seq(Nat) : j = i + 1 /\ s = log[i]
    BY <1>5
  <2>2. r = [viewer[v] EXCEPT !.out = s, !.next = j]
    BY <1>1, <1>3, <2>1 DEF ViewerRecords
  <2>. HIDE DEF r
  <2>3. /\ r \in ViewerRecords /\ r.step = viewer[v].step /\ r.next = j /\ r.at = viewer[v].at
        /\ r.out = s /\ r.screen = viewer[v].screen /\ (r.lagged <=> viewer[v].lagged)
    <3>1. PICK q \in ViewerRecords : q = viewer[v]
      BY <1>1
    <3>2. r = [q EXCEPT !.out = s, !.next = j]
      BY <2>2, <3>1
    <3>3. /\ r \in ViewerRecords /\ r.step = q.step /\ r.next = j /\ r.at = q.at
          /\ r.out = s /\ r.screen = q.screen /\ (r.lagged <=> q.lagged)
      BY <3>2 DEF ViewerRecords
    <3>. QED
      BY <3>1, <3>3
  <2>. QED
    BY <1>1, <2>1, <2>3
<1>. HIDE DEF r
<1>7. LockInv'
  BY <1>1, <1>4, <1>6 DEF LockInv, Set
<1>8. /\ End(log, i) \in Nat /\ End(log, i - 1) \in Nat /\ log[i] = Run(End(log, i - 1) + 1, End(log, i))
      /\ End(log, i - 1) + 1 <= End(log, i)
  <2>1. i \in 0 .. Len(log) /\ i - 1 \in 0 .. Len(log) /\ i - 1 <= i /\ i - (i - 1) = 1
    BY <1>2
  <2>. QED
    BY <2>1 DEF IsLog
<1>9. Len(log[i]) = End(log, i) - End(log, i - 1)
  <2>1. PICK c \in Nat, b \in Nat : c = End(log, i - 1) /\ b = End(log, i)
    BY <1>8
  <2>2. PICK a \in Nat : a = c + 1
    OBVIOUS
  <2>3. log[i] = Run(a, b) /\ a <= b
    BY <1>8, <2>1, <2>2
  <2>4. Len(Run(a, b)) = b - a + 1
    BY <2>3, RunIsSeq
  <2>5. Len(Run(a, b)) = b - c
    BY <2>2, <2>4
  <2>. QED
    BY <2>1, <2>3, <2>5
<1>10. Given(viewer[v], log) = End(log, i - 1) + 1
  BY <1>1, <1>3, <1>8 DEF Given
<1>11. i + 1 - 1 = i /\ Given(r, log) = End(log, i - 1) + 1
  BY <1>6, <1>8, <1>9 DEF Given
<1>12. Owed(r) = Owed(viewer[v])
  BY <1>6 DEF Owed
<1>13. Streams(r, log)
  BY <1>2, <1>6, <1>8, <1>9, <1>10, <1>11, <1>12 DEF Streams
<1>14. SoundViewer(r, log)
  BY <1>1, <1>6, <1>13 DEF SoundViewer
<1>. QED
  BY <1>4, <1>6, <1>7, <1>14, ViewerKeeps

\* A viewer that lags skips only what the channel no longer keeps.
LEMMA LagsKeeps ==
  ASSUME OutputInv, NEW v \in Viewers, ViewerLags(v)
  PROVE  OutputInv'
<1>. USE DEF OutputInv
<1>1. viewer[v] \in ViewerRecords /\ SoundViewer(viewer[v], log) /\ viewer \in [Viewers -> ViewerRecords]
      /\ viewer[v].step = "stream" /\ viewer[v].out = <<>>
  BY DEF ViewersInv, ViewerLags, Receiving
<1>2. Len(log) \in Nat /\ viewer[v].next \in 1 .. Len(log) + 1 /\ BusCap \in Nat \ {0} /\ Streams(viewer[v], log)
  BY <1>1, WrittenIsEnd, SizesAssumption DEF SoundViewer, Streams
<1>3. PICK i \in 0 .. Len(log), k \in 0 .. Len(log) :
         i = viewer[v].next - 1 /\ k = Len(log) - BusCap /\ i < k
  BY <1>2 DEF ViewerLags, Behind
<1>. DEFINE r == [viewer[v] EXCEPT !.next = Len(log) - BusCap + 1, !.lagged = TRUE]
<1>4. Set(v, r) /\ lock' = lock /\ UNCHANGED <<bridge, ring, log, queue, buffer, local, reader>>
  BY DEF ViewerLags
<1>6. /\ r \in ViewerRecords /\ r.step = "stream" /\ r.next = k + 1 /\ r.at = viewer[v].at
      /\ r.out = <<>> /\ r.screen = viewer[v].screen /\ r.lagged
  <2>1. k + 1 \in Nat /\ k + 1 = Len(log) - BusCap + 1
    BY <1>3
  <2>2. r = [viewer[v] EXCEPT !.next = k + 1, !.lagged = TRUE]
    BY <2>1
  <2>. HIDE DEF r
  <2>. QED
    BY <1>1, <2>1, <2>2, ViewerSkips
<1>. HIDE DEF r
<1>7. LockInv'
  BY <1>1, <1>4, <1>6 DEF LockInv, Set
<1>8. /\ End(log, i) \in Nat /\ End(log, k) \in Nat /\ End(log, Len(log)) \in Nat
      /\ End(log, i) < End(log, k) /\ End(log, k) + BusCap <= End(log, Len(log))
  <2>1. Len(log) \in 0 .. Len(log) /\ k <= Len(log) /\ i <= k
    BY <1>2, <1>3
  <2>2. End(log, i) + (k - i) <= End(log, k) /\ End(log, k) + (Len(log) - k) <= End(log, Len(log))
        /\ End(log, i) \in Nat /\ End(log, k) \in Nat /\ End(log, Len(log)) \in Nat
    BY <2>1 DEF IsLog
  <2>. QED
    BY <2>1, <2>2, <1>2, <1>3, SMTT(30)
<1>9. Len(viewer[v].out) = 0 /\ Len(r.out) = 0
  BY <1>1, <1>6
<1>10. Given(viewer[v], log) = End(log, i) + 1 /\ Given(r, log) = End(log, k) + 1 /\ k + 1 - 1 = k
  BY <1>3, <1>6, <1>8, <1>9 DEF Given
<1>11. Owed(r) = Owed(viewer[v])
  BY <1>6 DEF Owed
<1>12. r.out = Run(Given(r, log), End(log, r.next - 1))
  <2>1. PICK a \in Nat \ {0}, b \in Nat : a = End(log, k) + 1 /\ b = End(log, k)
    BY <1>8
  <2>2. Run(a, b) = <<>>
    BY <2>1, RunEnds
  <2>. QED
    BY <2>1, <2>2, <1>6, <1>10
<1>13. Owed(r) \in Nat \ {0} /\ Given(r, log) > Owed(r)
  BY <1>2, <1>8, <1>10, <1>11 DEF Streams
<1>14. Given(r, log) + BusCap <= End(log, Len(log)) + 1
  BY <1>2, <1>8, <1>10
<1>15. Streams(r, log)
  BY <1>2, <1>3, <1>6, <1>8, <1>9, <1>10, <1>12, <1>13, <1>14, SMTT(30) DEF Streams
<1>16. SoundViewer(r, log)
  BY <1>1, <1>6, <1>15 DEF SoundViewer
<1>. QED
  BY <1>4, <1>6, <1>7, <1>16, ViewerKeeps

\* What its client reads of the message in hand ends where the next one begins.
LEMMA ShownBytes ==
  ASSUME IsLog(log), NEW q \in ViewerRecords, SoundViewer(q, log), q.step = "stream", q.out # <<>>
  PROVE  /\ End(log, q.next - 1) \in Nat \ {0} /\ Given(q, log) \in Nat \ {0}
         /\ Given(q, log) <= End(log, q.next - 1)
         /\ q.out = Run(Given(q, log), End(log, q.next - 1))
         /\ Len(q.out) = End(log, q.next - 1) - Given(q, log) + 1
         /\ q.screen \o q.out \in Seq(Nat)
         /\ Len(q.screen \o q.out) = Len(q.screen) + Len(q.out)
         /\ q.screen \o q.out # <<>>
         /\ (q.screen \o q.out)[Len(q.screen \o q.out)] = End(log, q.next - 1)
<1>1. Streams(q, log) /\ Len(log) \in Nat
  BY WrittenIsEnd DEF SoundViewer
<1>2. q.out \in Seq(Nat) /\ q.screen \in Seq(Nat)
  BY DEF ViewerRecords
<1>3. Len(q.out) \in Nat \ {0} /\ Len(q.screen) \in Nat
  BY <1>2, EmptySeq
<1>4. q.next - 1 \in 0 .. Len(log)
  BY <1>1 DEF Streams
<1>5. End(log, q.next - 1) \in Nat
  BY <1>4 DEF IsLog
<1>6. Len(q.out) <= End(log, q.next - 1) /\ Given(q, log) = End(log, q.next - 1) + 1 - Len(q.out)
  BY <1>1 DEF Streams, Given
<1>7. PICK a \in Nat \ {0}, b \in Nat \ {0} :
        a = Given(q, log) /\ b = End(log, q.next - 1) /\ a <= b /\ a <= b + 1
  BY <1>3, <1>5, <1>6
<1>8. q.out = Run(a, b)
  BY <1>1, <1>7 DEF Streams
<1>9. q.out[Len(q.out)] = b
  BY <1>7, <1>8, RunEnds
<1>10. /\ q.screen \o q.out \in Seq(Nat) /\ Len(q.screen \o q.out) = Len(q.screen) + Len(q.out)
       /\ \A i \in 1 .. Len(q.screen) + Len(q.out) :
            (q.screen \o q.out)[i] = IF i <= Len(q.screen) THEN q.screen[i] ELSE q.out[i - Len(q.screen)]
  BY <1>2, ConcatProperties
<1>11. (q.screen \o q.out)[Len(q.screen \o q.out)] = b
  <2>1. PICK n \in Nat, m \in Nat \ {0} : n = Len(q.screen) /\ m = Len(q.out)
    BY <1>3
  <2>2. n + m \in 1 .. n + m /\ ~(n + m <= n) /\ n + m - n = m
    OBVIOUS
  <2>3. \A i \in 1 .. n + m : (q.screen \o q.out)[i] = IF i <= n THEN q.screen[i] ELSE q.out[i - n]
    BY <2>1, <1>10
  <2>4. PICK j \in 1 .. n + m : j = n + m /\ ~(j <= n) /\ j - n = m
    BY <2>2
  <2>5. (q.screen \o q.out)[j] = q.out[m]
    BY <2>3, <2>4
  <2>. QED
    BY <2>1, <2>4, <2>5, <1>9, <1>10
<1>12. q.screen \o q.out # <<>>
  BY <1>2, <1>3, ConcatEmptySeq, <1>10, EmptySeq
<1>13. Len(q.out) = b - a + 1
  BY <1>3, <1>6, <1>7
<1>. QED
  BY <1>7, <1>8, <1>10, <1>11, <1>12, <1>13

\* An unbroken screen grows by what its client reads.
LEMMA ReadsAtClientKeeps ==
  ASSUME OutputInv, NEW v \in Viewers, ClientReads(v)
  PROVE  OutputInv'
<1>. USE DEF OutputInv
<1>1. PICK q \in ViewerRecords : q = viewer[v]
  BY DEF ViewersInv
<1>2. SoundViewer(q, log) /\ q.step = "stream" /\ q.out # <<>> /\ viewer \in [Viewers -> ViewerRecords]
  BY <1>1 DEF ViewersInv, ClientReads
<1>3. PICK a \in Nat \ {0}, b \in Nat \ {0} :
         a = Given(q, log) /\ b = End(log, q.next - 1) /\ a <= b /\ q.out = Run(a, b) /\ Len(q.out) = b - a + 1
  BY <1>2, ShownBytes
<1>4. PICK s \in Seq(Nat) : s = q.screen \o q.out /\ s # <<>> /\ s[Len(s)] = b /\ Len(s) = Len(q.screen) + Len(q.out)
  BY <1>2, <1>3, ShownBytes
<1>5. PICK r : r = [q EXCEPT !.screen = s, !.out = <<>>]
  OBVIOUS
<1>6. Set(v, r) /\ lock' = lock /\ UNCHANGED <<bridge, ring, log, queue, buffer, local, reader>>
  <2>1. r = [viewer[v] EXCEPT !.screen = @ \o viewer[v].out, !.out = <<>>]
    BY <1>1, <1>4, <1>5 DEF ViewerRecords
  <2>. QED
    BY <2>1 DEF ClientReads
<1>7. /\ r \in ViewerRecords /\ r.step = "stream" /\ r.next = q.next /\ r.at = q.at /\ r.out = <<>>
      /\ r.screen = s /\ (r.lagged <=> q.lagged)
  BY <1>2, <1>5, EmptySeq DEF ViewerRecords
<1>8. LockInv'
  BY <1>1, <1>2, <1>6, <1>7 DEF LockInv, Set
<1>9. Streams(q, log) /\ Len(r.out) = 0 /\ Owed(r) = b + 1
  BY <1>2, <1>4, <1>7 DEF SoundViewer, Owed
<1>10. Given(r, log) = b + 1
  BY <1>3, <1>7, <1>9 DEF Given
<1>11. Streams(r, log)
  <2>1. Run(b + 1, b) = <<>>
    <3>1. PICK c \in Nat \ {0} : c = b + 1 /\ c <= b + 1
      OBVIOUS
    <3>2. Run(c, b) = <<>>
      BY <3>1, RunEnds
    <3>. QED
      BY <3>1, <3>2
  <2>. QED
    BY <2>1, <1>3, <1>7, <1>9, <1>10, SMTT(30) DEF Streams
<1>12. ASSUME NEW n \in Nat, q.at = {n}, q.lagged \/ q.screen = Run(Oldest(n), Oldest(n) + Len(q.screen) - 1)
       PROVE  r.lagged \/ r.screen = Run(Oldest(n), Oldest(n) + Len(r.screen) - 1)
  <2>1. CASE q.lagged
    BY <2>1, <1>7
  <2>2. CASE ~q.lagged
    <3>0. Oldest(n) \in Nat \ {0} /\ Len(q.screen) \in Nat
      <4>1. q.screen \in Seq(Nat)
        BY DEF ViewerRecords
      <4>. QED
        BY <4>1, SizesAssumption DEF Oldest
    <3>1. PICK o \in Nat \ {0}, x \in Nat : o = Oldest(n) /\ x = Len(q.screen)
      BY <3>0
    <3>2. q.screen = Run(o, o + x - 1) /\ Given(q, log) = Owed(q) /\ q.screen \in Seq(Nat)
      BY <2>2, <1>9, <1>12, <3>1 DEF Streams, ViewerRecords
    <3>3. a = o + x
      <4>1. CASE q.screen = <<>>
        BY <4>1, <3>1, <3>2, <1>3, <1>12 DEF Owed
      <4>2. CASE q.screen # <<>>
        <5>1. x # 0
          BY <4>2, <3>1, <3>2, EmptySeq
        <5>2. PICK y \in Nat : y = o + x - 1 /\ o <= y /\ o <= y + 1
          BY <5>1
        <5>3. q.screen[Len(q.screen)] = y
          BY <5>2, <3>2, RunEnds, ZenonT(30)
        <5>. QED
          BY <4>2, <5>2, <5>3, <3>2, <1>3 DEF Owed
      <4>. QED
        BY <4>1, <4>2
    <3>4. PICK y \in Nat : y = o + x - 1 /\ o <= y + 1 /\ y <= b /\ a = y + 1
      BY <3>3, <1>3
    <3>5. Run(o, y) \o Run(y + 1, b) = Run(o, b)
      BY <3>4, RunsMeet
    <3>6. s = Run(o, b)
      BY <3>2, <3>4, <3>5, <1>3, <1>4
    <3>7. Len(s) = b - o + 1
      <4>1. Len(s) = x + (b - a + 1)
        BY <3>1, <1>3, <1>4
      <4>. QED
        BY <4>1, <3>3
    <3>. QED
      BY <3>1, <3>4, <3>6, <3>7, <1>7, o + Len(s) - 1 = b
  <2>. QED
    BY <2>1, <2>2
<1>13. SoundViewer(r, log)
  <2>1. PICK n \in Nat : q.at = {n} /\ (q.lagged \/ q.screen = Run(Oldest(n), Oldest(n) + Len(q.screen) - 1))
    BY <1>2 DEF SoundViewer
  <2>2. r.at = {n} /\ (r.lagged \/ r.screen = Run(Oldest(n), Oldest(n) + Len(r.screen) - 1))
    BY <2>1, <1>7, <1>12
  <2>. QED
    BY <2>2, <1>7, <1>11 DEF SoundViewer
<1>. QED
  BY <1>6, <1>7, <1>8, <1>13, ViewerKeeps

\* A client goes, and the task ends at its next write.
LEMMA GoneKeeps ==
  ASSUME OutputInv, NEW v \in Viewers, ClientGone(v) \/ WriteFails(v)
  PROVE  OutputInv'
<1>. USE DEF OutputInv
<1>1. PICK q \in ViewerRecords : q = viewer[v]
  BY DEF ViewersInv
<1>2. SoundViewer(q, log) /\ viewer \in [Viewers -> ViewerRecords]
      /\ (q.step = "subscribe" => q.snapshot = ring)
  BY <1>1 DEF ViewersInv
<1>3. CASE ClientGone(v)
  <2>1. PICK r : r = [q EXCEPT !.peer = FALSE]
    OBVIOUS
  <2>2. Set(v, r) /\ lock' = lock /\ UNCHANGED <<bridge, ring, log, queue, buffer, local, reader>>
    BY <1>1, <1>3, <2>1 DEF ClientGone
  <2>3. /\ r \in ViewerRecords /\ r.step = q.step /\ r.next = q.next /\ r.at = q.at /\ r.out = q.out
        /\ r.screen = q.screen /\ (r.lagged <=> q.lagged) /\ r.snapshot = q.snapshot
    BY <2>1 DEF ViewerRecords
  <2>4. Owed(r) = Owed(q) /\ Given(r, log) = Given(q, log)
    BY <2>3 DEF Owed, Given
  <2>5. Streams(q, log) => Streams(r, log)
    BY <2>3, <2>4 DEF Streams
  <2>6. SoundViewer(r, log)
    BY <2>3, <2>5, <1>2 DEF SoundViewer
  <2>7. LockInv'
    BY <1>1, <1>2, <2>2, <2>3 DEF LockInv, Set
  <2>. QED
    BY <2>2, <2>3, <2>6, <2>7, <1>2, ViewerKeeps
<1>4. CASE WriteFails(v)
  <2>1. PICK r : r = [q EXCEPT !.step = "ended", !.out = <<>>]
    OBVIOUS
  <2>2. Set(v, r) /\ lock' = lock /\ UNCHANGED <<bridge, ring, log, queue, buffer, local, reader>> /\ q.step = "stream"
    BY <1>1, <1>4, <2>1 DEF WriteFails
  <2>3. /\ r \in ViewerRecords /\ r.step = "ended" /\ r.at = q.at
        /\ r.screen = q.screen /\ (r.lagged <=> q.lagged)
    BY <2>1, EmptySeq DEF ViewerRecords
  <2>4. SoundViewer(r, log)
    BY <2>2, <2>3, <1>2 DEF SoundViewer
  <2>5. LockInv'
    BY <1>1, <1>2, <2>2, <2>3 DEF LockInv, Set
  <2>. QED
    BY <2>2, <2>3, <2>4, <2>5, ViewerKeeps
<1>. QED
  BY <1>3, <1>4

\* From the start the way is sound.
LEMMA OutputStarts == Init => OutputInv
<1>. SUFFICES ASSUME Init PROVE OutputInv
  OBVIOUS
<1>1. /\ <<>> \in Seq(Nat) /\ <<>> \in Seq(Seq(Nat)) /\ Len(<<>>) = 0
  BY EmptySeq
<1>2. End(<<>>, 0) = 0 /\ IsLog(log) /\ Written = 0
  <2>1. End(<<>>, 0) = 0 /\ log = <<>>
    BY DEF End, Init
  <2>2. 0 .. 0 = {0} /\ 1 .. 0 = {}
    OBVIOUS
  <2>. QED
    BY <1>1, <2>1, <2>2 DEF IsLog, Written
<1>3. \A a \in {1} : Run(a, 0) = <<>>
  BY RunEnds
<1>4. Oldest(0) = 1
  BY SizesAssumption DEF Oldest
<1>5. BridgeInv /\ LockInv /\ RingInv
  BY <1>1, <1>2, <1>3, <1>4 DEF Init, BridgeInv, LockInv, RingInv, Kept, NewViewer
<1>6. LocalInv
  BY <1>1, <1>2, <1>3 DEF Init, LocalInv, Sent
<1>7. ViewersInv
  <2>1. NewViewer \in ViewerRecords /\ SoundViewer(NewViewer, log)
    BY <1>1 DEF NewViewer, ViewerRecords, SoundViewer
  <2>. QED
    BY <2>1 DEF Init, ViewersInv, NewViewer
<1>. QED
  BY <1>2, <1>5, <1>6, <1>7 DEF OutputInv

\* The bytes in hand, numbered, are those the process wrote.
LEMMA OutputIsTrue == OutputInv => OutputIsComplete
<1>. SUFFICES ASSUME OutputInv PROVE OutputIsComplete
  OBVIOUS
<1>. USE DEF OutputInv
<1>1. LocalIsComplete
  BY DEF LocalInv, LocalIsComplete
<1>2. ASSUME NEW v \in Viewers, ~viewer[v].lagged, viewer[v].screen # <<>>
      PROVE  /\ Contiguous(viewer[v].screen)
             /\ \A n \in viewer[v].at : Head(viewer[v].screen) = IF n > ScrollCap THEN n - ScrollCap + 1 ELSE 1
  <2>1. PICK q \in ViewerRecords : q = viewer[v]
    BY DEF ViewersInv
  <2>2. SoundViewer(q, log) /\ q.step \in {"stream", "ended"} /\ q.screen \in Seq(Nat)
    BY <1>2, <2>1 DEF ViewersInv, SoundViewer, ViewerRecords
  <2>3. PICK n \in Nat : q.at = {n} /\ q.screen = Run(Oldest(n), Oldest(n) + Len(q.screen) - 1)
    BY <1>2, <2>1, <2>2 DEF SoundViewer
  <2>4. PICK o \in Nat \ {0}, x \in Nat \ {0} : o = Oldest(n) /\ x = Len(q.screen)
    <3>1. Oldest(n) \in Nat \ {0}
      BY SizesAssumption DEF Oldest
    <3>2. Len(q.screen) \in Nat \ {0}
      BY <1>2, <2>1, <2>2, EmptySeq
    <3>. QED
      BY <3>1, <3>2
  <2>5. PICK y \in Nat : y = o + x - 1 /\ o <= y /\ o <= y + 1
    BY <2>4
  <2>6. q.screen = Run(o, y) /\ \A i \in 1 .. y - o + 1 : Run(o, y)[i] = o + i - 1
    BY <2>3, <2>4, <2>5, RunIsSeq
  <2>7. \A i \in 1 .. x : q.screen[i] = o + i - 1
    BY <2>5, <2>6
  <2>8. Contiguous(q.screen)
    BY <2>4, <2>7 DEF Contiguous
  <2>9. Head(q.screen) = o
    <3>1. Head(q.screen) = q.screen[1] /\ 1 \in 1 .. x
      BY <1>2, <2>1, <2>2, <2>4, HeadTailProperties
    <3>. QED
      BY <3>1, <2>7
  <2>. QED
    BY <2>1, <2>3, <2>4, <2>8, <2>9 DEF Oldest
<1>. QED
  BY <1>1, <1>2 DEF OutputIsComplete, NoSeam

\* Every step keeps the way sound.
LEMMA OutputSteps == OutputInv /\ [Next]_vars => OutputInv'
<1>. SUFFICES ASSUME OutputInv, [Next]_vars PROVE OutputInv'
  OBVIOUS
<1>1. CASE UNCHANGED vars
  BY <1>1 DEF vars, OutputInv, BridgeInv, LockInv, RingInv, LocalInv, ViewersInv, Written, Sent
<1>2. CASE (\E size \in ChunkSizes : BridgeReceives(size)) \/ BridgeStep \/ BridgeExits
  BY <1>2, BridgeKeeps, SendKeeps, ForwardKeeps DEF BridgeStep
<1>3. CASE LocalStep \/ LocalDropped
  BY <1>3, ReadKeeps, LocalEndKeeps DEF LocalStep
<1>4. CASE \E v \in Viewers : ViewerLocks(v) \/ TaskStep(v) \/ ClientReads(v) \/ ClientGone(v)
  BY <1>4, LocksKeeps, SubscribesKeeps, ReceivesKeeps, LagsKeeps, ReadsAtClientKeeps, GoneKeeps DEF TaskStep
<1>. QED
  BY <1>1, <1>2, <1>3, <1>4 DEF Next

\* No byte is lost, doubled or out of order on its way to a viewer that keeps up and
\* to the desktop, for any sizes of the ring, the channel, the chunks and the reads.
THEOREM OutputStaysComplete == Spec => []OutputIsComplete
<1>1. Spec => []OutputInv
  BY OutputStarts, OutputSteps, PTL DEF Spec
<1>. QED
  BY <1>1, OutputIsTrue, PTL

\* A step that changes neither the log nor what a viewer has is none of the feed.
LEMMA FeedRests ==
  ASSUME UNCHANGED Written, viewer' \in [Viewers -> ViewerRecords],
         \A v \in Viewers : viewer'[v].screen = viewer[v].screen /\ viewer'[v].at = viewer[v].at
  PROVE  UNCHANGED Feed!feedVars
BY DEF Feed!feedVars

\* One viewer's step, as the feed sees it.
LEMMA FeedSeesViewer ==
  ASSUME OutputInv, NEW v \in Viewers, NEW r, Set(v, r), UNCHANGED log
  PROVE  /\ UNCHANGED Written
         /\ \A w \in Viewers : viewer'[w] = IF w = v THEN r ELSE viewer[w]
         /\ [w \in Viewers |-> viewer'[w].screen] = [[w \in Viewers |-> viewer[w].screen] EXCEPT ![v] = r.screen]
         /\ [w \in Viewers |-> viewer'[w].at] = [[w \in Viewers |-> viewer[w].at] EXCEPT ![v] = r.at]
<1>1. \A w \in Viewers : viewer'[w] = IF w = v THEN r ELSE viewer[w]
  BY DEF Set, OutputInv, ViewersInv
<1>. QED
  BY <1>1 DEF Written

\* A chunk sent is published.
LEMMA SendPublishes ==
  ASSUME OutputInv, BridgeSends
  PROVE  Feed!Publish
<1>1. Written \in Nat /\ Written' = Written + Len(bridge.chunk) /\ Written' > Written /\ Len(bridge.chunk) \in Nat
  BY WrittenIsEnd, SendGrows DEF OutputInv, BridgeInv
<1>. QED
  BY <1>1 DEF Feed!Publish, BridgeSends

\* A subscription joins the feed.
LEMMA SubscribeJoins ==
  ASSUME OutputInv, NEW v \in Viewers, ViewerSubscribes(v)
  PROVE  Feed!Join(v)
<1>. DEFINE r == [viewer[v] EXCEPT !.step = "stream", !.next = Len(log) + 1, !.at = {Written}, !.out = viewer[v].snapshot]
<1>1. Set(v, r) /\ UNCHANGED log /\ viewer[v].at = {} /\ viewer[v] \in ViewerRecords
  BY DEF ViewerSubscribes, OutputInv, ViewersInv, SoundViewer
<1>2. r.screen = viewer[v].screen /\ r.at = {Written}
  BY <1>1 DEF ViewerRecords
<1>. HIDE DEF r
<1>3. /\ UNCHANGED Written
      /\ [w \in Viewers |-> viewer'[w].screen] = [[w \in Viewers |-> viewer[w].screen] EXCEPT ![v] = r.screen]
      /\ [w \in Viewers |-> viewer'[w].at] = [[w \in Viewers |-> viewer[w].at] EXCEPT ![v] = r.at]
  BY <1>1, FeedSeesViewer
<1>4. [[w \in Viewers |-> viewer[w].screen] EXCEPT ![v] = r.screen] = [w \in Viewers |-> viewer[w].screen]
  BY <1>2
<1>. QED
  BY <1>1, <1>2, <1>3, <1>4 DEF Feed!Join

\* What a client reads is the byte it is owed, or lies behind what the channel keeps.
LEMMA ReadShows ==
  ASSUME OutputInv, NEW v \in Viewers, ClientReads(v)
  PROVE  Feed!Show(v)
<1>1. PICK q \in ViewerRecords : q = viewer[v]
  BY DEF OutputInv, ViewersInv
<1>2. IsLog(log) /\ SoundViewer(q, log) /\ q.step = "stream" /\ q.out # <<>>
  BY <1>1 DEF OutputInv, ViewersInv, ClientReads
<1>3. PICK a \in Nat \ {0}, b \in Nat \ {0} :
         a = Given(q, log) /\ b = End(log, q.next - 1) /\ a <= b /\ q.out = Run(a, b)
  BY <1>2, ShownBytes
<1>. DEFINE r == [viewer[v] EXCEPT !.screen = @ \o viewer[v].out, !.out = <<>>]
<1>4. Set(v, r) /\ UNCHANGED log
  BY DEF ClientReads
<1>5. r.screen = viewer[v].screen \o Run(a, b) /\ r.at = viewer[v].at
  BY <1>1, <1>3 DEF ViewerRecords
<1>. HIDE DEF r
<1>6. /\ UNCHANGED Written
      /\ [w \in Viewers |-> viewer'[w].screen] = [[w \in Viewers |-> viewer[w].screen] EXCEPT ![v] = r.screen]
      /\ [w \in Viewers |-> viewer'[w].at] = [[w \in Viewers |-> viewer[w].at] EXCEPT ![v] = r.at]
  BY <1>4, FeedSeesViewer
<1>7. [[w \in Viewers |-> viewer[w].at] EXCEPT ![v] = r.at] = [w \in Viewers |-> viewer[w].at]
  BY <1>5
<1>8. Streams(q, log) /\ viewer[v].at # {}
  BY <1>1, <1>2 DEF SoundViewer
<1>9. Written = End(log, Len(log)) /\ Written \in Nat /\ Len(log) \in Nat
  BY <1>2, WrittenIsEnd
<1>10. b <= Written
  <2>1. PICK i \in 0 .. Len(log) : i = q.next - 1
    BY <1>8, <1>9 DEF Streams
  <2>2. End(log, i) + (Len(log) - i) <= End(log, Len(log))
    <3>1. Len(log) \in 0 .. Len(log) /\ i <= Len(log)
      BY <1>9
    <3>. QED
      BY <3>1, <1>2 DEF IsLog
  <2>. QED
    BY <2>1, <2>2, <1>3, <1>9
<1>11. a \in 1 .. Written /\ b \in 1 .. Written
  BY <1>3, <1>9, <1>10
<1>12. Feed!Due(v) = Owed(q)
  BY <1>1 DEF Feed!Due, Feed!Start, Owed, Oldest
<1>13. BusCap \in Nat \ {0} /\ Owed(q) \in Nat
  BY <1>8, SizesAssumption DEF Streams
<1>14. a = Feed!Due(v) \/ (Feed!Due(v) + BusCap <= Written /\ a > Feed!Due(v) /\ a + BusCap <= Written + 1)
  BY <1>3, <1>8, <1>9, <1>12, <1>13 DEF Streams
<1>15. [[w \in Viewers |-> viewer[w].screen] EXCEPT ![v] = r.screen]
         = [[w \in Viewers |-> viewer[w].screen] EXCEPT ![v] = @ \o Feed!Run(a, b)]
  BY <1>5 DEF Run, Feed!Run
<1>16. [w \in Viewers |-> viewer[w].at][v] # {} /\ a <= b
  BY <1>3, <1>8
<1>17. [w \in Viewers |-> viewer'[w].screen]
         = [[w \in Viewers |-> viewer[w].screen] EXCEPT ![v] = @ \o Feed!Run(a, b)]
  BY <1>6, <1>15
<1>18. UNCHANGED <<Written, [w \in Viewers |-> viewer[w].at]>>
  BY <1>6, <1>7
<1>. HIDE DEF Feed!Due, Feed!Run
<1>. QED
  BY <1>11, <1>14, <1>16, <1>17, <1>18 DEF Feed!Show

\* What else a viewer's task and its client do shows nothing.
LEMMA TaskRests ==
  ASSUME OutputInv, OutputInv', NEW v \in Viewers,
         ViewerLocks(v) \/ ViewerSnapshots(v) \/ ViewerReceives(v) \/ ViewerLags(v) \/ WriteFails(v) \/ ClientGone(v)
  PROVE  UNCHANGED Feed!feedVars
<1>1. viewer[v] \in ViewerRecords /\ viewer' \in [Viewers -> ViewerRecords]
  BY DEF OutputInv, ViewersInv
<1>2. ASSUME NEW r, Set(v, r), UNCHANGED log, r.screen = viewer[v].screen, r.at = viewer[v].at
      PROVE  UNCHANGED Feed!feedVars
  <2>1. UNCHANGED Written /\ \A w \in Viewers : viewer'[w] = IF w = v THEN r ELSE viewer[w]
    BY <1>2, FeedSeesViewer
  <2>2. \A w \in Viewers : viewer'[w].screen = viewer[w].screen /\ viewer'[w].at = viewer[w].at
    BY <2>1, <1>2
  <2>. QED
    BY <2>1, <2>2, <1>1, FeedRests
<1>3. CASE ViewerLocks(v)
  <2>1. PICK r : r = [viewer[v] EXCEPT !.step = "locked"]
    OBVIOUS
  <2>. QED
    BY <2>1, <1>1, <1>2, <1>3 DEF ViewerLocks, ViewerRecords
<1>4. CASE ViewerSnapshots(v)
  <2>1. PICK r : r = [viewer[v] EXCEPT !.step = "subscribe", !.snapshot = ring]
    OBVIOUS
  <2>. QED
    BY <2>1, <1>1, <1>2, <1>4 DEF ViewerSnapshots, ViewerRecords
<1>5. CASE ViewerReceives(v)
  <2>1. PICK r : r = [viewer[v] EXCEPT !.out = log[viewer[v].next], !.next = @ + 1]
    OBVIOUS
  <2>. QED
    BY <2>1, <1>1, <1>2, <1>5 DEF ViewerReceives, ViewerRecords
<1>6. CASE ViewerLags(v)
  <2>1. PICK r : r = [viewer[v] EXCEPT !.next = Len(log) - BusCap + 1, !.lagged = TRUE]
    OBVIOUS
  <2>. QED
    BY <2>1, <1>1, <1>2, <1>6 DEF ViewerLags, ViewerRecords
<1>7. CASE WriteFails(v)
  <2>1. PICK r : r = [viewer[v] EXCEPT !.step = "ended", !.out = <<>>]
    OBVIOUS
  <2>. QED
    BY <2>1, <1>1, <1>2, <1>7 DEF WriteFails, ViewerRecords
<1>8. CASE ClientGone(v)
  <2>1. PICK r : r = [viewer[v] EXCEPT !.peer = FALSE]
    OBVIOUS
  <2>. QED
    BY <2>1, <1>1, <1>2, <1>8 DEF ClientGone, ViewerRecords
<1>. QED
  BY <1>3, <1>4, <1>5, <1>6, <1>7, <1>8

\* Every step is one of the feed, or none.
LEMMA StepRefinesFeed == OutputInv /\ OutputInv' /\ [Next]_vars => [Feed!FeedNext]_Feed!feedVars
<1>. SUFFICES ASSUME OutputInv, OutputInv', [Next]_vars PROVE [Feed!FeedNext]_Feed!feedVars
  OBVIOUS
<1>1. CASE UNCHANGED vars
  BY <1>1 DEF vars, Feed!feedVars, Written
<1>2. CASE BridgeSends
  BY <1>2, SendPublishes DEF Feed!FeedNext
<1>3. CASE (\E size \in ChunkSizes : BridgeReceives(size)) \/ BridgeLocks \/ BridgePushes \/ BridgeForwards
           \/ BridgeExits \/ LocalStep \/ LocalDropped
  <2>1. UNCHANGED <<log, viewer>>
    BY <1>3 DEF BridgeReceives, BridgeLocks, BridgePushes, BridgeForwards, BridgeExits,
                LocalStep, LocalReads, LocalEnds, LocalDropped
  <2>. QED
    BY <2>1 DEF Feed!feedVars, Written
<1>4. ASSUME NEW v \in Viewers, ViewerLocks(v) \/ TaskStep(v) \/ ClientReads(v) \/ ClientGone(v)
      PROVE  [Feed!FeedNext]_Feed!feedVars
  <2>1. CASE ViewerSubscribes(v)
    BY <2>1, SubscribeJoins DEF Feed!FeedNext
  <2>2. CASE ClientReads(v)
    BY <2>2, ReadShows DEF Feed!FeedNext
  <2>. QED
    BY <2>1, <2>2, <1>4, TaskRests DEF TaskStep
<1>. QED
  BY <1>1, <1>2, <1>3, <1>4 DEF Next, BridgeStep

\* The feed starts with nothing written and nobody joined.
LEMMA InitRefinesFeed == Init => Feed!FeedInit
BY DEF Init, NewViewer, Written, Feed!FeedInit

\* The way of the output, its mutex, ring, channel and tasks, implements the feed it
\* promises each viewer.
THEOREM OutputImplementsFeed == Spec => ImplementsFeed
<1>1. Spec => []OutputInv
  BY OutputStarts, OutputSteps, PTL DEF Spec
<1>2. Spec => Feed!FeedSpec
  BY <1>1, InitRefinesFeed, StepRefinesFeed, PTL DEF Spec, Feed!FeedSpec
<1>. QED
  BY <1>2 DEF ImplementsFeed

=============================================================================
