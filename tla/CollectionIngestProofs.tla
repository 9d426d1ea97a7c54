----------------------- MODULE CollectionIngestProofs -----------------------
(***************************************************************************)
(* Theorems about CollectionIngest for every number of workers, sources,   *)
(* chats, requests and updates.                                            *)
(*                                                                         *)
(* Row, cursor and handshake are committed together, but two workers read  *)
(* and write the same cursor without a lock.  What keeps an update from    *)
(* being jumped over is that every worker, whatever the others did since   *)
(* its poll, only stands behind settled updates (BatchCovered) and that    *)
(* settled updates stay settled (SettledStays).                            *)
(***************************************************************************)
EXTENDS CollectionIngest, TLAPS

USE ConstantsAssumption

IInv == TypeOK /\ CursorCovered /\ BatchCovered

-----------------------------------------------------------------------------
(***************************************************************************)
(* Nothing that answers an update is ever taken back.                      *)
(***************************************************************************)

\* No administrator and no API request touches what the worker commits.
LEMMA AdminStep ==
    ASSUME Admin
    PROVE  UNCHANGED <<stream, cursor, events, worker, skipped>>
<1> USE DEF AdminUnchanged, dbVars
<1>1. ASSUME NEW b \in BOOLEAN, BindIdentity(b) \/ SetConnectionEnabled(b)
      PROVE  UNCHANGED <<stream, cursor, events, worker, skipped>>
  BY <1>1 DEF BindIdentity, SetConnectionEnabled
<1>2. CASE RevokeConnection \/ SoftDeleteConnection
  BY <1>2 DEF RevokeConnection, SoftDeleteConnection
<1>3. ASSUME NEW s \in Sources, NEW b \in BOOLEAN,
             CreateSource(s, b) \/ SetSourceEnabled(s, b)
      PROVE  UNCHANGED <<stream, cursor, events, worker, skipped>>
  BY <1>3 DEF CreateSource, SetSourceEnabled
<1>4. ASSUME NEW s \in Sources, SoftDeleteSource(s)
      PROVE  UNCHANGED <<stream, cursor, events, worker, skipped>>
  BY <1>4 DEF SoftDeleteSource
<1>5. ASSUME NEW r \in Requests,
             \/ RequestSourceTest(r)
             \/ RequestFallsDue(r)
             \/ StatusViewReads(r)
             \/ StatusViewWrites(r)
      PROVE  UNCHANGED <<stream, cursor, events, worker, skipped>>
  BY <1>5 DEF RequestSourceTest, RequestFallsDue, StatusViewReads,
              StatusViewWrites
<1>6. QED
  BY <1>1, <1>2, <1>3, <1>4, <1>5 DEF Admin

\* The worker steps that read, decide or give up, and commit nothing.
LocalStep(w) ==
    \/ StartCycle(w)
    \/ PollReturns(w)
    \/ Refuse(w)
    \/ NormalizerCrashes(w)
    \/ Report(w)
    \/ FinishCycle(w)
    \/ Fail(w)
    \/ \E s \in Sources :
          \/ ReplayShortCircuit(w, s)
          \/ Admit(w, s)
          \/ MatchControl(w, s)
          \/ Normalize(w, s)
          \/ LoseRace(w, s)

\* A worker's step is a commit of a row, a commit of an ignored update, or a
\* step that commits nothing.
LEMMA StepCases ==
    ASSUME NEW w \in Workers, Step(w) \/ Fail(w)
    PROVE  \/ AdvanceIgnored(w)
           \/ \E s \in Sources : CommitRow(w, s)
           \/ LocalStep(w)
  BY DEF Step, LocalStep

\* Only _advance_ignored and the commit of ingest_update write the cursor,
\* the rows and the ignored updates.
LEMMA LocalStepCommitsNothing ==
    ASSUME NEW w \in Workers, LocalStep(w)
    PROVE  UNCHANGED <<stream, cursor, events, skipped>>
<1> USE DEF dbVars
<1>1. CASE \/ StartCycle(w) \/ PollReturns(w) \/ Refuse(w)
           \/ NormalizerCrashes(w) \/ Report(w) \/ FinishCycle(w) \/ Fail(w)
  BY <1>1 DEF StartCycle, PollReturns, Refuse, NormalizerCrashes, Report,
              FinishCycle, Fail
<1>2. ASSUME NEW s \in Sources,
             \/ ReplayShortCircuit(w, s)
             \/ Admit(w, s)
             \/ MatchControl(w, s)
             \/ Normalize(w, s)
             \/ LoseRace(w, s)
      PROVE  UNCHANGED <<stream, cursor, events, skipped>>
  BY <1>2 DEF ReplayShortCircuit, Admit, MatchControl, Normalize, LoseRace
<1>3. QED
  BY <1>1, <1>2 DEF LocalStep

\* The stream, the rows and the ignored updates only grow: no handler of the
\* pipeline deletes a row or renumbers an update.
LEMMA Grows ==
    ASSUME TypeOK, [Next]_vars
    PROVE  /\ stream' = stream \/ \E u : u \in Update /\ stream' = Append(stream, u)
           /\ events \subseteq events'
           /\ skipped \subseteq skipped'
<1>1. CASE UNCHANGED vars
  BY <1>1 DEF vars
<1>2. CASE Publish
  BY <1>2, SMTT(30) DEF Publish, Update, TypeOK, dbVars
<1>3. CASE Admin
  BY <1>3, AdminStep
<1>4. ASSUME NEW w \in Workers, AdvanceIgnored(w)
      PROVE  stream' = stream /\ events' = events /\ skipped \subseteq skipped'
  BY <1>4 DEF AdvanceIgnored
<1>5. ASSUME NEW w \in Workers, NEW s \in Sources, CommitRow(w, s)
      PROVE  stream' = stream /\ events \subseteq events' /\ skipped' = skipped
  BY <1>5 DEF CommitRow
<1>6. QED
  BY <1>1, <1>2, <1>3, <1>4, <1>5, StepCases, LocalStepCommitsNothing DEF Next

\* A published update keeps its number and its content.
LEMMA StreamStays ==
    ASSUME TypeOK, [Next]_vars
    PROVE  /\ Len(stream) \in Nat
           /\ Len(stream') \in Nat
           /\ Len(stream) <= Len(stream')
           /\ \A u \in 1..Len(stream) : stream'[u] = stream[u]
<1>1. stream \in Seq(Update)
  BY DEF TypeOK
<1>2. CASE stream' = stream
  BY <1>1, <1>2
<1>3. ASSUME NEW u \in Update, stream' = Append(stream, u)
      PROVE  /\ Len(stream') = Len(stream) + 1
             /\ \A k \in 1..Len(stream) : stream'[k] = stream[k]
  BY <1>1, <1>3
<1>4. QED
  BY <1>1, <1>2, <1>3, Grows

\* A settled update stays settled.
LEMMA SettledStays ==
    ASSUME TypeOK, [Next]_vars, NEW u \in 1..Len(stream), Settled(u)
    PROVE  Settled(u)'
  BY Grows, StreamStays DEF Settled

\* A worker's place stays covered when other processes take a step.
LEMMA CoveredStays ==
    ASSUME TypeOK, [Next]_vars, NEW x \in WorkerState, Covered(x)
    PROVE  Covered(x)'
<1> SUFFICES ASSUME x.phase # "idle"
             PROVE  Covered(x)'
  BY DEF Covered
<1>1. /\ x.next \in 1..(x.last + 1)
      /\ x.last <= Len(stream)
      /\ x.phase \in {"matching", "writing", "reporting"} => x.next <= x.last
      /\ x.phase = "writing" => x.outcome # "none"
      /\ \A u \in 1..(x.next - 1) : Settled(u)
      /\ x.phase = "reporting" => Settled(x.next)
  BY DEF Covered
<1>2. x.next \in Nat /\ x.last \in Nat
  BY DEF WorkerState
<1>3. x.last <= Len(stream')
  BY <1>1, <1>2, StreamStays
<1>4. ASSUME NEW u \in 1..(x.next - 1)
      PROVE  Settled(u)'
  BY <1>1, <1>2, StreamStays, SettledStays
<1>5. x.phase = "reporting" => Settled(x.next)'
  BY <1>1, <1>2, StreamStays, SettledStays
<1>6. QED
  BY <1>1, <1>3, <1>4, <1>5 DEF Covered

-----------------------------------------------------------------------------
(***************************************************************************)
(* Worker steps: each moves one worker to a place that is covered.         *)
(***************************************************************************)

\* A worker that drops its batch (Fail, Refuse, the end of a cycle) owes nothing.
LEMMA IdleIsCovered == IdleWorker \in WorkerState /\ Covered(IdleWorker)'
  BY DEF IdleWorker, NothingLoaded, WorkerState, Phase, EventState, Covered

\* When one worker moves to a covered place and the stream and what is settled
\* do not shrink, the places of all workers stay covered.
LEMMA WorkerMoves ==
    ASSUME TypeOK, BatchCovered, [Next]_vars,
           NEW w \in Workers, NEW x \in WorkerState, Covered(x)',
           worker' = [worker EXCEPT ![w] = x]
    PROVE  worker' \in [Workers -> WorkerState] /\ BatchCovered'
<1>1. worker \in [Workers -> WorkerState]
  BY DEF TypeOK
<1>2. \A v \in Workers : worker'[v] \in {x, worker[v]}
  BY <1>1
<1>3. ASSUME NEW v \in Workers
      PROVE  Covered(worker[v])'
  <2>1. CASE worker'[v] = x
    BY <2>1 DEF Covered
  <2>2. CASE worker'[v] = worker[v]
    <3> DEFINE y == worker[v]
    <3>1. y \in WorkerState /\ Covered(y)
      BY <1>1 DEF BatchCovered
    <3>2. worker'[v] = y
      BY <2>2
    <3>3. Covered(worker[v])'
      BY <3>1, <3>2, CoveredStays DEF Covered
    <3>4. QED
      BY <3>3
  <2>3. QED
    BY <1>2, <2>1, <2>2
<1>4. QED
  BY <1>1, <1>3 DEF BatchCovered

\* A worker that changes its place or what it has loaded remains a worker.
LEMMA MovedWorker ==
    ASSUME NEW x \in WorkerState, NEW p \in Phase, NEW n \in Nat, NEW l \in Nat,
           NEW c \in ConnStatus \cup {Unloaded}
    PROVE  /\ [x EXCEPT !.phase = p] \in WorkerState
           /\ [x EXCEPT !.phase = p, !.next = n, !.connView = c] \in WorkerState
           /\ [x EXCEPT !.phase = p, !.next = n, !.last = l,
                        !.connView = c] \in WorkerState
<1>1. [x EXCEPT !.phase = p] \in WorkerState
  BY DEF WorkerState
<1>2. [x EXCEPT !.phase = p, !.next = n, !.connView = c] \in WorkerState
  BY DEF WorkerState
<1>3. [x EXCEPT !.phase = p, !.next = n, !.last = l, !.connView = c]
         \in WorkerState
  BY DEF WorkerState
<1>4. QED
  BY <1>1, <1>2, <1>3

\* Loading attributes into the session moves the worker nowhere.
LEMMA LoadedMovesNowhere ==
    ASSUME TypeOK, NEW w \in Workers, NEW s \in Sources
    PROVE  /\ Loaded(w, s) \in WorkerState
           /\ Loaded(w, s).phase = worker[w].phase
           /\ Loaded(w, s).next = worker[w].next
           /\ Loaded(w, s).last = worker[w].last
<1>1. PICK x \in WorkerState : x = worker[w]
  BY DEF TypeOK
<1>2. GateConn(w) \in ConnStatus \cup {Unloaded}
  BY <1>1 DEF TypeOK, GateConn, WorkerState
<1>3. GateSource(w, s) \in SourceStatus \cup {Unloaded}
  BY <1>1 DEF TypeOK, GateSource, WorkerState
<1>4. PICK view \in [Sources -> SourceStatus \cup {Unloaded}] :
        view = [x.sourceView EXCEPT ![s] = GateSource(w, s)]
  BY <1>1, <1>3 DEF WorkerState
<1>5. Loaded(w, s) = [x EXCEPT !.connView = GateConn(w), !.sourceView = view]
  BY <1>1, <1>4 DEF Loaded, WorkerState
<1>6. QED
  BY <1>1, <1>2, <1>4, <1>5 DEF WorkerState

\* The decisions, reports and failures of a worker keep every place covered.
LEMMA LocalStepCovered ==
    ASSUME IInv, [Next]_vars, NEW w \in Workers, LocalStep(w)
    PROVE  worker' \in [Workers -> WorkerState] /\ BatchCovered'
<1> USE DEF IInv, dbVars
<1>1. PICK x : x = worker[w]
  OBVIOUS
<1>2. /\ x \in WorkerState
      /\ Covered(x)
      /\ Covered(x)'
      /\ worker \in [Workers -> WorkerState]
  <2>1. x \in WorkerState /\ worker \in [Workers -> WorkerState]
    BY <1>1 DEF TypeOK
  <2>2. Covered(x)
    BY <1>1 DEF BatchCovered, Covered
  <2>3. QED
    BY <2>1, <2>2, CoveredStays
<1>3. UNCHANGED <<stream, cursor, events, skipped>>
  BY LocalStepCommitsNothing
<1>4. \A u : Settled(u)' = Settled(u)
  BY <1>3 DEF Settled
<1>5. /\ Len(stream) \in Nat
      /\ cursor \in 0..Len(stream)
      /\ \A u \in 1..cursor : Settled(u)
  BY DEF TypeOK, CursorCovered
<1>6. /\ x.next \in Nat
      /\ x.last \in Nat
      /\ x.sourceView \in [Sources -> SourceStatus \cup {Unloaded}]
      /\ x.connView \in ConnStatus \cup {Unloaded}
  BY <1>2 DEF WorkerState
<1>7. CASE \/ Refuse(w) \/ NormalizerCrashes(w) \/ FinishCycle(w) \/ Fail(w)
  <2>1. worker' = [worker EXCEPT ![w] = IdleWorker]
    BY <1>7 DEF Refuse, NormalizerCrashes, FinishCycle, Fail
  <2>2. QED
    BY <2>1, IdleIsCovered, WorkerMoves
<1>8. CASE StartCycle(w)
  <2>1. PICK y \in WorkerState :
          /\ worker' = [worker EXCEPT ![w] = y]
          /\ y.phase = "polling"
          /\ y.next = cursor + 1
          /\ y.last = cursor
    <3> DEFINE y == [IdleWorker EXCEPT !.phase = "polling",
                                       !.next = cursor + 1,
                                       !.last = cursor,
                                       !.connView = conn]
    <3>1. y \in WorkerState
      <4>1. PICK z \in WorkerState, p \in Phase, n \in Nat, l \in Nat,
                 c \in ConnStatus \cup {Unloaded} :
              /\ z = IdleWorker /\ p = "polling" /\ n = cursor + 1
              /\ l = cursor /\ c = conn
        BY <1>5, IdleIsCovered DEF TypeOK, Phase
      <4>2. y = [z EXCEPT !.phase = p, !.next = n, !.last = l, !.connView = c]
        BY <4>1
      <4>3. [z EXCEPT !.phase = p, !.next = n, !.last = l, !.connView = c] \in WorkerState
        BY MovedWorker
      <4> HIDE DEF y
      <4>4. QED
        BY <4>2, <4>3
    <3>2. y.phase = "polling" /\ y.next = cursor + 1 /\ y.last = cursor
      BY DEF IdleWorker
    <3>3. worker' = [worker EXCEPT ![w] = y]
      BY <1>8 DEF StartCycle
    <3>4. QED
      BY <3>1, <3>2, <3>3
  <2>2. Covered(y)'
    BY <1>3, <1>4, <1>5, <2>1 DEF Covered
  <2>3. QED
    BY <2>1, <2>2, WorkerMoves
<1>9. CASE PollReturns(w)
  <2>1. PICK y \in WorkerState :
          /\ worker' = [worker EXCEPT ![w] = y]
          /\ y.phase = "dispatch"
          /\ y.next = x.next
          /\ x.last <= y.last /\ y.last <= Len(stream)
    <3> DEFINE avail == Len(stream) - x.last
               last  == x.last + (IF avail <= BatchSize THEN avail ELSE BatchSize)
               view  == [s \in Sources |-> IF Live(s) THEN source[s] ELSE Unloaded]
               y     == [x EXCEPT !.phase = "dispatch",
                                  !.last = last,
                                  !.active = {s \in Sources : source[s] = "active"},
                                  !.sourceView = view]
    <3>1. x.last <= Len(stream)
      BY <1>1, <1>2, <1>9 DEF PollReturns, Covered
    <3>2. last \in Nat /\ x.last <= last /\ last <= Len(stream)
      BY <1>5, <1>6, <3>1
    <3>3. view \in [Sources -> SourceStatus \cup {Unloaded}]
      BY DEF TypeOK
    <3>4. y \in WorkerState
      BY <1>2, <3>2, <3>3 DEF WorkerState, Phase
    <3>5. y.phase = "dispatch" /\ y.next = x.next /\ y.last = last
      BY <1>2 DEF WorkerState
    <3>6. worker' = [worker EXCEPT ![w] = y]
      BY <1>1, <1>2, <1>9 DEF PollReturns
    <3> HIDE DEF y, last
    <3>7. QED
      BY <3>2, <3>4, <3>5, <3>6
  <2>2. Covered(y)'
    <3>1. x.phase = "polling"
      BY <1>1, <1>9 DEF PollReturns
    <3>2. y.last \in Nat
      BY DEF WorkerState
    <3>3. QED
      BY <1>2, <1>3, <1>4, <1>5, <1>6, <2>1, <3>1, <3>2 DEF Covered
  <2>3. QED
    BY <2>1, <2>2, WorkerMoves
<1>10. CASE Report(w)
  <2>1. PICK y \in WorkerState :
          /\ worker' = [worker EXCEPT ![w] = y]
          /\ y.phase = "dispatch" /\ y.next = x.next + 1 /\ y.last = x.last
    <3> DEFINE y == [x EXCEPT !.phase = "dispatch",
                              !.next = @ + 1,
                              !.connView = conn]
    <3>1. y \in WorkerState
      <4>1. PICK p \in Phase, n \in Nat, c \in ConnStatus \cup {Unloaded} :
              p = "dispatch" /\ n = x.next + 1 /\ c = conn
        <5>1. "dispatch" \in Phase
          BY DEF Phase
        <5>2. x.next + 1 \in Nat
          BY <1>6
        <5>3. conn \in ConnStatus
          BY DEF TypeOK
        <5>4. QED
          BY <5>1, <5>2, <5>3
      <4>2. y = [x EXCEPT !.phase = p, !.next = n, !.connView = c]
        BY <4>1, Zenon
      <4>3. [x EXCEPT !.phase = p, !.next = n, !.connView = c] \in WorkerState
        BY <1>2, MovedWorker
      <4> HIDE DEF y
      <4>4. QED
        BY <4>2, <4>3
    <3>2. y.phase = "dispatch" /\ y.next = x.next + 1 /\ y.last = x.last
      BY <1>2 DEF WorkerState
    <3>3. worker' = [worker EXCEPT ![w] = y]
      BY <1>1, <1>2, <1>10 DEF Report
    <3>4. QED
      BY <3>1, <3>2, <3>3
  <2>2. x.phase = "reporting"
    BY <1>1, <1>10 DEF Report
  <2>3. Covered(y)'
    BY <1>2, <1>3, <1>4, <1>5, <1>6, <2>1, <2>2 DEF Covered
  <2>4. QED
    BY <2>1, <2>3, WorkerMoves
<1>11. ASSUME NEW s \in Sources, ReplayShortCircuit(w, s)
       PROVE  worker' \in [Workers -> WorkerState] /\ BatchCovered'
  <2>1. PICK y \in WorkerState :
          /\ worker' = [worker EXCEPT ![w] = y]
          /\ y.phase = "dispatch" /\ y.next = x.next + 1 /\ y.last = x.last
    <3> DEFINE y == [Loaded(w, s) EXCEPT !.next = @ + 1]
    <3>1. x.phase = "dispatch" /\ worker' = [worker EXCEPT ![w] = y]
      BY <1>1, <1>11 DEF ReplayShortCircuit, InBatch
    <3>2. y \in WorkerState
      <4>1. PICK z \in WorkerState, n \in Nat : z = Loaded(w, s) /\ n = z.next + 1
        BY <1>1, <1>6, LoadedMovesNowhere
      <4>2. y = [z EXCEPT !.next = n]
        BY <4>1
      <4>3. [z EXCEPT !.next = n] \in WorkerState
        BY DEF WorkerState
      <4> HIDE DEF y
      <4>4. QED
        BY <4>2, <4>3
    <3>3. y.phase = x.phase /\ y.next = x.next + 1 /\ y.last = x.last
      BY <1>1, LoadedMovesNowhere DEF WorkerState
    <3>4. QED
      BY <3>1, <3>2, <3>3
  <2>2. x.phase = "dispatch" /\ x.next <= x.last
    BY <1>1, <1>11 DEF ReplayShortCircuit, InBatch
  <2>3. Settled(x.next)
    <3>1. SourceRef[s] = stream[x.next].chat
      BY <1>1, <1>11 DEF ReplayShortCircuit, Wants
    <3>2. PICK e \in events : e.source = s /\ e.key = x.next
      BY <1>1, <1>11 DEF ReplayShortCircuit, Existing
    <3>3. QED
      BY <3>1, <3>2 DEF Settled
  <2>4. Covered(y)'
    BY <1>2, <1>3, <1>4, <1>5, <1>6, <2>1, <2>2, <2>3 DEF Covered
  <2>5. QED
    BY <2>1, <2>4, WorkerMoves
<1>12. ASSUME NEW s \in Sources, Admit(w, s)
       PROVE  worker' \in [Workers -> WorkerState] /\ BatchCovered'
  <2>1. PICK y \in WorkerState :
          /\ worker' = [worker EXCEPT ![w] = y]
          /\ y.phase = "matching" /\ y.next = x.next /\ y.last = x.last
    <3> DEFINE y == [Loaded(w, s) EXCEPT !.phase = "matching"]
    <3>1. worker' = [worker EXCEPT ![w] = y]
      BY <1>12 DEF Admit
    <3>2. y \in WorkerState
      BY LoadedMovesNowhere, MovedWorker DEF Phase
    <3>3. y.phase = "matching" /\ y.next = x.next /\ y.last = x.last
      BY <1>1, LoadedMovesNowhere DEF WorkerState
    <3>4. QED
      BY <3>1, <3>2, <3>3
  <2>2. x.phase = "dispatch" /\ x.next <= x.last
    BY <1>1, <1>12 DEF Admit, InBatch
  <2>3. Covered(y)'
    BY <1>2, <1>3, <1>4, <1>5, <1>6, <2>1, <2>2 DEF Covered
  <2>4. QED
    BY <2>1, <2>3, WorkerMoves
<1>13. ASSUME NEW s \in Sources, MatchControl(w, s) \/ Normalize(w, s)
       PROVE  worker' \in [Workers -> WorkerState] /\ BatchCovered'
  <2>1. PICK outcome \in EventState, r \in Requests \cup {NoRequest} :
          worker' = [worker EXCEPT ![w].phase = "writing",
                                   ![w].outcome = outcome,
                                   ![w].request = r]
    <3>1. CASE MatchControl(w, s)
      <4>1. stream[worker[w].next].nonce \in Requests \cup {NoRequest}
        <5>1. x.next \in 1..Len(stream)
          BY <1>1, <1>2, <1>5, <1>6, <3>1 DEF MatchControl, Covered
        <5>2. stream[x.next] \in Update
          BY <5>1 DEF TypeOK
        <5>3. QED
          BY <1>1, <5>2 DEF Update
      <4>2. QED
        BY <3>1, <4>1 DEF MatchControl, EventState
    <3>2. CASE Normalize(w, s)
      <4> DEFINE u == stream[worker[w].next]
                 outcome == IF u.kind = "valid" THEN "normalized" ELSE "rejected"
                 r == IF Matches(u.nonce, s) /\ request[u.nonce].overdue
                      THEN u.nonce ELSE NoRequest
      <4>1. r \in Requests \cup {NoRequest}
        <5>1. x.next \in 1..Len(stream)
          BY <1>1, <1>2, <1>5, <1>6, <3>2 DEF Normalize, Covered
        <5>2. stream[x.next] \in Update
          BY <5>1 DEF TypeOK
        <5>3. QED
          BY <1>1, <5>2 DEF Update
      <4>2. outcome \in EventState
        BY DEF EventState
      <4>3. worker' = [worker EXCEPT ![w].phase = "writing",
                                     ![w].outcome = outcome,
                                     ![w].request = r]
        BY <3>2 DEF Normalize
      <4> HIDE DEF outcome, r
      <4>4. QED
        BY <4>1, <4>2, <4>3
    <3>3. QED
      BY <1>13, <3>1, <3>2
  <2>2. PICK y \in WorkerState :
          /\ worker' = [worker EXCEPT ![w] = y]
          /\ y.phase = "writing" /\ y.outcome # "none"
          /\ y.next = x.next /\ y.last = x.last
    <3> DEFINE y == [x EXCEPT !.phase = "writing",
                              !.outcome = outcome,
                              !.request = r]
    <3>1. worker' = [worker EXCEPT ![w] = y]
      BY <1>1, <1>2, <2>1
    <3>2. y \in WorkerState /\ y.phase = "writing" /\ y.outcome # "none"
          /\ y.next = x.next /\ y.last = x.last
      BY <1>2, <2>1 DEF WorkerState, Phase, EventState
    <3>3. QED
      BY <3>1, <3>2
  <2>3. x.phase = "matching"
    BY <1>1, <1>13 DEF MatchControl, Normalize
  <2>4. Covered(y)'
    BY <1>2, <1>3, <1>4, <1>5, <1>6, <2>2, <2>3 DEF Covered
  <2>5. QED
    BY <2>2, <2>4, WorkerMoves
<1>14. ASSUME NEW s \in Sources, LoseRace(w, s)
       PROVE  worker' \in [Workers -> WorkerState] /\ BatchCovered'
  <2>1. PICK y \in WorkerState :
          /\ worker' = [worker EXCEPT ![w] = y]
          /\ y.phase = "reporting" /\ y.next = x.next /\ y.last = x.last
    <3> DEFINE y == [Expired(w) EXCEPT !.sourceView[s] = source[s]]
    <3>1. worker' = [worker EXCEPT ![w] = y]
      BY <1>14 DEF LoseRace
    <3>2. y \in WorkerState
      BY <1>1, <1>2, <1>6
         DEF TypeOK, WorkerState, Phase, Expired, NothingLoaded
    <3>3. y.phase = "reporting" /\ y.next = x.next /\ y.last = x.last
      BY <1>1, <1>2 DEF WorkerState, Expired
    <3>4. QED
      BY <3>1, <3>2, <3>3
  <2>2. x.phase = "writing"
    BY <1>1, <1>14 DEF LoseRace
  <2>3. Settled(x.next)
    <3>1. SourceRef[s] = stream[x.next].chat /\ x.outcome = "normalized"
      BY <1>1, <1>14 DEF LoseRace, Wants
    <3>2. PICK e \in events : e.source = s /\ e.key = stream[x.next].ext
      BY <1>1, <1>14, <3>1 DEF LoseRace, Existing, RowKey
    <3>3. QED
      BY <3>1, <3>2 DEF Settled
  <2>4. Covered(y)'
    BY <1>2, <1>3, <1>4, <1>5, <1>6, <2>1, <2>2, <2>3 DEF Covered
  <2>5. QED
    BY <2>1, <2>4, WorkerMoves
<1>15. QED
  BY <1>7, <1>8, <1>9, <1>10, <1>11, <1>12, <1>13, <1>14 DEF LocalStep

-----------------------------------------------------------------------------
(***************************************************************************)
(* The two commits that move the cursor.                                   *)
(***************************************************************************)
Commit(w) == AdvanceIgnored(w) \/ \E s \in Sources : CommitRow(w, s)

\* A commit puts the cursor on the worker's update, which it settles, behind
\* updates that were settled before.
LEMMA CommitSettles ==
    ASSUME IInv, [Next]_vars, NEW w \in Workers, Commit(w)
    PROVE  /\ stream' = stream
           /\ cursor' = worker[w].next
           /\ worker[w].phase \in {"dispatch", "writing"}
           /\ worker[w].next \in 1..worker[w].last
           /\ worker[w].last <= Len(stream)
           /\ \A u \in 1..worker[w].next : Settled(u)'
<1> USE DEF IInv
<1>1. PICK x \in WorkerState : x = worker[w]
  BY DEF TypeOK
<1>2. x.next \in Nat /\ x.last \in Nat
  BY DEF WorkerState
<1>3. /\ stream' = stream
      /\ cursor' = x.next
      /\ x.phase \in {"dispatch", "writing"}
      /\ x.next \in 1..x.last
      /\ x.last <= Len(stream)
      /\ \A u \in 1..(x.next - 1) : Settled(u)
  <2>1. Covered(x)
    BY <1>1 DEF BatchCovered, Covered
  <2>2. CASE AdvanceIgnored(w)
    BY <1>1, <1>2, <2>1, <2>2 DEF AdvanceIgnored, InBatch, Covered
  <2>3. ASSUME NEW s \in Sources, CommitRow(w, s)
        PROVE  /\ stream' = stream
               /\ cursor' = x.next
               /\ x.phase = "writing"
    BY <1>1, <2>3 DEF CommitRow
  <2>4. CASE \E s \in Sources : CommitRow(w, s)
    BY <1>2, <2>1, <2>3, <2>4 DEF Covered
  <2>5. QED
    BY <2>2, <2>4 DEF Commit
<1>4. Settled(x.next)'
  <2>1. CASE AdvanceIgnored(w)
    BY <1>1, <2>1 DEF AdvanceIgnored, Settled
  <2>2. ASSUME NEW s \in Sources, CommitRow(w, s)
        PROVE  Settled(x.next)'
    <3> DEFINE e == NewRow(w, s)
    <3>1. e \in events' /\ stream' = stream
      BY <2>2 DEF CommitRow
    <3>2. e.source = s /\ e.key \in {x.next, stream[x.next].ext}
      BY <1>1 DEF NewRow, RowKey
    <3>3. SourceRef[s] = stream[x.next].chat
      BY <1>1, <2>2 DEF CommitRow, Wants
    <3>4. QED
      BY <3>1, <3>2, <3>3 DEF Settled
  <2>3. QED
    BY <2>1, <2>2 DEF Commit
<1>5. Len(stream) \in Nat
  BY StreamStays
<1>6. ASSUME NEW u \in 1..x.next
      PROVE  Settled(u)'
  <2>1. CASE u = x.next
    BY <1>4, <2>1
  <2>2. CASE u # x.next
    <3>1. u \in 1..(x.next - 1) /\ u \in 1..Len(stream)
      BY <1>2, <1>3, <1>5, <2>2
    <3>2. QED
      BY <1>3, <3>1, SettledStays
  <2>3. QED
    BY <2>1, <2>2
<1>7. QED
  BY <1>1, <1>3, <1>6

\* After the commit the worker stands behind what it has just settled.
LEMMA CommitCovered ==
    ASSUME IInv, [Next]_vars, NEW w \in Workers, Commit(w)
    PROVE  worker' \in [Workers -> WorkerState] /\ BatchCovered'
<1>1. PICK x \in WorkerState : x = worker[w]
  BY DEF IInv, TypeOK
<1>2. x.next \in Nat /\ x.last \in Nat /\ worker \in [Workers -> WorkerState]
  BY DEF WorkerState, IInv, TypeOK
<1>3. /\ stream' = stream
      /\ x.next \in 1..x.last
      /\ x.last <= Len(stream)
      /\ \A u \in 1..x.next : Settled(u)'
  BY <1>1, CommitSettles
<1>4. PICK y \in WorkerState :
        /\ worker' = [worker EXCEPT ![w] = y]
        /\ y.last = x.last
        /\ \/ y.phase = "dispatch" /\ y.next = x.next + 1
           \/ y.phase = "reporting" /\ y.next = x.next
  <2>1. NothingLoaded \in [Sources -> SourceStatus \cup {Unloaded}]
    BY DEF NothingLoaded
  <2>2. CASE AdvanceIgnored(w)
    <3> DEFINE y == [x EXCEPT !.next = @ + 1,
                              !.connView = Unloaded,
                              !.sourceView = NothingLoaded]
    <3>1. worker' = [worker EXCEPT ![w] = y] /\ x.phase = "dispatch"
      BY <1>1, <1>2, <2>2 DEF AdvanceIgnored, InBatch
    <3>2. y \in WorkerState
      <4>1. PICK n \in Nat, view \in [Sources -> SourceStatus \cup {Unloaded}] :
              n = x.next + 1 /\ view = NothingLoaded
        BY <1>2, <2>1
      <4>2. y = [x EXCEPT !.next = n, !.connView = Unloaded, !.sourceView = view]
        BY <4>1
      <4>3. [x EXCEPT !.next = n, !.connView = Unloaded, !.sourceView = view]
               \in WorkerState
        BY DEF WorkerState
      <4> HIDE DEF y
      <4>4. QED
        BY <4>2, <4>3
    <3>3. y.phase = x.phase /\ y.next = x.next + 1 /\ y.last = x.last
      BY DEF WorkerState
    <3> HIDE DEF y
    <3>4. QED
      BY <3>1, <3>2, <3>3
  <2>3. ASSUME NEW s \in Sources, CommitRow(w, s)
        PROVE  \E y \in WorkerState :
                  /\ worker' = [worker EXCEPT ![w] = y]
                  /\ y.last = x.last
                  /\ y.phase = "reporting" /\ y.next = x.next
    <3> DEFINE y == Expired(w)
    <3>1. worker' = [worker EXCEPT ![w] = y]
      BY <2>3 DEF CommitRow
    <3>2. y \in WorkerState
      BY <1>1, <2>1 DEF WorkerState, Phase, Expired
    <3>3. y.phase = "reporting" /\ y.next = x.next /\ y.last = x.last
      BY <1>1 DEF WorkerState, Expired
    <3> HIDE DEF y
    <3>4. QED
      BY <3>1, <3>2, <3>3
  <2>4. QED
    BY <2>2, <2>3 DEF Commit
<1>5. Covered(y)'
  BY <1>2, <1>3, <1>4 DEF Covered
<1>6. QED
  BY <1>4, <1>5, WorkerMoves DEF IInv

-----------------------------------------------------------------------------
(***************************************************************************)
(* The other rows keep their types.                                        *)
(***************************************************************************)
RowsOK ==
    /\ stream \in Seq(Update)
    /\ conn \in ConnStatus
    /\ bound \in BOOLEAN
    /\ cursor \in Nat
    /\ source \in [Sources -> SourceStatus]
    /\ request \in [Requests -> Request]
    /\ expiring \in SUBSET Requests
    /\ events \in SUBSET Event
    /\ skipped \in SUBSET Nat
    /\ late \in [Workers -> [Sources -> Nat]]

\* An activation keeps the history of late rows typed.
LEMMA ForgetLateTyped ==
    ASSUME TypeOK, NEW S, ForgetLate(S)
    PROVE  late' \in [Workers -> [Sources -> Nat]]
  BY DEF TypeOK, ForgetLate

\* Changing the status or the clock of one handshake keeps the table typed.
LEMMA RequestTyped ==
    ASSUME TypeOK, NEW r \in Requests,
           NEW st \in {"none", "awaiting", "verified", "expired"}
    PROVE  /\ [request EXCEPT ![r].status = st] \in [Requests -> Request]
           /\ [request EXCEPT ![r].overdue = TRUE] \in [Requests -> Request]
<1>1. PICK x \in Request : x = request[r]
  BY DEF TypeOK
<1>2. [x EXCEPT !.status = st] \in Request /\ [x EXCEPT !.overdue = TRUE] \in Request
  BY DEF Request
<1>3. PICK y, z : y = [x EXCEPT !.status = st] /\ z = [x EXCEPT !.overdue = TRUE]
  OBVIOUS
<1>4. /\ [request EXCEPT ![r].status = st] = [request EXCEPT ![r] = y]
      /\ [request EXCEPT ![r].overdue = TRUE] = [request EXCEPT ![r] = z]
  BY <1>1, <1>3
<1>5. QED
  BY <1>2, <1>3, <1>4 DEF TypeOK

\* The operations of service.py and the status view keep every row typed.
LEMMA AdminTyped ==
    ASSUME TypeOK, Admin
    PROVE  RowsOK'
<1> USE DEF TypeOK, RowsOK, AdminUnchanged, dbVars
<1>1. ASSUME NEW b \in BOOLEAN, BindIdentity(b)
      PROVE  RowsOK'
  <2>1. late' \in [Workers -> [Sources -> Nat]]
    BY <1>1, ForgetLateTyped DEF BindIdentity
  <2>2. QED
    BY <1>1, <2>1 DEF BindIdentity, ConnStatus
<1>2. ASSUME NEW b \in BOOLEAN, SetConnectionEnabled(b)
      PROVE  RowsOK'
  <2>1. late' \in [Workers -> [Sources -> Nat]]
    BY <1>2, ForgetLateTyped DEF SetConnectionEnabled
  <2>2. QED
    BY <1>2, <2>1 DEF SetConnectionEnabled, ConnStatus
<1>3. CASE RevokeConnection \/ SoftDeleteConnection
  BY <1>3 DEF RevokeConnection, SoftDeleteConnection, ConnStatus
<1>4. ASSUME NEW s \in Sources, NEW b \in BOOLEAN, CreateSource(s, b)
      PROVE  RowsOK'
  <2>1. late' \in [Workers -> [Sources -> Nat]]
    BY <1>4, ForgetLateTyped DEF CreateSource
  <2>2. source' \in [Sources -> SourceStatus]
    BY <1>4 DEF CreateSource, SourceStatus
  <2>3. QED
    BY <1>4, <2>1, <2>2 DEF CreateSource
<1>5. ASSUME NEW s \in Sources, NEW b \in BOOLEAN, SetSourceEnabled(s, b)
      PROVE  RowsOK'
  <2>1. late' \in [Workers -> [Sources -> Nat]]
    BY <1>5, ForgetLateTyped DEF SetSourceEnabled
  <2>2. source' \in [Sources -> SourceStatus]
    BY <1>5 DEF SetSourceEnabled, SourceStatus
  <2>3. QED
    BY <1>5, <2>1, <2>2 DEF SetSourceEnabled
<1>6. ASSUME NEW s \in Sources, SoftDeleteSource(s)
      PROVE  RowsOK'
  BY <1>6 DEF SoftDeleteSource, SourceStatus
<1>7. ASSUME NEW r \in Requests, RequestSourceTest(r) \/ RequestFallsDue(r)
      PROVE  RowsOK'
  <2>1. request' \in [Requests -> Request]
    <3>1. CASE RequestSourceTest(r)
      <4>1. request' = [request EXCEPT ![r].status = "awaiting"]
        BY <3>1 DEF RequestSourceTest
      <4>2. QED
        BY <4>1, RequestTyped
    <3>2. CASE RequestFallsDue(r)
      <4>1. request' = [request EXCEPT ![r].overdue = TRUE]
        BY <3>2 DEF RequestFallsDue
      <4>2. QED
        BY <4>1, RequestTyped
    <3>3. QED
      BY <1>7, <3>1, <3>2
  <2>2. QED
    BY <1>7, <2>1 DEF RequestSourceTest, RequestFallsDue
<1>8. ASSUME NEW r \in Requests, StatusViewReads(r)
      PROVE  RowsOK'
  BY <1>8 DEF StatusViewReads
<1>9. ASSUME NEW r \in Requests, StatusViewWrites(r)
      PROVE  RowsOK'
  <2>1. request' \in [Requests -> Request]
    BY <1>9, RequestTyped DEF StatusViewWrites
  <2>2. QED
    BY <1>9, <2>1 DEF StatusViewWrites
<1>10. QED
  BY <1>1, <1>2, <1>3, <1>4, <1>5, <1>6, <1>7, <1>8, <1>9 DEF Admin

\* A worker's step that commits nothing changes its own local state only.
LEMMA LocalStepTyped ==
    ASSUME TypeOK, NEW w \in Workers, LocalStep(w)
    PROVE  RowsOK'
<1>1. UNCHANGED <<stream, dbVars, expiring, skipped, late>>
  <2>1. CASE \/ StartCycle(w) \/ PollReturns(w) \/ Refuse(w)
             \/ NormalizerCrashes(w) \/ Report(w) \/ FinishCycle(w) \/ Fail(w)
    BY <2>1 DEF StartCycle, PollReturns, Refuse, NormalizerCrashes, Report,
                FinishCycle, Fail
  <2>2. ASSUME NEW s \in Sources,
               \/ ReplayShortCircuit(w, s)
               \/ Admit(w, s)
               \/ MatchControl(w, s)
               \/ Normalize(w, s)
               \/ LoseRace(w, s)
        PROVE  UNCHANGED <<stream, dbVars, expiring, skipped, late>>
    BY <2>2 DEF ReplayShortCircuit, Admit, MatchControl, Normalize, LoseRace
  <2>3. QED
    BY <2>1, <2>2 DEF LocalStep
<1>2. QED
  BY <1>1 DEF TypeOK, RowsOK, dbVars

\* The commit of ingest_update writes a row of the type Event and a typed
\* handshake.
LEMMA CommitTyped ==
    ASSUME IInv, [Next]_vars, NEW w \in Workers, Commit(w)
    PROVE  RowsOK'
<1> USE DEF IInv, RowsOK
<1>1. PICK x \in WorkerState : x = worker[w]
  BY DEF TypeOK
<1>2. /\ x.next \in Nat
      /\ x.next \in 1..Len(stream)
      /\ cursor' = x.next
      /\ stream' = stream
  <2>1. x.next \in Nat /\ x.last \in Nat /\ Len(stream) \in Nat
    BY StreamStays DEF WorkerState
  <2>2. QED
    BY <1>1, <2>1, CommitSettles
<1>3. CASE AdvanceIgnored(w)
  BY <1>1, <1>2, <1>3 DEF AdvanceIgnored, TypeOK
<1>4. ASSUME NEW s \in Sources, CommitRow(w, s)
      PROVE  RowsOK'
  <2>1. NewRow(w, s) \in Event
    <3>1. stream[x.next].ext \in Nat
      <4>1. stream \in Seq(Update)
        BY DEF TypeOK
      <4>2. stream[x.next] \in Update
        BY <1>2, <4>1
      <4>3. QED
        BY <4>2 DEF Update
    <3>2. x.outcome \in EventState
      BY <1>1, <1>4 DEF BatchCovered, Covered, CommitRow, WorkerState
    <3>3. x.request \in Requests \cup {NoRequest}
      BY DEF WorkerState
    <3>4. QED
      BY <1>1, <1>2, <3>1, <3>2, <3>3 DEF NewRow, RowKey, Event
  <2>2. request' \in [Requests -> Request]
    <3>1. x.request \in Requests \cup {NoRequest}
      BY DEF WorkerState
    <3>2. PICK st : st = IF x.outcome = "control" THEN "verified" ELSE "expired"
      OBVIOUS
    <3>3. request' = IF x.request = NoRequest THEN request
                     ELSE [request EXCEPT ![x.request].status = st]
      BY <1>1, <1>4, <3>2 DEF CommitRow
    <3>4. CASE x.request = NoRequest
      BY <3>3, <3>4 DEF TypeOK
    <3>5. CASE x.request # NoRequest
      BY <3>1, <3>2, <3>3, <3>5, RequestTyped
    <3>6. QED
      BY <3>4, <3>5
  <2>3. late' \in [Workers -> [Sources -> Nat]]
    BY <1>4 DEF CommitRow, TypeOK
  <2>4. events' \in SUBSET Event
    BY <1>4, <2>1 DEF CommitRow, TypeOK
  <2>5. QED
    BY <1>2, <1>4, <2>2, <2>3, <2>4 DEF CommitRow, TypeOK
<1>5. QED
  BY <1>3, <1>4 DEF Commit

-----------------------------------------------------------------------------
(***************************************************************************)
(* The inductive invariant.                                                *)
(***************************************************************************)
\* A freshly created connection satisfies the invariant.
LEMMA InitIInv == Init => IInv
<1> SUFFICES ASSUME Init
             PROVE  IInv
  OBVIOUS
<1> USE DEF Init
<1>1. stream \in Seq(Update) /\ Len(stream) = 0
  OBVIOUS
<1>2. IdleWorker \in WorkerState
  BY DEF IdleWorker, NothingLoaded, WorkerState, Phase, EventState
<1>3. TypeOK
  BY <1>1, <1>2 DEF TypeOK, ConnStatus, SourceStatus, Request
<1>4. CursorCovered
  BY <1>1 DEF CursorCovered
<1>5. BatchCovered
  BY DEF BatchCovered, Covered, IdleWorker
<1>6. QED
  BY <1>3, <1>4, <1>5 DEF IInv

\* The cursor stays behind settled updates: only a commit moves it.
LEMMA CursorStaysCovered ==
    ASSUME IInv, [Next]_vars
    PROVE  CursorCovered'
<1>1. CASE cursor' = cursor
  <2>1. cursor \in Nat /\ cursor <= Len(stream) /\ Len(stream) <= Len(stream')
        /\ Len(stream) \in Nat /\ Len(stream') \in Nat
    BY StreamStays DEF IInv, TypeOK, CursorCovered
  <2>2. ASSUME NEW u \in 1..cursor
        PROVE  Settled(u)'
    BY <2>1, SettledStays DEF IInv, CursorCovered
  <2>3. QED
    BY <1>1, <2>1, <2>2 DEF CursorCovered
<1>2. ASSUME NEW w \in Workers, Commit(w)
      PROVE  CursorCovered'
  <2>1. PICK x \in WorkerState : x = worker[w]
    BY DEF IInv, TypeOK
  <2>2. x.next \in Nat /\ x.last \in Nat /\ Len(stream) \in Nat
    BY StreamStays DEF IInv, WorkerState
  <2>3. QED
    BY <1>2, <2>1, <2>2, CommitSettles DEF CursorCovered
<1>3. CASE Publish \/ UNCHANGED vars
  BY <1>1, <1>3 DEF Publish, dbVars, vars
<1>4. QED
  BY <1>1, <1>2, <1>3, AdminStep, StepCases, LocalStepCommitsNothing
     DEF Next, Commit

\* Every step of the pipeline keeps types, the cursor and all workers' places.
LEMMA NextIInv == IInv /\ [Next]_vars => IInv'
<1> SUFFICES ASSUME IInv, [Next]_vars
             PROVE  IInv'
  OBVIOUS
<1>1. ASSUME UNCHANGED worker
      PROVE  worker' \in [Workers -> WorkerState] /\ BatchCovered'
  <2>1. worker \in [Workers -> WorkerState]
    BY DEF IInv, TypeOK
  <2>2. ASSUME NEW w \in Workers
        PROVE  Covered(worker[w])'
    <3>1. PICK x \in WorkerState : x = worker[w]
      BY <2>1
    <3>2. Covered(x)
      BY <3>1 DEF IInv, BatchCovered, Covered
    <3>3. QED
      BY <1>1, <3>1, <3>2, CoveredStays DEF IInv, Covered
  <2>3. QED
    BY <1>1, <2>1, <2>2 DEF BatchCovered
<1>2. CASE UNCHANGED vars
  <2>1. RowsOK'
    BY <1>2 DEF IInv, TypeOK, RowsOK, vars
  <2>2. QED
    BY <1>1, <1>2, <2>1, CursorStaysCovered DEF IInv, TypeOK, RowsOK, vars
<1>3. CASE Publish
  <2>1. RowsOK'
    BY <1>3, Grows DEF IInv, TypeOK, RowsOK, Publish, dbVars
  <2>2. QED
    BY <1>1, <1>3, <2>1, CursorStaysCovered DEF IInv, TypeOK, RowsOK, Publish
<1>4. CASE Admin
  BY <1>1, <1>4, AdminStep, AdminTyped, CursorStaysCovered
     DEF IInv, TypeOK, RowsOK
<1>5. ASSUME NEW w \in Workers, Commit(w)
      PROVE  IInv'
  BY <1>5, CommitTyped, CommitCovered, CursorStaysCovered
     DEF IInv, TypeOK, RowsOK
<1>6. ASSUME NEW w \in Workers, LocalStep(w)
      PROVE  IInv'
  <2>1. RowsOK'
    BY <1>6, LocalStepTyped DEF IInv
  <2>2. worker' \in [Workers -> WorkerState] /\ BatchCovered'
    BY <1>6, LocalStepCovered
  <2>3. QED
    BY <2>1, <2>2, CursorStaysCovered DEF IInv, TypeOK, RowsOK
<1>7. QED
  BY <1>2, <1>3, <1>4, <1>5, <1>6, StepCases DEF Next, Commit

\* The invariant holds in every reachable state of the pipeline.
LEMMA Inductive == Spec => []IInv
  BY InitIInv, NextIInv, PTL DEF Spec

\* Every variable of the pipeline keeps its type, with any number of
\* workers, whatever the provider publishes and whatever fails.
THEOREM Typed == Spec => []TypeOK
  BY Inductive, PTL DEF IInv

\* The cursor of worker.py and ingest.py never passes an update that is
\* neither recorded nor ignored, for any number of workers that share it.
THEOREM CursorSafe == Spec => []CursorCovered
  BY Inductive, PTL DEF IInv

\* No worker in the middle of its batch (worker.py's dispatch loop) stands
\* behind an unsettled update, however stale its batch is.
THEOREM BatchSafe == Spec => []BatchCovered
  BY Inductive, PTL DEF IInv

-----------------------------------------------------------------------------
(***************************************************************************)
(* The pipeline implements UpdateIntake: a publication is a Publish, the   *)
(* two commits are Settle steps, everything else stutters.                 *)
(***************************************************************************)
SettledSet == {u \in Published : Settled(u)}

\* A freshly created connection has published, settled and marked nothing.
LEMMA InitIntake == Init => Intake!Init
<1> SUFFICES ASSUME Init
             PROVE  Intake!Init
  OBVIOUS
<1>1. Len(stream) = 0
  BY DEF Init
<1>2. QED
  BY <1>1 DEF Init, Intake!Init, Published

\* A commit settles the updates that the new row (or the ignored update)
\* answers and puts the cursor on one whose predecessors are settled.
LEMMA CommitIsSettle ==
    ASSUME IInv, [Next]_vars, NEW w \in Workers, Commit(w)
    PROVE  Intake!Settle
<1>1. PICK x \in WorkerState : x = worker[w]
  BY DEF IInv, TypeOK
<1>2. x.next \in Nat /\ x.last \in Nat /\ Len(stream) \in Nat
  BY StreamStays DEF IInv, WorkerState
<1>3. /\ stream' = stream
      /\ cursor' = x.next
      /\ x.next \in 1..Len(stream)
      /\ \A u \in 1..x.next : Settled(u)'
  BY <1>1, <1>2, CommitSettles
<1>4. PICK S : S = SettledSet'
  OBVIOUS
<1>5. S \in SUBSET (1..Len(stream)) /\ x.next \in S
  BY <1>3, <1>4 DEF SettledSet, Published
<1>6. SettledSet \subseteq S
  BY <1>3, <1>4, SettledStays DEF IInv, SettledSet, Published
<1>7. 1..x.next \subseteq S
  BY <1>2, <1>3, <1>4 DEF SettledSet, Published
<1>8. SettledSet' = SettledSet \cup S
  BY <1>4, <1>6
<1>9. QED
  BY <1>3, <1>4, <1>5, <1>7, <1>8 DEF Intake!Settle, SettledSet

\* Every step of the pipeline is a Publish, a Settle or a stutter of UpdateIntake.
LEMMA NextIntake == IInv /\ [Next]_vars => [Intake!Next]_(Intake!intakeVars)
<1> SUFFICES ASSUME IInv, [Next]_vars
             PROVE  [Intake!Next]_(Intake!intakeVars)
  OBVIOUS
<1>1. ASSUME UNCHANGED <<stream, cursor, events, skipped>>
      PROVE  UNCHANGED Intake!intakeVars
  BY <1>1 DEF Intake!intakeVars, Published, Settled
<1>2. CASE UNCHANGED vars
  BY <1>1, <1>2 DEF vars
<1>3. CASE Publish
  <2>1. PICK u \in Update : stream' = Append(stream, u)
    BY <1>3, SMTT(30) DEF Publish, Update, IInv, TypeOK
  <2>2. UNCHANGED <<cursor, events, skipped>>
    BY <1>3 DEF Publish, dbVars
  <2>3. Len(stream) \in Nat /\ Len(stream') = Len(stream) + 1
    BY <2>1 DEF IInv, TypeOK
  <2>4. \A k \in 1..Len(stream) : stream'[k] = stream[k]
    BY StreamStays DEF IInv
  <2>5. \A k \in 1..Len(stream) : Settled(k)' <=> Settled(k)
    BY <2>2, <2>4 DEF Settled
  <2>6. SettledSet' \in {SettledSet, SettledSet \cup {Len(stream) + 1}}
    <3>1. CASE Settled(Len(stream) + 1)'
      BY <2>3, <2>5, <3>1 DEF SettledSet, Published
    <3>2. CASE ~Settled(Len(stream) + 1)'
      BY <2>3, <2>5, <3>2 DEF SettledSet, Published
    <3>3. QED
      BY <3>1, <3>2
  <2>7. QED
    BY <2>2, <2>3, <2>6 DEF Intake!Next, Intake!Publish, SettledSet
<1>4. CASE Admin
  BY <1>1, <1>4, AdminStep
<1>5. ASSUME NEW w \in Workers, Commit(w)
      PROVE  Intake!Next
  BY <1>5, CommitIsSettle DEF Intake!Next
<1>6. ASSUME NEW w \in Workers, LocalStep(w)
      PROVE  UNCHANGED Intake!intakeVars
  BY <1>1, <1>6, LocalStepCommitsNothing
<1>7. QED
  BY <1>2, <1>3, <1>4, <1>5, <1>6, StepCases DEF Next, Commit

\* Whatever workers, faults and administrators do, the pipeline of ingest.py
\* and worker.py does to updates and cursor only what UpdateIntake allows.
THEOREM ImplementsIntake == Spec => IntakeSpec
  BY InitIntake, NextIntake, Inductive, PTL
     DEF Spec, IntakeSpec, Intake!Spec
=============================================================================
