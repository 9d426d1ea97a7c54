------------------------ MODULE CollectionRowsProofs ------------------------
(***************************************************************************)
(* Theorems about the rows the collection pipeline leaves behind.          *)
(*                                                                         *)
(* With one worker the cursor stands right behind the worker's place       *)
(* (Place), so every commit moves it forward and records an update that no *)
(* row has yet.  With several workers what is left are the promises of the *)
(* database and of the session: the unique index on a row's key, and       *)
(* loaded attributes that are good for one commit only.                    *)
(***************************************************************************)
EXTENDS CollectionIngestProofs, FiniteSetTheorems

OneWorker == \A v, w \in Workers : v = w

-----------------------------------------------------------------------------
(***************************************************************************)
(* What each step leaves in the worker that takes it.                      *)
(***************************************************************************)

\* A worker's step moves that worker only.
LEMMA OtherWorkersStay ==
    ASSUME NEW w \in Workers, Step(w) \/ Fail(w),
           worker \in [Workers -> WorkerState]
    PROVE  \A v \in Workers : v # w => worker'[v] = worker[v]
<1>1. CASE \/ StartCycle(w) \/ PollReturns(w) \/ AdvanceIgnored(w)
           \/ Refuse(w) \/ NormalizerCrashes(w) \/ Report(w)
           \/ FinishCycle(w) \/ Fail(w)
  BY <1>1 DEF StartCycle, PollReturns, AdvanceIgnored, Refuse,
              NormalizerCrashes, Report, FinishCycle, Fail
<1>2. ASSUME NEW s \in Sources,
             \/ ReplayShortCircuit(w, s) \/ Admit(w, s)
             \/ MatchControl(w, s) \/ Normalize(w, s)
             \/ CommitRow(w, s) \/ LoseRace(w, s)
      PROVE  \A v \in Workers : v # w => worker'[v] = worker[v]
  BY <1>2 DEF ReplayShortCircuit, Admit, MatchControl, Normalize, CommitRow,
              LoseRace
<1>3. QED
  BY <1>1, <1>2 DEF Step

\* x holds of the session what y holds.
SameSession(x, y) ==
    /\ y.active = x.active
    /\ y.connView = x.connView
    /\ y.sourceView = x.sourceView

\* The steps that drop the batch.
LEMMA GivesUp ==
    ASSUME NEW w \in Workers, worker \in [Workers -> WorkerState],
           \/ Refuse(w) \/ NormalizerCrashes(w) \/ FinishCycle(w) \/ Fail(w)
    PROVE  /\ worker'[w].phase = "idle"
           /\ worker'[w].active = {}
           /\ worker'[w].connView = Unloaded
           /\ worker'[w].sourceView = NothingLoaded
<1>1. worker'[w] = IdleWorker
  BY DEF Refuse, NormalizerCrashes, FinishCycle, Fail
<1>2. QED
  BY <1>1 DEF IdleWorker

\* A cycle starts behind the cursor with the connection loaded as active.
LEMMA Starts ==
    ASSUME NEW w \in Workers, worker \in [Workers -> WorkerState],
           StartCycle(w)
    PROVE  /\ conn = "active"
           /\ worker'[w].phase = "polling"
           /\ worker'[w].next = cursor + 1
           /\ worker'[w].active = {}
           /\ worker'[w].sourceView = NothingLoaded
<1>1. PICK y : /\ y = [IdleWorker EXCEPT !.phase = "polling",
                                         !.next = cursor + 1,
                                         !.last = cursor,
                                         !.connView = conn]
               /\ worker' = [worker EXCEPT ![w] = y]
  BY DEF StartCycle
<1>2. /\ y.phase = "polling" /\ y.next = cursor + 1 /\ y.active = {}
      /\ y.sourceView = NothingLoaded
  BY <1>1 DEF IdleWorker
<1>3. QED
  BY <1>1, <1>2 DEF StartCycle

\* A poll loads the live sources and takes the active ones for the batch.
LEMMA Polls ==
    ASSUME NEW w \in Workers, worker \in [Workers -> WorkerState],
           PollReturns(w)
    PROVE  /\ worker[w].phase = "polling"
           /\ worker'[w].phase = "dispatch"
           /\ worker'[w].next = worker[w].next
           /\ worker'[w].active = {s \in Sources : source[s] = "active"}
           /\ worker'[w].connView = worker[w].connView
           /\ worker'[w].sourceView =
                 [s \in Sources |-> IF Live(s) THEN source[s] ELSE Unloaded]
<1>1. PICK x \in WorkerState : x = worker[w]
  OBVIOUS
<1>2. PICK l, a, v, y :
        /\ a = {s \in Sources : source[s] = "active"}
        /\ v = [s \in Sources |-> IF Live(s) THEN source[s] ELSE Unloaded]
        /\ y = [x EXCEPT !.phase = "dispatch", !.last = l, !.active = a,
                         !.sourceView = v]
        /\ worker'[w] = y
        /\ x.phase = "polling"
  <2>1. PICK l, a, v :
          /\ l = LET avail == Len(stream) - worker[w].last IN
                 worker[w].last + (IF avail <= BatchSize THEN avail ELSE BatchSize)
          /\ a = {s \in Sources : source[s] = "active"}
          /\ v = [s \in Sources |-> IF Live(s) THEN source[s] ELSE Unloaded]
    OBVIOUS
  <2>2. /\ worker' = [worker EXCEPT ![w].phase = "dispatch", ![w].last = l,
                                    ![w].active = a, ![w].sourceView = v]
        /\ worker[w].phase = "polling"
    BY <2>1 DEF PollReturns
  <2>3. PICK y : y = [x EXCEPT !.phase = "dispatch", !.last = l, !.active = a,
                               !.sourceView = v]
    OBVIOUS
  <2>4. worker'[w] = y
    BY <1>1, <2>2, <2>3
  <2>5. QED
    BY <1>1, <2>1, <2>2, <2>3, <2>4
<1>3. /\ y.phase = "dispatch" /\ y.next = x.next /\ y.active = a
      /\ y.connView = x.connView /\ y.sourceView = v
  BY <1>2 DEF WorkerState
<1>4. QED
  BY <1>1, <1>2, <1>3

\* The gate leaves what it found in the session.
LEMMA Loads ==
    ASSUME TypeOK, NEW w \in Workers, NEW s \in Sources,
           ReplayShortCircuit(w, s) \/ Admit(w, s)
    PROVE  /\ worker[w].phase = "dispatch"
           /\ worker'[w].phase \in {"dispatch", "matching"}
           /\ worker'[w].next =
                 IF worker'[w].phase = "matching" THEN worker[w].next
                 ELSE worker[w].next + 1
           /\ worker'[w].active = worker[w].active
           /\ worker'[w].connView = "active"
           /\ worker'[w].sourceView =
                 [worker[w].sourceView EXCEPT ![s] = "active"]
<1>1. PICK x \in WorkerState : x = worker[w]
  BY DEF TypeOK
<1>2. PICK z : /\ z = [x EXCEPT !.connView = "active",
                                !.sourceView[s] = "active"]
               /\ z = Loaded(w, s)
  BY <1>1 DEF ReplayShortCircuit, Admit, GatePasses, Loaded
<1>3. /\ z.phase = x.phase /\ z.next = x.next /\ z.active = x.active
      /\ z.connView = "active"
      /\ z.sourceView = [x.sourceView EXCEPT ![s] = "active"]
  BY <1>2 DEF WorkerState
<1>4. z \in WorkerState
  BY <1>2, LoadedMovesNowhere
<1>5. CASE ReplayShortCircuit(w, s)
  <2>1. PICK y : /\ y = [z EXCEPT !.next = @ + 1]
                 /\ worker' = [worker EXCEPT ![w] = y]
                 /\ x.phase = "dispatch"
    BY <1>1, <1>2, <1>5 DEF ReplayShortCircuit, InBatch
  <2>2. /\ y.phase = z.phase /\ y.next = z.next + 1 /\ SameSession(z, y)
    BY <1>4, <2>1 DEF WorkerState, SameSession
  <2>3. QED
    BY <1>1, <1>3, <2>1, <2>2 DEF TypeOK, SameSession
<1>6. CASE Admit(w, s)
  <2>1. PICK y : /\ y = [z EXCEPT !.phase = "matching"]
                 /\ worker' = [worker EXCEPT ![w] = y]
                 /\ x.phase = "dispatch"
    BY <1>1, <1>2, <1>6 DEF Admit, InBatch
  <2>2. /\ y.phase = "matching" /\ y.next = z.next /\ SameSession(z, y)
    BY <1>4, <2>1 DEF WorkerState, SameSession
  <2>3. QED
    BY <1>1, <1>3, <2>1, <2>2 DEF TypeOK, SameSession
<1>7. QED
  BY <1>5, <1>6

\* Matching decides what the update is; the session stays as it is.
LEMMA Decides ==
    ASSUME TypeOK, NEW w \in Workers, NEW s \in Sources,
           MatchControl(w, s) \/ Normalize(w, s)
    PROVE  /\ worker[w].phase = "matching"
           /\ Wants(w, s)
           /\ worker'[w].phase = "writing"
           /\ worker'[w].next = worker[w].next
           /\ SameSession(worker[w], worker'[w])
           /\ worker'[w].outcome = "control" =>
                 /\ worker'[w].request = stream[worker[w].next].nonce
                 /\ worker'[w].request # NoRequest
                 /\ request[worker'[w].request].status = "awaiting"
<1>1. PICK x \in WorkerState : x = worker[w]
  BY DEF TypeOK
<1>2. PICK o, r : /\ worker' = [worker EXCEPT
                          ![w] = [x EXCEPT !.phase = "writing",
                                           !.outcome = o, !.request = r]]
                  /\ x.phase = "matching"
                  /\ Wants(w, s)
                  /\ o = "control" =>
                        /\ r = stream[x.next].nonce
                        /\ r # NoRequest
                        /\ request[r].status = "awaiting"
  <2>1. CASE MatchControl(w, s)
    <3>1. PICK r : /\ r = stream[x.next].nonce
                   /\ r # NoRequest /\ request[r].status = "awaiting"
                   /\ worker' = [worker EXCEPT ![w].phase = "writing",
                                               ![w].outcome = "control",
                                               ![w].request = r]
                   /\ x.phase = "matching"
                   /\ Wants(w, s)
      BY <1>1, <2>1 DEF MatchControl, Matches
    <3>2. worker' = [worker EXCEPT
                        ![w] = [x EXCEPT !.phase = "writing",
                                         !.outcome = "control", !.request = r]]
      BY <1>1, <3>1 DEF TypeOK
    <3>3. QED
      BY <3>1, <3>2
  <2>2. CASE Normalize(w, s)
    <3>1. PICK o, r : /\ worker' = [worker EXCEPT ![w].phase = "writing",
                                                  ![w].outcome = o,
                                                  ![w].request = r]
                      /\ o = IF stream[x.next].kind = "valid"
                            THEN "normalized" ELSE "rejected"
                      /\ x.phase = "matching"
                      /\ Wants(w, s)
      BY <1>1, <2>2 DEF Normalize
    <3>2. worker' = [worker EXCEPT
                        ![w] = [x EXCEPT !.phase = "writing",
                                         !.outcome = o, !.request = r]]
      BY <1>1, <3>1 DEF TypeOK
    <3>3. o # "control"
      BY <3>1
    <3>4. QED
      BY <3>1, <3>2, <3>3
  <2>3. QED
    BY <2>1, <2>2
<1>3. PICK y : y = [x EXCEPT !.phase = "writing", !.outcome = o, !.request = r]
  OBVIOUS
<1>4. /\ y.phase = "writing" /\ y.next = x.next /\ SameSession(x, y)
      /\ y.outcome = o /\ y.request = r
  BY <1>3 DEF WorkerState, SameSession
<1>5. worker'[w] = y
  BY <1>2, <1>3 DEF TypeOK
<1>6. QED
  BY <1>1, <1>2, <1>4, <1>5

\* The commit of a row, and the rollback that loses the race for its key,
\* expire what the session had loaded.
LEMMA Writes ==
    ASSUME TypeOK, NEW w \in Workers, NEW s \in Sources,
           CommitRow(w, s) \/ LoseRace(w, s)
    PROVE  /\ worker[w].phase = "writing"
           /\ Wants(w, s)
           /\ worker'[w].phase = "reporting"
           /\ worker'[w].next = worker[w].next
           /\ worker'[w].active = worker[w].active
           /\ worker'[w].connView = Unloaded
           /\ \A t \in Sources :
                 worker'[w].sourceView[t] \in {Unloaded, source[t]}
<1>1. PICK x \in WorkerState : x = worker[w]
  BY DEF TypeOK
<1>2. Expired(w) \in WorkerState
  <2>1. NothingLoaded \in [Sources -> SourceStatus \cup {Unloaded}]
    BY DEF NothingLoaded
  <2>2. QED
    BY <1>1, <2>1 DEF Expired, WorkerState, Phase
<1>3. PICK z \in WorkerState :
               /\ z = Expired(w)
               /\ z.phase = "reporting" /\ z.next = x.next
               /\ z.active = x.active /\ z.connView = Unloaded
               /\ z.sourceView = NothingLoaded
  BY <1>1, <1>2 DEF Expired, WorkerState
<1>4. CASE CommitRow(w, s)
  <2>1. /\ worker' = [worker EXCEPT ![w] = z]
        /\ worker[w].phase = "writing" /\ Wants(w, s)
    BY <1>3, <1>4 DEF CommitRow
  <2>2. worker'[w] = z
    BY <2>1 DEF TypeOK
  <2>3. QED
    BY <1>1, <1>3, <2>1, <2>2 DEF NothingLoaded
<1>5. CASE LoseRace(w, s)
  <2>1. PICK y : /\ y = [z EXCEPT !.sourceView[s] = source[s]]
                 /\ worker' = [worker EXCEPT ![w] = y]
                 /\ worker[w].phase = "writing" /\ Wants(w, s)
    BY <1>3, <1>5 DEF LoseRace
  <2>2. /\ y.phase = z.phase /\ y.next = z.next /\ y.active = z.active
        /\ y.connView = z.connView
        /\ y.sourceView = [z.sourceView EXCEPT ![s] = source[s]]
    BY <1>3, <2>1 DEF WorkerState
  <2>3. QED
    BY <1>1, <1>3, <2>1, <2>2 DEF TypeOK, NothingLoaded
<1>6. QED
  BY <1>4, <1>5

\* The report of a result loads the connection again.
LEMMA Reports ==
    ASSUME TypeOK, NEW w \in Workers, Report(w)
    PROVE  /\ worker[w].phase = "reporting"
           /\ worker'[w].phase = "dispatch"
           /\ worker'[w].next = worker[w].next + 1
           /\ worker'[w].active = worker[w].active
           /\ worker'[w].connView = conn
           /\ worker'[w].sourceView = worker[w].sourceView
  BY DEF Report, TypeOK, WorkerState

\* The commit of an ignored update expires the session too.
LEMMA Ignores ==
    ASSUME TypeOK, NEW w \in Workers, AdvanceIgnored(w)
    PROVE  /\ worker[w].phase = "dispatch"
           /\ worker'[w].phase = "dispatch"
           /\ worker'[w].next = worker[w].next + 1
           /\ worker'[w].active = worker[w].active
           /\ worker'[w].connView = Unloaded
           /\ worker'[w].sourceView = NothingLoaded
<1>1. PICK x \in WorkerState : x = worker[w]
  BY DEF TypeOK
<1>2. PICK y : /\ y = [x EXCEPT !.next = @ + 1, !.connView = Unloaded,
                                !.sourceView = NothingLoaded]
               /\ worker' = [worker EXCEPT ![w] = y]
               /\ x.phase = "dispatch"
  BY <1>1 DEF AdvanceIgnored, InBatch, TypeOK
<1>3. /\ y.phase = x.phase /\ y.next = x.next + 1 /\ y.active = x.active
      /\ y.connView = Unloaded /\ y.sourceView = NothingLoaded
  BY <1>2 DEF WorkerState
<1>4. QED
  BY <1>1, <1>2, <1>3 DEF TypeOK

-----------------------------------------------------------------------------
(***************************************************************************)
(* One worker: the cursor, the rows and the handshakes.                    *)
(***************************************************************************)

\* The cursor stands before the worker's update, or on it until the commit is
\* reported.
Place(x) ==
    x.phase # "idle" => \/ cursor < x.next
                        \/ x.phase = "reporting" /\ cursor = x.next

\* Two rows never record the same update.
UpdatesOnce == \A e, f \in events : e.update = f.update => e = f

\* A handshake that can still be confirmed has no control row, a confirmed
\* one has its row, and there is never a second.
Handshakes ==
    \A r \in Requests :
        /\ \A e, f \in ControlRows(r) : e = f
        /\ request[r].status \in {"none", "awaiting"} => ControlRows(r) = {}
        /\ request[r].status = "verified" => ControlRows(r) # {}

\* The handshake a worker is about to confirm has no row.
Confirming(x) ==
    x.phase = "writing" /\ x.outcome = "control" =>
        x.request \in Requests /\ ControlRows(x.request) = {}

OneInv ==
    /\ \A w \in Workers : Place(worker[w]) /\ Confirming(worker[w])
    /\ RowsBehindCursor
    /\ UpdatesOnce
    /\ Handshakes

\* A step is one of the environment, or of a worker: local, or a commit.
LEMMA NextCases ==
    ASSUME [Next]_vars
    PROVE  \/ UNCHANGED vars
           \/ Publish
           \/ Admin
           \/ \E w \in Workers : \/ LocalStep(w)
                                 \/ AdvanceIgnored(w)
                                 \/ \E s \in Sources : CommitRow(w, s)
  BY StepCases DEF Next

\* The API gives out a handshake that had none, and otherwise only lets it
\* expire; it confirms none.
LEMMA AdminRequests ==
    ASSUME TypeOK, Admin, NEW r \in Requests
    PROVE  \/ request'[r].status \in {request[r].status, "expired"}
           \/ request[r].status = "none" /\ request'[r].status = "awaiting"
<1> USE DEF AdminUnchanged, dbVars
<1>1. ASSUME NEW b \in BOOLEAN, BindIdentity(b) \/ SetConnectionEnabled(b)
      PROVE  request' = request
  BY <1>1 DEF BindIdentity, SetConnectionEnabled
<1>2. CASE RevokeConnection \/ SoftDeleteConnection
  BY <1>2 DEF RevokeConnection, SoftDeleteConnection
<1>3. ASSUME NEW s \in Sources, NEW b \in BOOLEAN,
             CreateSource(s, b) \/ SetSourceEnabled(s, b)
      PROVE  request' = request
  BY <1>3 DEF CreateSource, SetSourceEnabled
<1>4. ASSUME NEW s \in Sources, SoftDeleteSource(s)
      PROVE  request' = request
  BY <1>4 DEF SoftDeleteSource
<1>5. ASSUME NEW q \in Requests,
             \/ RequestSourceTest(q)
             \/ RequestFallsDue(q)
             \/ StatusViewReads(q)
             \/ StatusViewWrites(q)
      PROVE  \/ request'[r].status \in {request[r].status, "expired"}
             \/ request[r].status = "none" /\ request'[r].status = "awaiting"
  <2>1. request \in [Requests -> Request] /\ request[r] \in Request
    BY DEF TypeOK
  <2>2. CASE RequestSourceTest(q)
    BY <2>1, <2>2 DEF RequestSourceTest, Request
  <2>3. CASE RequestFallsDue(q)
    BY <2>1, <2>3 DEF RequestFallsDue, Request
  <2>4. CASE StatusViewReads(q)
    BY <2>1, <2>4 DEF StatusViewReads
  <2>5. CASE StatusViewWrites(q)
    BY <2>1, <2>5 DEF StatusViewWrites, Request
  <2>6. QED
    BY <1>5, <2>2, <2>3, <2>4, <2>5
<1>6. QED
  BY <1>1, <1>2, <1>3, <1>4, <1>5 DEF Admin

\* Local steps leave the handshakes alone.
LEMMA LocalRequests ==
    ASSUME NEW w \in Workers, LocalStep(w)
    PROVE  request' = request
<1> USE DEF dbVars
<1>1. CASE \/ StartCycle(w) \/ PollReturns(w) \/ Refuse(w)
           \/ NormalizerCrashes(w) \/ Report(w) \/ FinishCycle(w) \/ Fail(w)
  BY <1>1 DEF StartCycle, PollReturns, Refuse, NormalizerCrashes, Report,
              FinishCycle, Fail
<1>2. ASSUME NEW s \in Sources,
             \/ ReplayShortCircuit(w, s)
             \/ Admit(w, s)
             \/ MatchControl(w, s)
             \/ Normalize(w, s)
             \/ LoseRace(w, s)
      PROVE  request' = request
  BY <1>2 DEF ReplayShortCircuit, Admit, MatchControl, Normalize, LoseRace
<1>3. QED
  BY <1>1, <1>2 DEF LocalStep

\* A local step keeps the only worker's place, and what it decides to confirm
\* has no row.
LEMMA LocalOne ==
    ASSUME IInv, OneInv, NEW w \in Workers, LocalStep(w)
    PROVE  Place(worker[w])' /\ Confirming(worker[w])'
<1> USE DEF IInv
<1>1. /\ cursor' = cursor /\ events' = events
      /\ cursor \in Nat
      /\ worker[w].next \in Nat
      /\ worker \in [Workers -> WorkerState]
  BY LocalStepCommitsNothing DEF TypeOK, WorkerState
<1>2. Place(worker[w]) /\ Handshakes
  BY DEF OneInv
<1>3. CASE Refuse(w) \/ NormalizerCrashes(w) \/ FinishCycle(w) \/ Fail(w)
  BY <1>1, <1>3, GivesUp DEF Place, Confirming
<1>4. CASE StartCycle(w)
  BY <1>1, <1>4, Starts DEF Place, Confirming
<1>5. CASE PollReturns(w)
  BY <1>1, <1>2, <1>5, Polls DEF Place, Confirming
<1>6. CASE Report(w)
  BY <1>1, <1>2, <1>6, Reports DEF Place, Confirming
<1>7. ASSUME NEW s \in Sources, ReplayShortCircuit(w, s) \/ Admit(w, s)
      PROVE  Place(worker[w])' /\ Confirming(worker[w])'
  <2>1. /\ worker[w].phase = "dispatch"
        /\ worker'[w].phase \in {"dispatch", "matching"}
        /\ worker'[w].next \in {worker[w].next, worker[w].next + 1}
    BY <1>7, Loads
  <2>2. QED
    BY <1>1, <1>2, <2>1 DEF Place, Confirming
<1>8. ASSUME NEW s \in Sources, MatchControl(w, s) \/ Normalize(w, s)
      PROVE  Place(worker[w])' /\ Confirming(worker[w])'
  <2>1. Place(worker[w])'
    BY <1>1, <1>2, <1>8, Decides DEF Place
  <2>2. ASSUME worker'[w].outcome = "control"
        PROVE  /\ worker'[w].request \in Requests
               /\ ControlRows(worker'[w].request) = {}
    <3>1. stream[worker[w].next] \in Update
      <4>1. /\ worker[w].next \in 1..Len(stream)
            /\ stream \in Seq(Update)
        BY <1>1, <1>8, Decides DEF TypeOK, WorkerState, BatchCovered, Covered
      <4>2. QED
        BY <4>1
    <3>2. worker'[w].request \in Requests
      BY <1>8, <2>2, <3>1, Decides DEF Update
    <3>3. request[worker'[w].request].status = "awaiting"
      BY <1>8, <2>2, Decides
    <3>4. QED
      BY <1>2, <3>2, <3>3 DEF Handshakes
  <2>3. QED
    BY <1>1, <2>1, <2>2 DEF Confirming, ControlRows
<1>9. ASSUME NEW s \in Sources, LoseRace(w, s)
      PROVE  Place(worker[w])' /\ Confirming(worker[w])'
  BY <1>1, <1>2, <1>9, Writes DEF Place, Confirming
<1>10. QED
  BY <1>3, <1>4, <1>5, <1>6, <1>7, <1>8, <1>9 DEF LocalStep

\* The row a commit adds.
LEMMA AddedRow ==
    ASSUME NEW w \in Workers, NEW s \in Sources, CommitRow(w, s)
    PROVE  \E e : /\ events' = events \cup {e}
                  /\ e.source = s
                  /\ e.update = worker[w].next
                  /\ e.key = RowKey(w)
                  /\ e.state = worker[w].outcome
                  /\ e.nonce = IF worker[w].outcome = "control"
                               THEN worker[w].request ELSE NoRequest
<1>1. PICK n : n = IF worker[w].outcome = "control"
                   THEN worker[w].request ELSE NoRequest
  OBVIOUS
<1>2. PICK e : e = [source |-> s, update |-> worker[w].next,
                    key |-> RowKey(w), state |-> worker[w].outcome,
                    nonce |-> n, by |-> w]
  OBVIOUS
<1>3. events' = events \cup {e}
  BY <1>1, <1>2 DEF CommitRow, NewRow
<1>4. QED
  BY <1>1, <1>2, <1>3

\* The only worker's commit records an update that no row has, and settles
\* the handshake it confirms.
LEMMA CommitRowOne ==
    ASSUME IInv, OneInv, OneWorker, NEW w \in Workers, NEW s \in Sources,
           CommitRow(w, s)
    PROVE  OneInv'
<1> USE DEF IInv
<1>1. /\ cursor' = worker[w].next
      /\ cursor \in Nat
      /\ worker[w].next \in Nat
      /\ worker \in [Workers -> WorkerState]
      /\ request \in [Requests -> Request]
      /\ worker[w].request \in Requests \cup {NoRequest}
      /\ NoRequest \notin Requests
  <2>1. worker[w] \in WorkerState
    BY DEF TypeOK
  <2>2. /\ worker[w].next \in Nat
        /\ worker[w].request \in Requests \cup {NoRequest}
    BY <2>1 DEF WorkerState
  <2>3. QED
    BY <2>2, ConstantsAssumption DEF TypeOK, CommitRow
<1>2. /\ worker[w].phase = "writing"
      /\ worker'[w].phase = "reporting"
      /\ worker'[w].next = worker[w].next
  BY Writes
<1>3. /\ \A v \in Workers : v = w
      /\ Place(worker[w]) /\ Confirming(worker[w])
      /\ RowsBehindCursor /\ UpdatesOnce /\ Handshakes
  BY DEF OneInv, OneWorker
<1>4. cursor < worker[w].next
  BY <1>2, <1>3 DEF Place
<1>5. PICK e : /\ events' = events \cup {e}
               /\ e.update = worker[w].next
               /\ e.state = worker[w].outcome
               /\ e.nonce = IF worker[w].outcome = "control"
                            THEN worker[w].request ELSE NoRequest
  BY AddedRow
<1>6. \A f \in events : f.update \in Nat /\ f.update <= cursor
  BY <1>3 DEF RowsBehindCursor, TypeOK, Event
<1>7. \A v \in Workers : Place(worker[v])' /\ Confirming(worker[v])'
  BY <1>1, <1>2, <1>3 DEF Place, Confirming
<1>8. RowsBehindCursor'
  BY <1>1, <1>4, <1>5, <1>6 DEF RowsBehindCursor
<1>9. UpdatesOnce'
  BY <1>1, <1>3, <1>4, <1>5, <1>6 DEF UpdatesOnce
<1>10. Handshakes'
  <2> SUFFICES ASSUME NEW r \in Requests
               PROVE  /\ \A f, g \in ControlRows(r)' : f = g
                      /\ request'[r].status \in {"none", "awaiting"} =>
                            ControlRows(r)' = {}
                      /\ request'[r].status = "verified" =>
                            ControlRows(r)' # {}
    BY DEF Handshakes
  <2> DEFINE confirms == worker[w].outcome = "control" /\ worker[w].request = r
  <2>1. ControlRows(r)' = ControlRows(r) \cup (IF confirms THEN {e} ELSE {})
    BY <1>5 DEF ControlRows
  <2>2. /\ \A f, g \in ControlRows(r) : f = g
        /\ request[r].status \in {"none", "awaiting"} => ControlRows(r) = {}
        /\ request[r].status = "verified" => ControlRows(r) # {}
    BY <1>3 DEF Handshakes
  <2>3. CASE confirms
    <3>1. ControlRows(r) = {}
      BY <1>2, <1>3, <2>3 DEF Confirming
    <3>2. request' = [request EXCEPT ![r].status = "verified"]
      BY <1>1, <2>3 DEF CommitRow
    <3>3. request'[r].status = "verified"
      BY <1>1, <3>2 DEF Request
    <3>4. QED
      BY <2>1, <2>3, <3>1, <3>3
  <2>4. CASE ~confirms
    <3>1. ControlRows(r)' = ControlRows(r)
      BY <2>1, <2>4
    <3>2. CASE worker[w].request = r
      <4>1. request' = [request EXCEPT ![r].status = "expired"]
        BY <1>1, <2>4, <3>2 DEF CommitRow
      <4>2. request'[r].status = "expired"
        BY <1>1, <4>1 DEF Request
      <4>3. QED
        BY <2>2, <3>1, <4>2
    <3>3. CASE worker[w].request # r
      <4>1. request'[r] = request[r]
        BY <1>1, <3>3 DEF CommitRow
      <4>2. QED
        BY <2>2, <3>1, <4>1
    <3>4. QED
      BY <3>2, <3>3
  <2>5. QED
    BY <2>3, <2>4
<1>11. QED
  BY <1>7, <1>8, <1>9, <1>10 DEF OneInv

\* Every step of a pipeline with one worker keeps cursor, rows and handshakes
\* together.
LEMMA NextOne ==
    ASSUME IInv, OneInv, OneWorker, [Next]_vars
    PROVE  OneInv'
<1>1. ASSUME UNCHANGED <<cursor, events, request>>,
             \A w \in Workers : Place(worker[w])' /\ Confirming(worker[w])'
      PROVE  OneInv'
  BY <1>1 DEF OneInv, RowsBehindCursor, UpdatesOnce, Handshakes, ControlRows
<1>2. CASE UNCHANGED vars \/ Publish
  <2>1. UNCHANGED <<cursor, events, request, worker>>
    BY <1>2 DEF vars, Publish, dbVars
  <2>2. QED
    BY <1>1, <2>1 DEF OneInv, Place, Confirming, ControlRows
<1>3. CASE Admin
  <2>1. UNCHANGED <<cursor, events, worker>>
    BY <1>3, AdminStep
  <2>2. Handshakes'
    BY <1>3, <2>1, AdminRequests DEF IInv, OneInv, Handshakes, ControlRows
  <2>3. QED
    BY <2>1, <2>2 DEF OneInv, Place, Confirming, ControlRows,
                      RowsBehindCursor, UpdatesOnce
<1>4. ASSUME NEW w \in Workers, LocalStep(w)
      PROVE  OneInv'
  BY <1>1, <1>4, LocalOne, LocalRequests, LocalStepCommitsNothing DEF OneWorker
<1>5. ASSUME NEW w \in Workers, AdvanceIgnored(w)
      PROVE  OneInv'
  <2>1. /\ events' = events /\ request' = request
        /\ cursor' = worker[w].next
        /\ cursor \in Nat /\ worker[w].next \in Nat
    BY <1>5 DEF AdvanceIgnored, IInv, TypeOK, WorkerState
  <2>2. /\ worker[w].phase = "dispatch" /\ worker'[w].phase = "dispatch"
        /\ worker'[w].next = worker[w].next + 1
    BY <1>5, Ignores DEF IInv
  <2>3. cursor < worker[w].next
    BY <2>2 DEF OneInv, Place
  <2>4. Place(worker[w])' /\ Confirming(worker[w])'
    BY <2>1, <2>2 DEF Place, Confirming
  <2>5. RowsBehindCursor'
    BY <2>1, <2>3 DEF OneInv, RowsBehindCursor, IInv, TypeOK, Event
  <2>6. QED
    BY <2>1, <2>4, <2>5
       DEF OneWorker, OneInv, UpdatesOnce, Handshakes, ControlRows
<1>6. ASSUME NEW w \in Workers, NEW s \in Sources, CommitRow(w, s)
      PROVE  OneInv'
  BY <1>6, CommitRowOne
<1>7. QED
  BY <1>2, <1>3, <1>4, <1>5, <1>6, NextCases

\* A freshly created connection has no rows and idle workers.
LEMMA InitOne == Init => OneInv
  BY DEF Init, OneInv, Place, Confirming, IdleWorker, RowsBehindCursor,
         UpdatesOnce, Handshakes, ControlRows

LEMMA OneInductive ==
    ASSUME OneWorker
    PROVE  Spec => []OneInv
<1>1. IInv /\ OneInv /\ [Next]_vars => OneInv'
  BY NextOne
<1>2. QED
  BY <1>1, InitOne, Inductive, PTL DEF Spec

\* Both commits of a pipeline with one worker move the cursor forward.
LEMMA CursorAdvances ==
    ASSUME IInv, OneInv, [Next]_vars
    PROVE  [cursor' >= cursor]_vars
<1>1. cursor \in Nat
  BY DEF IInv, TypeOK
<1>2. CASE UNCHANGED vars
  BY <1>2
<1>3. CASE Publish \/ Admin
  BY <1>1, <1>3, AdminStep DEF Publish, dbVars
<1>4. ASSUME NEW w \in Workers, LocalStep(w)
      PROVE  cursor' >= cursor
  BY <1>1, <1>4, LocalStepCommitsNothing
<1>5. ASSUME NEW w \in Workers, Commit(w)
      PROVE  cursor' >= cursor
  <2>1. cursor' = worker[w].next /\ worker[w].phase \in {"dispatch", "writing"}
    BY <1>5, CommitSettles
  <2>2. cursor < worker[w].next
    BY <2>1 DEF OneInv, Place
  <2>3. worker[w].next \in Nat
    BY DEF IInv, TypeOK, WorkerState
  <2>4. QED
    BY <1>1, <2>1, <2>2, <2>3
<1>6. QED
  BY <1>2, <1>3, <1>4, <1>5, NextCases DEF Commit

\* At most one row confirms a handshake.
LEMMA OneMessage == Handshakes => VerifiedByOneMessage
<1> SUFFICES ASSUME Handshakes, NEW r \in Requests
             PROVE  /\ Cardinality(ControlRows(r)) <= 1
                    /\ request[r].status = "verified" => ControlRows(r) # {}
  BY DEF VerifiedByOneMessage
<1>1. \A e, f \in ControlRows(r) : e = f
  BY DEF Handshakes
<1>2. CASE ControlRows(r) = {}
  BY <1>2, FS_EmptySet DEF Handshakes
<1>3. CASE ControlRows(r) # {}
  <2>1. PICK e : ControlRows(r) = {e}
    BY <1>1, <1>3
  <2>2. Cardinality({e}) = 1
    BY FS_Singleton
  <2>3. QED
    BY <1>3, <2>1, <2>2
<1>4. QED
  BY <1>2, <1>3

\* A worker of its own connection never moves the cursor of worker.py back,
\* whatever it loses to a fault.
THEOREM CursorForward ==
    ASSUME OneWorker
    PROVE  Spec => CursorMonotone
<1>1. IInv /\ OneInv /\ [Next]_vars => [cursor' >= cursor]_vars
  BY CursorAdvances
<1>2. QED
  BY <1>1, Inductive, OneInductive, PTL DEF Spec, CursorMonotone

\* The rows that the only worker's ingest_update has committed lie behind
\* the cursor it committed with them.
THEOREM RowsBehind ==
    ASSUME OneWorker
    PROVE  Spec => []RowsBehindCursor
<1>1. OneInv => RowsBehindCursor
  BY DEF OneInv
<1>2. QED
  BY <1>1, OneInductive, PTL

\* One worker confirms a TF-VERIFY handshake by one message only, and the
\* request is verified only with that message's row.
THEOREM OneConfirmation ==
    ASSUME OneWorker
    PROVE  Spec => []VerifiedByOneMessage
<1>1. OneInv => VerifiedByOneMessage
  BY OneMessage DEF OneInv
<1>2. QED
  BY <1>1, OneInductive, PTL

\* One worker's ingest_update records an update at most once for a source,
\* whatever external ids the provider gives.
THEOREM OneRow ==
    ASSUME OneWorker
    PROVE  Spec => []OneRowPerUpdate
<1>1. OneInv => OneRowPerUpdate
  BY DEF OneInv, UpdatesOnce, OneRowPerUpdate
<1>2. QED
  BY <1>1, OneInductive, PTL

-----------------------------------------------------------------------------
(***************************************************************************)
(* Several workers: one row for each update of a source.                   *)
(***************************************************************************)

\* Two rows of one message agree on their key: no handshake is ever matched,
\* or the external id of an update is its update_id.
KeysAgree ==
    \/ Requests = {}
    \/ \A u \in 1..MaxUpdate : ExternalIds[u] \subseteq {u}

\* The unique index uq_coll_event_external.
KeyUnique ==
    \A e, f \in events :
        /\ e.source = f.source
        /\ e.key = f.key
        /\ e.state # "rejected"
        /\ f.state # "rejected"
        => e = f

\* The key of a row is what the state of the row says.
RowKeys ==
    \A e \in events :
        /\ e.update \in Published
        /\ e.state = "normalized" => e.key = stream[e.update].ext
        /\ e.state = "control" => e.key = e.update /\ Requests # {}

\* The provider gives the external ids it may give.
StreamExt == Len(stream) <= MaxUpdate
                /\ \A u \in Published : stream[u].ext \in ExternalIds[u]

\* A control message was matched with a handshake.
Deciding(x) == x.phase = "writing" /\ x.outcome = "control" => Requests # {}

SharedInv ==
    /\ KeyUnique
    /\ RowKeys
    /\ StreamExt
    /\ \A w \in Workers : Deciding(worker[w])

\* The provider keeps to its external ids.
LEMMA ExtStays ==
    ASSUME TypeOK, StreamExt, [Next]_vars
    PROVE  StreamExt'
<1>1. CASE stream' = stream
  BY <1>1 DEF StreamExt, Published
<1>2. CASE Publish
  <2>1. PICK u : /\ u.ext \in ExternalIds[Len(stream) + 1]
                 /\ stream' = Append(stream, u)
                 /\ Len(stream) < MaxUpdate
    BY <1>2 DEF Publish
  <2>2. stream \in Seq(Update) /\ Len(stream) \in Nat /\ MaxUpdate \in Nat
    BY ConstantsAssumption DEF TypeOK
  <2>3. /\ Len(stream') = Len(stream) + 1
        /\ \A k \in 1..Len(stream) : stream'[k] = stream[k]
        /\ stream'[Len(stream) + 1] = u
    BY <2>1, <2>2
  <2>4. Len(stream') <= MaxUpdate
    BY <2>1, <2>2, <2>3
  <2>5. ASSUME NEW k \in 1..Len(stream')
        PROVE  stream'[k].ext \in ExternalIds[k]
    <3>1. CASE k \in 1..Len(stream)
      BY <2>3, <3>1 DEF StreamExt, Published
    <3>2. CASE k = Len(stream) + 1
      BY <2>1, <2>3, <3>2
    <3>3. QED
      BY <2>2, <2>3, <3>1, <3>2
  <2>6. QED
    BY <2>4, <2>5 DEF StreamExt, Published
<1>3. CASE Admin
  BY <1>1, <1>3, AdminStep
<1>4. ASSUME NEW w \in Workers, LocalStep(w)
      PROVE  StreamExt'
  BY <1>1, <1>4, LocalStepCommitsNothing
<1>5. ASSUME NEW w \in Workers, AdvanceIgnored(w)
      PROVE  StreamExt'
  BY <1>1, <1>5 DEF AdvanceIgnored
<1>6. ASSUME NEW w \in Workers, NEW s \in Sources, CommitRow(w, s)
      PROVE  StreamExt'
  BY <1>1, <1>6 DEF CommitRow
<1>7. CASE UNCHANGED vars
  BY <1>1, <1>7 DEF vars
<1>8. QED
  BY <1>2, <1>3, <1>4, <1>5, <1>6, <1>7, NextCases

\* A local step decides for a control row only by a handshake.
LEMMA LocalDeciding ==
    ASSUME IInv, SharedInv, NEW w \in Workers, LocalStep(w)
    PROVE  Deciding(worker[w])'
<1> USE DEF IInv
<1>1. worker \in [Workers -> WorkerState]
  BY DEF TypeOK
<1>2. CASE Refuse(w) \/ NormalizerCrashes(w) \/ FinishCycle(w) \/ Fail(w)
  BY <1>1, <1>2, GivesUp DEF Deciding
<1>3. CASE StartCycle(w) \/ PollReturns(w) \/ Report(w)
  BY <1>1, <1>3, Starts, Polls, Reports DEF Deciding
<1>4. ASSUME NEW s \in Sources,
             ReplayShortCircuit(w, s) \/ Admit(w, s) \/ LoseRace(w, s)
      PROVE  Deciding(worker[w])'
  BY <1>4, Loads, Writes DEF Deciding
<1>5. ASSUME NEW s \in Sources, MatchControl(w, s) \/ Normalize(w, s)
      PROVE  Deciding(worker[w])'
  <2>1. stream[worker[w].next] \in Update
    <3>1. /\ worker[w].next \in 1..Len(stream)
          /\ stream \in Seq(Update)
      BY <1>1, <1>5, Decides DEF TypeOK, WorkerState, BatchCovered, Covered
    <3>2. QED
      BY <3>1
  <2>2. worker'[w].outcome = "control" => worker'[w].request \in Requests
    BY <1>5, <2>1, Decides DEF Update
  <2>3. QED
    BY <2>2 DEF Deciding
<1>6. QED
  BY <1>2, <1>3, <1>4, <1>5 DEF LocalStep

\* The row a worker commits has the key of its state, and a key of its own.
LEMMA CommitRowShared ==
    ASSUME IInv, SharedInv, NEW w \in Workers, NEW s \in Sources,
           CommitRow(w, s)
    PROVE  KeyUnique' /\ RowKeys' /\ Deciding(worker[w])'
<1> USE DEF IInv
<1>1. /\ worker[w].phase = "writing" /\ worker'[w].phase = "reporting"
      /\ stream' = stream
  BY Writes DEF CommitRow
<1>2. worker[w].next \in Published
  BY <1>1 DEF TypeOK, WorkerState, BatchCovered, Covered, Published
<1>3. PICK e : /\ events' = events \cup {e}
               /\ e.source = s
               /\ e.update = worker[w].next
               /\ e.key = RowKey(w)
               /\ e.state = worker[w].outcome
  BY AddedRow
<1>4. e.state # "rejected" =>
        \A f \in events :
            f.source = s /\ f.key = e.key => f.state = "rejected"
  BY <1>3 DEF CommitRow, Existing
<1>5. KeyUnique'
  BY <1>3, <1>4 DEF KeyUnique, SharedInv
<1>6. /\ e.update \in Published
      /\ e.state = "normalized" => e.key = stream[e.update].ext
      /\ e.state = "control" => e.key = e.update /\ Requests # {}
  BY <1>1, <1>2, <1>3 DEF RowKey, SharedInv, Deciding
<1>7. RowKeys'
  BY <1>1, <1>3, <1>6 DEF RowKeys, SharedInv, Published
<1>8. QED
  BY <1>1, <1>5, <1>7 DEF Deciding

\* Every step keeps the index and the keys of the rows.
LEMMA NextShared ==
    ASSUME IInv, SharedInv, [Next]_vars
    PROVE  SharedInv'
<1> USE DEF IInv
<1>1. StreamExt'
  BY ExtStays DEF SharedInv
<1>2. ASSUME events' = events
      PROVE  KeyUnique' /\ RowKeys'
  <2>1. \A u \in Published : u \in Published' /\ stream'[u] = stream[u]
    BY StreamStays DEF Published
  <2>2. QED
    BY <1>2, <2>1 DEF SharedInv, KeyUnique, RowKeys
<1>3. CASE UNCHANGED vars \/ Publish \/ Admin
  <2>1. events' = events /\ worker' = worker
    BY <1>3, AdminStep DEF vars, Publish, dbVars
  <2>2. QED
    BY <1>1, <1>2, <2>1 DEF SharedInv, Deciding
<1>4. ASSUME NEW w \in Workers, Step(w) \/ Fail(w)
      PROVE  SharedInv'
  <2>1. \A v \in Workers : v # w => worker'[v] = worker[v]
    BY <1>4, OtherWorkersStay DEF TypeOK
  <2>2. ASSUME NEW s \in Sources, CommitRow(w, s)
        PROVE  KeyUnique' /\ RowKeys' /\ Deciding(worker[w])'
    BY <2>2, CommitRowShared
  <2>3. KeyUnique' /\ RowKeys' /\ Deciding(worker[w])'
    <3>1. CASE LocalStep(w)
      BY <1>2, <3>1, LocalStepCommitsNothing, LocalDeciding
    <3>2. CASE AdvanceIgnored(w)
      <4>1. worker'[w].phase = "dispatch" /\ events' = events
        BY <3>2, Ignores DEF AdvanceIgnored
      <4>2. QED
        BY <1>2, <4>1 DEF Deciding
    <3>3. QED
      BY <1>4, <2>2, <3>1, <3>2, StepCases
  <2>4. QED
    BY <1>1, <2>1, <2>3 DEF SharedInv, Deciding
<1>5. QED
  BY <1>3, <1>4 DEF Next

LEMMA SharedInductive == Spec => []SharedInv
<1>1. Init => SharedInv
  BY ConstantsAssumption
     DEF Init, SharedInv, KeyUnique, RowKeys, StreamExt, Published, Deciding,
         IdleWorker
<1>2. IInv /\ SharedInv /\ [Next]_vars => SharedInv'
  BY NextShared
<1>3. QED
  BY <1>1, <1>2, Inductive, PTL DEF Spec

\* However many workers share the connection, uq_coll_event_external leaves
\* one row for an update of a source, where the keys of its control row and
\* of its evidence row agree.
THEOREM OneRowShared ==
    ASSUME KeysAgree
    PROVE  Spec => []OneRowPerUpdate
<1>1. IInv /\ SharedInv => OneRowPerUpdate
  <2> SUFFICES ASSUME IInv, SharedInv, NEW e \in events, NEW f \in events,
                      e.source = f.source, e.update = f.update,
                      e.state # "rejected", f.state # "rejected"
               PROVE  e.key = f.key
    BY DEF OneRowPerUpdate, SharedInv, KeyUnique
  <2>1. /\ e.state \in {"normalized", "control"}
        /\ f.state \in {"normalized", "control"}
    BY DEF IInv, TypeOK, Event, EventState
  <2>2. Requests # {} => stream[e.update].ext = e.update
    <3>1. /\ e.update \in 1..MaxUpdate
          /\ stream[e.update].ext \in ExternalIds[e.update]
      BY ConstantsAssumption DEF SharedInv, RowKeys, StreamExt, Published
    <3>2. QED
      BY <3>1 DEF KeysAgree
  <2>3. QED
    BY <2>1, <2>2 DEF SharedInv, RowKeys
<1>2. QED
  BY <1>1, Inductive, SharedInductive, PTL

-----------------------------------------------------------------------------
(***************************************************************************)
(* Several workers: a deactivation takes effect.                           *)
(***************************************************************************)

\* The unique index uq_coll_source_ref_live.
LiveUnique ==
    \A s, t \in Sources :
        Live(s) /\ Live(t) /\ SourceRef[s] = SourceRef[t] => s = t

\* A batch has one source for a chat.
ActiveUnique(x) ==
    \A s, t \in x.active : SourceRef[s] = SourceRef[t] => s = t

\* What was admitted was seen as active by the session that goes on to it.
Admitted(w) ==
    worker[w].phase \in {"matching", "writing"} =>
        \A s \in Sources :
            Wants(w, s) => /\ worker[w].connView = "active"
                           /\ worker[w].sourceView[s] = "active"

\* A worker that has written a late row knows why it may write no other: the
\* connection or the source is off, and it has not loaded it as active.
Explained(w, s) ==
    \/ conn # "active" /\ worker[w].connView # "active"
    \/ source[s] # "active" /\ worker[w].sourceView[s] # "active"

LateOK(w, s) == late[w][s] # 0 => late[w][s] = 1 /\ Explained(w, s)

LateInv ==
    /\ LiveUnique
    /\ \A w \in Workers :
          /\ ActiveUnique(worker[w])
          /\ Admitted(w)
          /\ \A s \in Sources : LateOK(w, s)

\* An activation forgets the late rows of what it covers, and creating a
\* source respects the index.
LEMMA AdminLate ==
    ASSUME TypeOK, Admin, LiveUnique
    PROVE  /\ LiveUnique'
           /\ \A w \in Workers, s \in Sources :
                 /\ late'[w][s] \in {0, late[w][s]}
                 /\ \/ late'[w][s] = 0
                    \/ /\ conn' = "active" => conn = "active"
                       /\ source'[s] = "active" => source[s] = "active"
<1> DEFINE Goal == \A w \in Workers, s \in Sources :
                 /\ late'[w][s] \in {0, late[w][s]}
                 /\ \/ late'[w][s] = 0
                    \/ /\ conn' = "active" => conn = "active"
                       /\ source'[s] = "active" => source[s] = "active"
<1>1. source \in [Sources -> SourceStatus]
  BY DEF TypeOK
<1>2. ASSUME NEW b \in BOOLEAN, BindIdentity(b) \/ SetConnectionEnabled(b)
      PROVE  LiveUnique' /\ Goal
  <2>1. source' = source
    BY <1>2 DEF BindIdentity, SetConnectionEnabled
  <2>2. \/ b /\ ForgetLate(Sources)
        \/ ~b /\ ForgetLate({}) /\ conn' \in {conn, "pending"}
    BY <1>2 DEF BindIdentity, SetConnectionEnabled
  <2>3. QED
    BY <2>1, <2>2 DEF LiveUnique, Live, ForgetLate
<1>3. CASE RevokeConnection \/ SoftDeleteConnection
  BY <1>3 DEF RevokeConnection, SoftDeleteConnection, LiveUnique, Live
<1>4. ASSUME NEW s \in Sources, NEW b \in BOOLEAN, CreateSource(s, b)
      PROVE  LiveUnique' /\ Goal
  <2>1. /\ conn' = conn
        /\ ForgetLate(IF b THEN {s} ELSE {})
        /\ source' = [source EXCEPT ![s] = IF b THEN "active" ELSE "pending"]
        /\ \A t \in Sources : SourceRef[t] = SourceRef[s] => ~Live(t)
    BY <1>4 DEF CreateSource
  <2>2. Goal
    BY <1>1, <2>1 DEF ForgetLate
  <2>3. \A t \in Sources : t # s => source'[t] = source[t]
    BY <1>1, <2>1
  <2>4. LiveUnique'
    BY <2>1, <2>3 DEF LiveUnique, Live
  <2>5. QED
    BY <2>2, <2>4
<1>5. ASSUME NEW s \in Sources, NEW b \in BOOLEAN, SetSourceEnabled(s, b)
      PROVE  LiveUnique' /\ Goal
  <2>1. /\ conn' = conn
        /\ ForgetLate(IF b THEN {s} ELSE {})
        /\ source' = [source EXCEPT ![s] = IF b THEN "active" ELSE "paused"]
        /\ Live(s)
    BY <1>5 DEF SetSourceEnabled
  <2>2. Goal
    BY <1>1, <2>1 DEF ForgetLate
  <2>3. \A t \in Sources : t # s => source'[t] = source[t]
    BY <1>1, <2>1
  <2>4. LiveUnique'
    BY <2>1, <2>3 DEF LiveUnique, Live
  <2>5. QED
    BY <2>2, <2>4
<1>6. ASSUME NEW s \in Sources, SoftDeleteSource(s)
      PROVE  LiveUnique' /\ Goal
  <2>1. /\ conn' = conn /\ late' = late /\ Live(s)
        /\ source' = [source EXCEPT ![s] = "deleted"]
    BY <1>6 DEF SoftDeleteSource
  <2>2. QED
    BY <1>1, <2>1 DEF LiveUnique, Live
<1>7. ASSUME NEW r \in Requests,
             \/ RequestSourceTest(r)
             \/ RequestFallsDue(r)
             \/ StatusViewReads(r)
             \/ StatusViewWrites(r)
      PROVE  LiveUnique' /\ Goal
  <2>1. /\ conn' = conn /\ late' = late /\ source' = source
    BY <1>7 DEF RequestSourceTest, RequestFallsDue, StatusViewReads,
                StatusViewWrites, dbVars
  <2>2. QED
    BY <2>1 DEF LiveUnique, Live
<1>8. QED
  BY <1>2, <1>3, <1>4, <1>5, <1>6, <1>7 DEF Admin

\* Only a commit writes rows, and local steps leave the lifecycle alone.
LEMMA LocalStatus ==
    ASSUME NEW w \in Workers, LocalStep(w)
    PROVE  UNCHANGED <<conn, source, late>>
<1> USE DEF dbVars
<1>1. CASE \/ StartCycle(w) \/ PollReturns(w) \/ Refuse(w)
           \/ NormalizerCrashes(w) \/ Report(w) \/ FinishCycle(w) \/ Fail(w)
  BY <1>1 DEF StartCycle, PollReturns, Refuse, NormalizerCrashes, Report,
              FinishCycle, Fail
<1>2. ASSUME NEW s \in Sources,
             \/ ReplayShortCircuit(w, s)
             \/ Admit(w, s)
             \/ MatchControl(w, s)
             \/ Normalize(w, s)
             \/ LoseRace(w, s)
      PROVE  UNCHANGED <<conn, source, late>>
  BY <1>2 DEF ReplayShortCircuit, Admit, MatchControl, Normalize, LoseRace
<1>3. QED
  BY <1>1, <1>2 DEF LocalStep

\* What the session of w holds about s is no fresher than a late row of s.
LEMMA GateKnowsLate ==
    ASSUME NEW w \in Workers, NEW s \in Sources, LateOK(w, s),
           late[w][s] # 0
    PROVE  ~GatePasses(w, s)
  BY DEF LateOK, Explained, GatePasses, GateConn, GateSource

\* A worker's part of LateInv, which a local step keeps.
WorkerLate(w) ==
    /\ ActiveUnique(worker[w])
    /\ Admitted(w)
    /\ \A s \in Sources : LateOK(w, s)

LEMMA LocalLate ==
    ASSUME IInv, LateInv, NEW w \in Workers, LocalStep(w)
    PROVE  WorkerLate(w)'
<1> USE DEF IInv
<1>1. /\ UNCHANGED <<conn, source, late, stream>>
      /\ worker \in [Workers -> WorkerState]
      /\ worker[w].active \in SUBSET Sources
      /\ worker[w].sourceView \in [Sources -> SourceStatus \cup {Unloaded}]
      /\ worker[w].next \in Nat
  BY LocalStatus, LocalStepCommitsNothing DEF TypeOK, WorkerState
<1>2. /\ LiveUnique /\ ActiveUnique(worker[w]) /\ Admitted(w)
      /\ \A s \in Sources : LateOK(w, s)
  BY DEF LateInv
<1>3. CASE Refuse(w) \/ NormalizerCrashes(w) \/ FinishCycle(w) \/ Fail(w)
  <2>1. /\ worker'[w].phase = "idle"
        /\ worker'[w].active = {}
        /\ worker'[w].connView = Unloaded
        /\ worker'[w].sourceView = NothingLoaded
    BY <1>1, <1>3, GivesUp
  <2>2. ActiveUnique(worker[w])' /\ Admitted(w)'
    BY <2>1 DEF ActiveUnique, Admitted
  <2>3. \A s \in Sources : LateOK(w, s)'
    BY <1>1, <1>2, <2>1 DEF LateOK, Explained, Unloaded, NothingLoaded
  <2>4. QED
    BY <2>2, <2>3 DEF WorkerLate
<1>4. CASE StartCycle(w)
  <2>1. /\ conn = "active"
        /\ worker'[w].phase = "polling"
        /\ worker'[w].active = {}
        /\ worker'[w].sourceView = NothingLoaded
    BY <1>1, <1>4, Starts
  <2>2. ActiveUnique(worker[w])' /\ Admitted(w)'
    BY <2>1 DEF ActiveUnique, Admitted
  <2>3. \A s \in Sources : LateOK(w, s)'
    BY <1>1, <1>2, <2>1 DEF LateOK, Explained, Unloaded, NothingLoaded
  <2>4. QED
    BY <2>2, <2>3 DEF WorkerLate
<1>5. CASE PollReturns(w)
  <2>1. /\ worker'[w].phase = "dispatch"
        /\ worker'[w].active = {s \in Sources : source[s] = "active"}
        /\ worker'[w].connView = worker[w].connView
        /\ worker'[w].sourceView =
              [s \in Sources |-> IF Live(s) THEN source[s] ELSE Unloaded]
    BY <1>1, <1>5, Polls
  <2>2. ActiveUnique(worker[w])' /\ Admitted(w)'
    BY <1>2, <2>1 DEF ActiveUnique, Admitted, LiveUnique, Live
  <2>3. \A s \in Sources : LateOK(w, s)'
    BY <1>1, <1>2, <2>1 DEF LateOK, Explained, Unloaded
  <2>4. QED
    BY <2>2, <2>3 DEF WorkerLate
<1>6. CASE Report(w)
  <2>1. /\ worker'[w].phase = "dispatch"
        /\ worker'[w].active = worker[w].active
        /\ worker'[w].connView = conn
        /\ worker'[w].sourceView = worker[w].sourceView
    BY <1>6, Reports
  <2>2. ActiveUnique(worker[w])' /\ Admitted(w)'
    BY <1>2, <2>1 DEF ActiveUnique, Admitted
  <2>3. \A s \in Sources : LateOK(w, s)'
    BY <1>1, <1>2, <2>1 DEF LateOK, Explained
  <2>4. QED
    BY <2>2, <2>3 DEF WorkerLate
<1>7. ASSUME NEW s \in Sources, ReplayShortCircuit(w, s) \/ Admit(w, s)
      PROVE  WorkerLate(w)'
  <2>1. /\ worker'[w].phase \in {"dispatch", "matching"}
        /\ worker'[w].phase = "matching" => worker'[w].next = worker[w].next
        /\ worker'[w].active = worker[w].active
        /\ worker'[w].connView = "active"
        /\ worker'[w].sourceView =
              [worker[w].sourceView EXCEPT ![s] = "active"]
    BY <1>7, Loads
  <2>2. Wants(w, s) /\ GatePasses(w, s)
    BY <1>7 DEF ReplayShortCircuit, Admit
  <2>3. worker'[w].sourceView[s] = "active"
    BY <1>1, <2>1
  <2>4. ActiveUnique(worker[w])'
    BY <1>2, <2>1 DEF ActiveUnique
  <2>5. Admitted(w)'
    <3>1. ASSUME worker'[w].phase = "matching", NEW t \in Sources,
                 Wants(w, t)'
          PROVE  t = s
      BY <1>1, <1>2, <2>1, <2>2, <3>1 DEF Wants, ActiveUnique
    <3>2. QED
      BY <2>1, <2>3, <3>1 DEF Admitted
  <2>6. ASSUME NEW t \in Sources, late[w][t] # 0
        PROVE  source[t] # "active" /\ worker'[w].sourceView[t] # "active"
    <3>1. GateConn(w) = "active" /\ t # s
      BY <1>2, <2>2, <2>6, GateKnowsLate DEF GatePasses
    <3>2. ~(conn # "active" /\ worker[w].connView # "active")
      BY <3>1 DEF GateConn
    <3>3. source[t] # "active" /\ worker[w].sourceView[t] # "active"
      BY <1>2, <2>6, <3>2 DEF LateOK, Explained
    <3>4. QED
      BY <1>1, <2>1, <3>1, <3>3
  <2>7. \A t \in Sources : LateOK(w, t)'
    BY <1>1, <1>2, <2>6 DEF LateOK, Explained
  <2>8. QED
    BY <2>4, <2>5, <2>7 DEF WorkerLate
<1>8. ASSUME NEW s \in Sources, MatchControl(w, s) \/ Normalize(w, s)
      PROVE  WorkerLate(w)'
  <2>1. /\ worker[w].phase = "matching"
        /\ worker'[w].next = worker[w].next
        /\ worker'[w].active = worker[w].active
        /\ worker'[w].connView = worker[w].connView
        /\ worker'[w].sourceView = worker[w].sourceView
    BY <1>8, Decides DEF SameSession
  <2>2. ActiveUnique(worker[w])'
    BY <1>2, <2>1 DEF ActiveUnique
  <2>3. Admitted(w)'
    BY <1>1, <1>2, <2>1 DEF Admitted, Wants
  <2>4. \A t \in Sources : LateOK(w, t)'
    BY <1>1, <1>2, <2>1 DEF LateOK, Explained
  <2>5. QED
    BY <2>2, <2>3, <2>4 DEF WorkerLate
<1>9. ASSUME NEW s \in Sources, LoseRace(w, s)
      PROVE  WorkerLate(w)'
  <2>1. /\ worker'[w].phase = "reporting"
        /\ worker'[w].active = worker[w].active
        /\ worker'[w].connView = Unloaded
        /\ \A t \in Sources :
              worker'[w].sourceView[t] \in {Unloaded, source[t]}
    BY <1>9, Writes
  <2>2. ActiveUnique(worker[w])' /\ Admitted(w)'
    BY <1>2, <2>1 DEF ActiveUnique, Admitted
  <2>3. \A t \in Sources : LateOK(w, t)'
    BY <1>1, <1>2, <2>1 DEF LateOK, Explained, Unloaded
  <2>4. QED
    BY <2>2, <2>3 DEF WorkerLate
<1>10. QED
  BY <1>3, <1>4, <1>5, <1>6, <1>7, <1>8, <1>9 DEF LocalStep

\* A row written after the deactivation is the first late one, as the session
\* that writes it holds connection and source as active, and holds neither
\* afterwards.
LEMMA CommitRowLate ==
    ASSUME IInv, LateInv, NEW w \in Workers, NEW s \in Sources,
           CommitRow(w, s)
    PROVE  WorkerLate(w)'
<1> USE DEF IInv
<1>1. /\ UNCHANGED <<conn, source>>
      /\ late' = [late EXCEPT ![w][s] = IF Accepting(s) THEN @ ELSE @ + 1]
      /\ late \in [Workers -> [Sources -> Nat]]
  BY DEF CommitRow, TypeOK
<1>2. /\ worker[w].phase = "writing" /\ Wants(w, s)
      /\ worker'[w].phase = "reporting"
      /\ worker'[w].active = worker[w].active
      /\ worker'[w].connView = Unloaded
      /\ \A t \in Sources :
            worker'[w].sourceView[t] \in {Unloaded, source[t]}
  BY Writes
<1>3. /\ ActiveUnique(worker[w]) /\ Admitted(w)
      /\ \A t \in Sources : LateOK(w, t)
  BY DEF LateInv
<1>4. ActiveUnique(worker[w])' /\ Admitted(w)'
  BY <1>2, <1>3 DEF ActiveUnique, Admitted
<1>5. late[w][s] = 0
  BY <1>2, <1>3 DEF Admitted, LateOK, Explained
<1>6. late'[w][s] = IF Accepting(s) THEN 0 ELSE 1
  BY <1>1, <1>5
<1>7. \A t \in Sources : t # s => late'[w][t] = late[w][t]
  BY <1>1
<1>8. LateOK(w, s)'
  BY <1>1, <1>2, <1>6 DEF LateOK, Explained, Accepting, Unloaded
<1>9. \A t \in Sources : t # s => LateOK(w, t)'
  BY <1>1, <1>2, <1>3, <1>7 DEF LateOK, Explained, Unloaded
<1>10. QED
  BY <1>4, <1>8, <1>9 DEF WorkerLate

LEMMA NextLate ==
    ASSUME IInv, LateInv, [Next]_vars
    PROVE  LateInv'
<1> USE DEF IInv
<1>1. CASE UNCHANGED vars
  BY <1>1 DEF vars, LateInv, LiveUnique, Live, ActiveUnique, Admitted, Wants,
              LateOK, Explained
<1>2. CASE Publish
  <2>1. UNCHANGED <<conn, source, worker, late>>
    BY <1>2 DEF Publish, dbVars
  <2>2. LiveUnique'
    BY <2>1 DEF LateInv, LiveUnique, Live
  <2>3. ASSUME NEW w \in Workers
        PROVE  Admitted(w)'
    <3>1. worker[w].phase \in {"matching", "writing"} =>
            worker[w].next \in 1..Len(stream)
      BY DEF TypeOK, WorkerState, BatchCovered, Covered
    <3>2. worker[w].phase \in {"matching", "writing"} =>
            stream'[worker[w].next] = stream[worker[w].next]
      BY <3>1, StreamStays
    <3>3. QED
      BY <2>1, <3>2 DEF LateInv, Admitted, Wants
  <2>4. QED
    BY <2>1, <2>2, <2>3 DEF LateInv, ActiveUnique, LateOK, Explained
<1>3. CASE Admin
  <2>1. UNCHANGED <<stream, worker>>
    BY <1>3, AdminStep
  <2>2. /\ LiveUnique'
        /\ \A w \in Workers, s \in Sources :
              /\ late'[w][s] \in {0, late[w][s]}
              /\ \/ late'[w][s] = 0
                 \/ /\ conn' = "active" => conn = "active"
                    /\ source'[s] = "active" => source[s] = "active"
    BY <1>3, AdminLate DEF LateInv
  <2>3. \A w \in Workers, s \in Sources : LateOK(w, s)'
    BY <2>1, <2>2 DEF LateInv, LateOK, Explained
  <2>4. QED
    BY <2>1, <2>2, <2>3 DEF LateInv, ActiveUnique, Admitted, Wants
<1>4. ASSUME NEW w \in Workers, Step(w) \/ Fail(w)
      PROVE  LateInv'
  <2>1. /\ \A v \in Workers : v # w => worker'[v] = worker[v]
        /\ late \in [Workers -> [Sources -> Nat]]
    BY <1>4, OtherWorkersStay DEF TypeOK
  <2>2. /\ UNCHANGED <<conn, source, stream>>
        /\ \A v \in Workers : v # w => late'[v] = late[v]
    <3>1. CASE LocalStep(w)
      BY <3>1, LocalStatus, LocalStepCommitsNothing
    <3>2. CASE AdvanceIgnored(w)
      BY <3>2 DEF AdvanceIgnored
    <3>3. ASSUME NEW s \in Sources, CommitRow(w, s)
          PROVE  /\ UNCHANGED <<conn, source, stream>>
                 /\ \A v \in Workers : v # w => late'[v] = late[v]
      BY <2>1, <3>3 DEF CommitRow
    <3>4. QED
      BY <1>4, <3>1, <3>2, <3>3, StepCases
  <2>3. WorkerLate(w)'
    <3>1. CASE AdvanceIgnored(w)
      <4>1. /\ worker'[w].phase = "dispatch"
            /\ worker'[w].active = worker[w].active
            /\ worker'[w].connView = Unloaded
            /\ worker'[w].sourceView = NothingLoaded
        BY <3>1, Ignores
      <4>2. late' = late
        BY <3>1 DEF AdvanceIgnored
      <4>3. QED
        BY <2>2, <4>1, <4>2
           DEF LateInv, WorkerLate, ActiveUnique, Admitted, LateOK, Explained,
               Unloaded, NothingLoaded
    <3>2. QED
      BY <1>4, <3>1, StepCases, LocalLate, CommitRowLate
  <2>4. LiveUnique'
    BY <2>2 DEF LateInv, LiveUnique, Live
  <2>5. ASSUME NEW v \in Workers, v # w
        PROVE  WorkerLate(v)'
    BY <2>1, <2>2, <2>5
       DEF LateInv, WorkerLate, ActiveUnique, Admitted, Wants, LateOK, Explained
  <2>6. QED
    BY <2>3, <2>4, <2>5 DEF LateInv, WorkerLate
<1>5. QED
  BY <1>1, <1>2, <1>3, <1>4 DEF Next

\* A connection or a source that service.py deactivates gets at most one more
\* row from each worker, as ingest_update's commit expires what the worker's
\* session had loaded.
THEOREM Deactivates == Spec => []DeactivationTakesEffect
<1>1. Init => LateInv
  BY DEF Init, LateInv, LiveUnique, Live, ActiveUnique, Admitted, LateOK,
         IdleWorker
<1>2. IInv /\ LateInv /\ [Next]_vars => LateInv'
  BY NextLate
<1>3. LateInv => DeactivationTakesEffect
  BY DEF LateInv, LateOK, DeactivationTakesEffect
<1>4. QED
  BY <1>1, <1>2, <1>3, Inductive, PTL DEF Spec
=============================================================================
