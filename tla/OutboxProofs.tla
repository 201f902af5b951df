----------------------------- MODULE OutboxProofs -----------------------------
(***************************************************************************)
(* Proofs about the outbox, for any number of rows and workers, any lease, *)
(* any attempt limit and any bound on crashes.                             *)
(***************************************************************************)
EXTENDS Outbox, TLAPS

(* What TypeOK and DeadLetterEarned rest on: a selected row is still open  *)
(* (its lock keeps others from settling it), two selecting workers hold    *)
(* different rows, and every run has counted its claim.                    *)
SelectedOpen ==
    \A w \in Workers : pc[w] = "selected" => status[job[w]] \in {"pending", "claimed"}

LocksDisjoint ==
    \A v, w \in Workers :
        pc[v] = "selected" /\ pc[w] = "selected" /\ job[v] = job[w] => v = w

ClaimsCounted ==
    \A w \in Workers :
        /\ pc[w] \in {"running", "failed"} => attempt_count[job[w]] >= 1
        /\ pc[w] = "failed" => seen[w] >= 1 /\ seen[w] <= attempt_count[job[w]]

IInv == TypeOK /\ SelectedOpen /\ LocksDisjoint /\ ClaimsCounted /\ DeadLetterEarned

-----------------------------------------------------------------------------
(* A countdown never goes below zero or above where it started.            *)
LEMMA LeftBound ==
    ASSUME NEW d \in Nat, NEW e \in Nat
    PROVE  Left(d, e) \in 0..d
BY DEF Left

(* A capped attempt count grows with the claims and stays in its bound.    *)
LEMMA CapBound ==
    ASSUME NEW b \in Nat, NEW n \in 0..b
    PROVE  CapAt(n, b) \in 0..b /\ CapAt(n, b) >= n /\ (b > 0 => CapAt(n, b) >= 1)
BY DEF CapAt

(* An empty table satisfies IInv.                                          *)
LEMMA InitIInv == Init => IInv
BY OutboxAssumption DEF Init, IInv, TypeOK, SelectedOpen, LocksDisjoint, ClaimsCounted,
   DeadLetterEarned, Statuses, Phases

(* Every step keeps IInv; one step per action.                             *)
LEMMA NextIInv == IInv /\ [Next]_vars => IInv'
<1> SUFFICES ASSUME IInv, [Next]_vars PROVE IInv'
    OBVIOUS
<1> USE OutboxAssumption DEF Statuses, Phases
<1>1. ASSUME NEW i \in Items, Enqueue(i) PROVE IInv'
    BY <1>1 DEF IInv, Enqueue, workerVars, TypeOK, SelectedOpen, LocksDisjoint,
       ClaimsCounted, DeadLetterEarned
<1>2. ASSUME NEW w \in Workers, SelectClaimable(w) PROVE IInv'
  <2>1. PICK i \in Candidates(w) : job' = [job EXCEPT ![w] = i]
      BY <1>2 DEF SelectClaimable
  <2>2. i \in Items /\ i # NoItem /\ status[i] \in {"pending", "claimed"}
      BY <2>1 DEF Candidates, Claimable
  <2>3. \A v \in Workers \ {w} : pc[v] = "selected" => job[v] # i
      BY <2>1 DEF Candidates, LockedRows
  <2>4. TypeOK'
      BY <1>2, <2>1, <2>2 DEF IInv, SelectClaimable, rowVars, TypeOK
  <2>5. SelectedOpen' /\ LocksDisjoint' /\ ClaimsCounted' /\ DeadLetterEarned'
      BY <1>2, <2>1, <2>2, <2>3 DEF IInv, SelectClaimable, rowVars, TypeOK, SelectedOpen,
         LocksDisjoint, ClaimsCounted, DeadLetterEarned
  <2> QED BY <2>4, <2>5 DEF IInv
<1>3. ASSUME NEW w \in Workers, CommitClaim(w) PROVE IInv'
  <2>1. job[w] \in Items
      BY <1>3 DEF IInv, TypeOK, CommitClaim
  <2>2. Left(Lease, age[w]) \in 0..Lease
    <3>1. age[w] \in Nat /\ Lease \in Nat
        BY DEF IInv, TypeOK
    <3> QED BY <3>1, LeftBound
  <2>3. /\ CapAt(attempt_count[job[w]], MaxAttempts) \in 0..MaxAttempts
        /\ CapAt(attempt_count[job[w]], MaxAttempts) >= attempt_count[job[w]]
        /\ CapAt(attempt_count[job[w]], MaxAttempts) >= 1
    <3>1. attempt_count[job[w]] \in 0..MaxAttempts /\ MaxAttempts \in Nat /\ MaxAttempts > 0
        BY <2>1 DEF IInv, TypeOK
    <3> QED BY <3>1, CapBound
  <2>4. TypeOK'
      BY <1>3, <2>1, <2>2, <2>3 DEF IInv, CommitClaim, TypeOK
  <2>5. SelectedOpen' /\ LocksDisjoint' /\ ClaimsCounted' /\ DeadLetterEarned'
      BY <1>3, <2>1, <2>3 DEF IInv, CommitClaim, TypeOK, SelectedOpen,
         LocksDisjoint, ClaimsCounted, DeadLetterEarned
  <2> QED BY <2>4, <2>5 DEF IInv
<1>4. ASSUME NEW w \in Workers, Succeed(w) PROVE IInv'
  <2>1. job[w] \in Items /\ \A v \in Workers \ {w} : pc[v] = "selected" => job[v] # job[w]
      BY <1>4 DEF IInv, TypeOK, Succeed, UpdateRow, LockedRows
  <2>2. CapAt(effects[job[w]], 2) \in 0..2
      BY <2>1, CapBound DEF IInv, TypeOK
  <2>5. PICK new \in SUBSET {i \in Items : status[i] = "absent"} :
           UpdateRow(w, "succeeded", wait[job[w]], new)
      BY <1>4 DEF Succeed
  <2>3. TypeOK'
      BY <1>4, <2>1, <2>2, <2>5 DEF IInv, Succeed, UpdateRow, BecomeIdle, TypeOK
  <2>4. SelectedOpen' /\ LocksDisjoint' /\ ClaimsCounted' /\ DeadLetterEarned'
      BY <1>4, <2>1, <2>5 DEF IInv, Succeed, UpdateRow, BecomeIdle, TypeOK, SelectedOpen,
         LocksDisjoint, ClaimsCounted, DeadLetterEarned
  <2> QED BY <2>3, <2>4 DEF IInv
<1>5. ASSUME NEW w \in Workers, HandlerRaises(w) PROVE IInv'
    BY <1>5 DEF IInv, HandlerRaises, rowVars, TypeOK, SelectedOpen, LocksDisjoint,
       ClaimsCounted, DeadLetterEarned
<1>6. ASSUME NEW w \in Workers, ReleaseForRetry(w) PROVE IInv'
  <2>1. job[w] \in Items /\ \A v \in Workers \ {w} : pc[v] = "selected" => job[v] # job[w]
      BY <1>6 DEF IInv, TypeOK, ReleaseForRetry, UpdateRow, LockedRows
  <2>2. PICK hint \in RetryHints :
           UpdateRow(w, "pending", Left(RetryDelay(seen[w], hint), age[w]), {})
      BY <1>6 DEF ReleaseForRetry
  <2>3. RetryDelay(seen[w], hint) \in 0..Horizon
      BY <1>6 DEF IInv, TypeOK, ClaimsCounted, ReleaseForRetry
  <2>4. Left(RetryDelay(seen[w], hint), age[w]) \in 0..Horizon
      BY <2>3 DEF Left, IInv, TypeOK
  <2>5. TypeOK'
      BY <1>6, <2>1, <2>2, <2>4 DEF IInv, ReleaseForRetry, UpdateRow, BecomeIdle, TypeOK
  <2>6. SelectedOpen' /\ LocksDisjoint' /\ ClaimsCounted' /\ DeadLetterEarned'
      BY <1>6, <2>1, <2>2 DEF IInv, ReleaseForRetry, UpdateRow, BecomeIdle, TypeOK,
         SelectedOpen, LocksDisjoint, ClaimsCounted, DeadLetterEarned
  <2> QED BY <2>5, <2>6 DEF IInv
<1>7. ASSUME NEW w \in Workers, MarkDeadLetter(w) PROVE IInv'
  <2>1. job[w] \in Items /\ \A v \in Workers \ {w} : pc[v] = "selected" => job[v] # job[w]
      BY <1>7 DEF IInv, TypeOK, MarkDeadLetter, UpdateRow, LockedRows
  <2>2. TypeOK'
      BY <1>7, <2>1 DEF IInv, MarkDeadLetter, UpdateRow, BecomeIdle, TypeOK
  <2>3. attempt_count[job[w]] = MaxAttempts
      BY <1>7, <2>1 DEF IInv, TypeOK, ClaimsCounted, MarkDeadLetter
  <2>4. SelectedOpen' /\ LocksDisjoint' /\ ClaimsCounted' /\ DeadLetterEarned'
      BY <1>7, <2>1, <2>3 DEF IInv, MarkDeadLetter, UpdateRow, BecomeIdle, TypeOK,
         SelectedOpen, LocksDisjoint, ClaimsCounted, DeadLetterEarned
  <2> QED BY <2>2, <2>4 DEF IInv
<1>8. ASSUME NEW w \in Workers, Crash(w) PROVE IInv'
    BY <1>8 DEF IInv, Crash, BecomeIdle, rowVars, TypeOK, SelectedOpen, LocksDisjoint,
       ClaimsCounted, DeadLetterEarned
<1>9. CASE Tick
  <2>1. TypeOK'
      BY <1>9, LeftBound, CapBound DEF IInv, Tick, TypeOK, Left, CapAt
  <2>2. SelectedOpen' /\ LocksDisjoint' /\ ClaimsCounted' /\ DeadLetterEarned'
      BY <1>9 DEF IInv, Tick, SelectedOpen, LocksDisjoint, ClaimsCounted, DeadLetterEarned
  <2> QED BY <2>1, <2>2 DEF IInv
<1>10. CASE UNCHANGED vars
    BY <1>10 DEF IInv, vars, TypeOK, SelectedOpen, LocksDisjoint, ClaimsCounted,
       DeadLetterEarned
<1> QED
    BY <1>1, <1>2, <1>3, <1>4, <1>5, <1>6, <1>7, <1>8, <1>9, <1>10 DEF Next

(* IInv is an invariant of the outbox.                                     *)
LEMMA OutboxIInv == Spec => []IInv
BY InitIInv, NextIInv, PTL DEF Spec

(* The outbox rows and the workers stay within their types.                *)
THEOREM OutboxTypeOK == Spec => []TypeOK
<1>1. IInv => TypeOK
    BY DEF IInv
<1> QED BY OutboxIInv, <1>1, PTL

(* A row is dead-lettered only after MaxAttempts claims, whatever stale    *)
(* workers do to its status meanwhile.                                     *)
THEOREM OutboxDeadLetterEarned == Spec => []DeadLetterEarned
<1>1. IInv => DeadLetterEarned
    BY DEF IInv
<1> QED BY OutboxIInv, <1>1, PTL

-----------------------------------------------------------------------------
(* The outbox implements the durable queue.  The clock, the selection of a *)
(* row and the reading of attempt_count are invisible; the commit of a     *)
(* claim starts a run (SelectedOpen: the row is open), and each of the     *)
(* three status updates settles it.                                        *)
LEMMA InitQueue == Init => Queue!Init
BY DEF Init, Queue!Init

(* A claim starts a run because its row is still open; time passing,       *)
(* selecting and failing change nothing that the queue shows.              *)
LEMMA NextQueue == IInv /\ [Next]_vars => [Queue!Next]_(Queue!queueVars)
<1> SUFFICES ASSUME IInv, [Next]_vars PROVE [Queue!Next]_(Queue!queueVars)
    OBVIOUS
<1> USE OutboxAssumption
<1>1. ASSUME NEW i \in Items, Enqueue(i) PROVE Queue!Enqueue(i)
    BY <1>1 DEF IInv, TypeOK, Enqueue, workerVars, Queue!Enqueue
<1>2. ASSUME NEW w \in Workers, SelectClaimable(w) PROVE UNCHANGED Queue!queueVars
    BY <1>2 DEF IInv, TypeOK, SelectClaimable, rowVars, Queue!queueVars
<1>3. ASSUME NEW w \in Workers, CommitClaim(w) PROVE \E i \in Items : Queue!Start(w, i)
  <2>1. PICK i \in Items : i = job[w]
      BY <1>3 DEF IInv, TypeOK, CommitClaim
  <2>2. Queue!Start(w, i)
      BY <1>3, <2>1 DEF IInv, TypeOK, SelectedOpen, CommitClaim, Queue!Start
  <2> QED BY <2>2
<1>4. ASSUME NEW w \in Workers, Succeed(w) PROVE \E new \in SUBSET Items : Queue!Settle(w, "succeeded", new)
  <2>1. PICK new \in SUBSET {i \in Items : status[i] = "absent"} :
           UpdateRow(w, "succeeded", wait[job[w]], new)
      BY <1>4 DEF Succeed
  <2>2. Queue!Settle(w, "succeeded", new)
      BY <1>4, <2>1 DEF IInv, TypeOK, Succeed, UpdateRow, BecomeIdle, Queue!Settle
  <2> QED BY <2>2
<1>5. ASSUME NEW w \in Workers, HandlerRaises(w) PROVE UNCHANGED Queue!queueVars
    BY <1>5 DEF IInv, TypeOK, HandlerRaises, rowVars, Queue!queueVars
<1>6. ASSUME NEW w \in Workers, ReleaseForRetry(w) PROVE Queue!Settle(w, "open", {})
  <2>1. PICK hint \in RetryHints :
           UpdateRow(w, "pending", Left(RetryDelay(seen[w], hint), age[w]), {})
      BY <1>6 DEF ReleaseForRetry
  <2> QED BY <1>6, <2>1 DEF IInv, TypeOK, ReleaseForRetry, UpdateRow, BecomeIdle, Queue!Settle
<1>7. ASSUME NEW w \in Workers, MarkDeadLetter(w) PROVE Queue!Settle(w, "dead_letter", {})
    BY <1>7 DEF IInv, TypeOK, MarkDeadLetter, UpdateRow, BecomeIdle, Queue!Settle
<1>8. ASSUME NEW w \in Workers, Crash(w) PROVE Queue!Abandon(w) \/ UNCHANGED Queue!queueVars
  <2>1. CASE pc[w] = "selected"
      BY <1>8, <2>1 DEF IInv, TypeOK, Crash, BecomeIdle, rowVars, Queue!queueVars
  <2>2. CASE pc[w] \in {"running", "failed"}
      BY <1>8, <2>2 DEF IInv, TypeOK, Crash, BecomeIdle, rowVars, Queue!Abandon
  <2> QED BY <1>8, <2>1, <2>2 DEF IInv, TypeOK, Phases, Crash
<1>9. CASE Tick
    BY <1>9 DEF Tick, Queue!queueVars
<1>10. CASE UNCHANGED vars
    BY <1>10 DEF vars, Queue!queueVars
<1>11. "succeeded" \in Queue!RowStates \ {"absent"} /\ "open" \in Queue!RowStates \ {"absent"}
        /\ "dead_letter" \in Queue!RowStates \ {"absent"}
    BY DEF Queue!RowStates
<1>12. ASSUME NEW w \in Workers, NEW outcome \in Queue!RowStates \ {"absent"},
              NEW new \in SUBSET Items, Queue!Settle(w, outcome, new)
       PROVE  Queue!Next
    BY ONLY <1>12 DEF Queue!Next
<1>15. ASSUME NEW w \in Workers, NEW i \in Items, Queue!Start(w, i) PROVE Queue!Next
    BY ONLY <1>15 DEF Queue!Next
<1>16. ASSUME NEW w \in Workers, CommitClaim(w) PROVE Queue!Next
    BY <1>3, <1>15, <1>16
<1>17. ASSUME NEW w \in Workers, Succeed(w) PROVE Queue!Next
    BY <1>4, <1>11, <1>12, <1>17
<1>18. ASSUME NEW w \in Workers, ReleaseForRetry(w) PROVE Queue!Next
    BY <1>6, <1>11, <1>12, <1>18
<1>19. ASSUME NEW w \in Workers, MarkDeadLetter(w) PROVE Queue!Next
    BY <1>7, <1>11, <1>12, <1>19
<1>13. ASSUME NEW w \in Workers, Crash(w) PROVE Queue!Next \/ UNCHANGED Queue!queueVars
    BY <1>8, <1>13 DEF Queue!Next
<1>14. ASSUME NEW i \in Items, Enqueue(i) PROVE Queue!Next
    BY <1>1, <1>14 DEF Queue!Next
<1> QED
    BY <1>2, <1>5, <1>9, <1>10, <1>13, <1>14, <1>16, <1>17, <1>18, <1>19 DEF Next

(* Every behaviour of the outbox is a behaviour of the durable queue.      *)
THEOREM OutboxImplementsQueue == Spec => ImplementsQueue
BY InitQueue, NextQueue, OutboxIInv, PTL DEF Spec, ImplementsQueue, Queue!Spec

-----------------------------------------------------------------------------
(* When no dispatch outlives its lease: a run owns the claim of its row,   *)
(* whose lease ends exactly when the run's own time is up; a row being     *)
(* selected is run by nobody; and a row's effects are committed if and     *)
(* only if it has succeeded.                                               *)
InTime == \A w \in Workers : pc[w] # "idle" => age[w] < Lease

RunOwnsClaim ==
    \A w \in Workers, i \in Items :
        Running(w, i) => /\ status[i] = "claimed"
                         /\ claimed_by[i] = w
                         /\ lease[i] = Lease - age[w]

SelectedNotRun ==
    \A v, w \in Workers, i \in Items :
        pc[w] = "selected" /\ job[w] = i => ~Running(v, i)

EffectsMatch ==
    \A i \in Items : effects[i] = IF status[i] = "succeeded" THEN 1 ELSE 0

PromptInv == InTime /\ RunOwnsClaim /\ SelectedNotRun /\ EffectsMatch

(* Nobody runs a row at the start.                                         *)
LEMMA InitPromptInv == Init => PromptInv
BY OutboxAssumption DEF Init, PromptInv, InTime, RunOwnsClaim, SelectedNotRun, EffectsMatch, Running

(* Every step of a prompt outbox keeps PromptInv; one step per action.     *)
LEMMA NextPromptInv ==
    ASSUME Prompt, IInv, PromptInv, [Next]_vars
    PROVE  PromptInv'
<1> USE OutboxAssumption DEF Running
<1>1. ASSUME NEW i \in Items, Enqueue(i) PROVE PromptInv'
    BY <1>1 DEF IInv, TypeOK, PromptInv, Enqueue, workerVars, InTime, RunOwnsClaim,
       SelectedNotRun, EffectsMatch
<1>2. ASSUME NEW w \in Workers, SelectClaimable(w) PROVE PromptInv'
  <2>1. PICK i \in Candidates(w) : job' = [job EXCEPT ![w] = i]
      BY <1>2 DEF SelectClaimable
  <2>2. i \in Items /\ (status[i] = "claimed" => lease[i] = 0)
      BY <2>1 DEF Candidates, Claimable
  <2>3. \A v \in Workers : ~Running(v, i)
      BY <2>2 DEF IInv, TypeOK, PromptInv, InTime, RunOwnsClaim
  <2> QED
      BY <1>2, <2>1, <2>2, <2>3 DEF IInv, TypeOK, PromptInv, SelectClaimable, rowVars, InTime,
         RunOwnsClaim, SelectedNotRun, EffectsMatch
<1>3. ASSUME NEW w \in Workers, CommitClaim(w) PROVE PromptInv'
  <2>1. job[w] \in Items /\ age[w] \in Nat /\ age[w] < Lease
      BY <1>3 DEF IInv, TypeOK, PromptInv, InTime, CommitClaim
  <2>2. Left(Lease, age[w]) = Lease - age[w]
      BY <2>1 DEF Left
  <2>3. InTime' /\ SelectedNotRun' /\ EffectsMatch'
      BY <1>3, <2>1 DEF IInv, TypeOK, PromptInv, LocksDisjoint, SelectedOpen, CommitClaim, InTime,
         SelectedNotRun, EffectsMatch
  <2>4. RunOwnsClaim'
      BY <1>3, <2>1, <2>2 DEF IInv, TypeOK, PromptInv, CommitClaim, RunOwnsClaim, SelectedNotRun
  <2> QED BY <2>3, <2>4 DEF PromptInv
<1>4. ASSUME NEW w \in Workers, Succeed(w) PROVE PromptInv'
  <2>1. job[w] \in Items /\ Running(w, job[w]) /\ effects[job[w]] = 0
      BY <1>4 DEF IInv, TypeOK, PromptInv, RunOwnsClaim, EffectsMatch, Succeed
  <2>2. \A v \in Workers : Running(v, job[w]) => v = w
      BY <2>1 DEF PromptInv, RunOwnsClaim
  <2>3. CapAt(effects[job[w]], 2) = 1
      BY <2>1 DEF CapAt
  <2>4. PICK new \in SUBSET {i \in Items : status[i] = "absent"} :
           UpdateRow(w, "succeeded", wait[job[w]], new)
      BY <1>4 DEF Succeed
  <2> QED
      BY <1>4, <2>1, <2>2, <2>3, <2>4 DEF IInv, TypeOK, PromptInv, Succeed, UpdateRow, BecomeIdle, InTime,
         RunOwnsClaim, SelectedNotRun, EffectsMatch
<1>5. ASSUME NEW w \in Workers, HandlerRaises(w) PROVE PromptInv'
    BY <1>5 DEF IInv, TypeOK, PromptInv, HandlerRaises, rowVars, InTime, RunOwnsClaim,
       SelectedNotRun, EffectsMatch
<1>6. ASSUME NEW w \in Workers, NEW st \in {"pending", "dead_letter"}, NEW d,
             pc[w] = "failed", UpdateRow(w, st, d, {}), BecomeIdle(w), UNCHANGED <<effects, crashes>>
      PROVE  PromptInv'
  <2>1. job[w] \in Items /\ Running(w, job[w]) /\ status[job[w]] = "claimed"
      BY <1>6 DEF IInv, TypeOK, PromptInv, RunOwnsClaim
  <2>2. \A v \in Workers : Running(v, job[w]) => v = w
      BY <2>1 DEF PromptInv, RunOwnsClaim
  <2> QED
      BY <1>6, <2>1, <2>2 DEF IInv, TypeOK, PromptInv, UpdateRow, BecomeIdle, InTime,
         RunOwnsClaim, SelectedNotRun, EffectsMatch
<1>7. ASSUME NEW w \in Workers, ReleaseForRetry(w) \/ MarkDeadLetter(w) PROVE PromptInv'
    BY <1>6, <1>7 DEF ReleaseForRetry, MarkDeadLetter
<1>8. ASSUME NEW w \in Workers, Crash(w) PROVE PromptInv'
    BY <1>8 DEF IInv, TypeOK, PromptInv, Crash, BecomeIdle, rowVars, InTime, RunOwnsClaim,
       SelectedNotRun, EffectsMatch
<1>9. CASE Tick
  <2>1. \A w \in Workers : pc[w] # "idle" => age[w] + 1 < Lease /\ age'[w] = age[w] + 1
      BY <1>9 DEF IInv, TypeOK, Tick, CapAt
  <2>2. \A w \in Workers, i \in Items : Running(w, i) => lease'[i] = Lease - (age[w] + 1)
      BY <1>9, <2>1 DEF IInv, TypeOK, PromptInv, RunOwnsClaim, Tick, Left
  <2> QED
      BY <1>9, <2>1, <2>2 DEF IInv, TypeOK, PromptInv, Tick, InTime, RunOwnsClaim,
         SelectedNotRun, EffectsMatch
<1>10. CASE UNCHANGED vars
    BY <1>10 DEF vars, PromptInv, InTime, RunOwnsClaim, SelectedNotRun, EffectsMatch
<1> QED
    BY <1>1, <1>2, <1>3, <1>4, <1>5, <1>7, <1>8, <1>9, <1>10 DEF Next

(* A prompt outbox satisfies both invariants.                              *)
LEMMA OutboxPromptInv == ASSUME Prompt PROVE Spec => [](IInv /\ PromptInv)
<1>1. IInv /\ PromptInv /\ [Next]_vars => (IInv /\ PromptInv)'
    BY NextIInv, NextPromptInv
<1> QED BY <1>1, InitIInv, InitPromptInv, PTL DEF Spec

(* Mutual exclusion: when dispatches end within their lease, no two        *)
(* workers ever run one row at the same time.                              *)
THEOREM OutboxExclusiveRun == ASSUME Prompt PROVE Spec => []ExclusiveRun
<1>1. IInv /\ PromptInv => ExclusiveRun
    BY DEF PromptInv, RunOwnsClaim, ExclusiveRun
<1> QED BY <1>1, OutboxPromptInv, PTL

(* Exactly-once commit: under the same condition the writes of a handler   *)
(* are committed at most once per row, crashes and retries included.       *)
THEOREM OutboxEffectsAtMostOnce == ASSUME Prompt PROVE Spec => []EffectsAtMostOnce
<1>1. IInv /\ PromptInv => EffectsAtMostOnce
    BY DEF PromptInv, EffectsMatch, EffectsAtMostOnce
<1> QED BY <1>1, OutboxPromptInv, PTL

(* Under the same condition a settled row is never touched again.          *)
THEOREM OutboxTerminalIsFinal == ASSUME Prompt PROVE Spec => TerminalIsFinal
<1>1. ASSUME IInv, PromptInv, [Next]_vars, NEW i \in Items, status[i] \in Terminal
      PROVE  status'[i] = status[i]
  <2> USE <1>1, OutboxAssumption DEF Terminal
  <2>1. \A w \in Workers : ~Running(w, i) /\ ~(pc[w] = "selected" /\ job[w] = i)
      BY DEF IInv, SelectedOpen, PromptInv, RunOwnsClaim
  <2>2. ASSUME NEW w \in Workers, NEW st, NEW d, NEW new, i \notin new,
               pc[w] \in {"running", "failed"}, UpdateRow(w, st, d, new)
        PROVE  status'[i] = status[i]
      BY <2>1, <2>2 DEF IInv, TypeOK, UpdateRow, Running
  <2>3. ASSUME NEW w \in Workers, Succeed(w) \/ ReleaseForRetry(w) \/ MarkDeadLetter(w)
        PROVE  status'[i] = status[i]
    <3>1. CASE Succeed(w)
      <4>1. PICK new \in SUBSET {j \in Items : status[j] = "absent"} :
               UpdateRow(w, "succeeded", wait[job[w]], new)
          BY <3>1 DEF Succeed
      <4> QED BY <2>1, <3>1, <4>1 DEF IInv, TypeOK, UpdateRow, Running, Succeed
    <3>2. CASE ReleaseForRetry(w) \/ MarkDeadLetter(w)
        BY <2>2, <3>2 DEF ReleaseForRetry, MarkDeadLetter
    <3> QED BY <2>3, <3>1, <3>2
  <2>4. ASSUME NEW w \in Workers, CommitClaim(w) PROVE status'[i] = status[i]
      BY <2>1, <2>4 DEF IInv, TypeOK, CommitClaim
  <2>5. ASSUME NEW j \in Items, Enqueue(j) PROVE status'[i] = status[i]
      BY <2>5 DEF IInv, TypeOK, Enqueue
  <2>6. ASSUME NEW w \in Workers, SelectClaimable(w) \/ HandlerRaises(w) \/ Crash(w)
        PROVE  status'[i] = status[i]
      BY <2>6 DEF SelectClaimable, HandlerRaises, Crash, rowVars
  <2> QED BY <2>3, <2>4, <2>5, <2>6 DEF Next, Tick, vars
<1>2. IInv /\ PromptInv /\ [Next]_vars
        => [\A i \in Items : status[i] \in Terminal => status'[i] = status[i]]_vars
    BY <1>1
<1> QED BY <1>2, OutboxPromptInv, PTL DEF Spec, TerminalIsFinal

=============================================================================
