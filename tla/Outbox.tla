-------------------------------- MODULE Outbox --------------------------------
(***************************************************************************)
(* The durable Feishu outbox: the feishu_outbox table                      *)
(* (app/storage/models.py), the claim query and the status updates of      *)
(* FeishuOutboxRepository (app/storage/repositories.py), and the           *)
(* dispatch_once loop of the worker processes (app/feishu/dispatcher.py,   *)
(* app/runtime/worker.py).                                                 *)
(*                                                                         *)
(* Time is relative: wait[i] is next_attempt_at - now, lease[i] is         *)
(* claim_expires_at - now (both stop at 0, "due" and "expired"), and       *)
(* age[w] is now - current_time, the time since worker w read its clock.   *)
(* attempt_count stops at MaxAttempts: the code only asks whether it has   *)
(* been reached.                                                           *)
(***************************************************************************)
EXTENDS Naturals, FiniteSets

CONSTANTS
    Items,        \* the rows, one per idempotency key
    Workers,      \* the outbox worker processes
    NoItem,       \* "no row"
    NoWorker,     \* claimed_by IS NULL
    Kind,         \* Kind[i]: the row's kind
    MaxAttempts,  \* max_attempts of the dispatcher
    Lease,        \* claim_lease_seconds
    BaseRetry,    \* base_retry_seconds
    RetryHints,   \* the retry_after_seconds handlers raise; 0 is "none given"
    Horizon,      \* ages are not told apart beyond this
    MaxCrashes,   \* bound: how often worker processes die
    Prompt        \* TRUE: no dispatch outlives the lease of its claim

Kinds == {"card_send", "card_update", "task_confirmation_prepare",
          "bitable_write", "resume", "graph_dispatch"}

(* The CASE of the claim query's ORDER BY: what a user waits for first.    *)
Rank(i) ==
    CASE Kind[i] \in {"card_send", "card_update", "task_confirmation_prepare"} -> 0
      [] Kind[i] \in {"bitable_write", "resume"} -> 1
      [] OTHER -> 2

(* dispatcher.py:129: a hint of 0 falls back to the exponential backoff.   *)
RetryDelay(attempts, hint) ==
    IF hint # 0 THEN hint ELSE BaseRetry * 2^(attempts - 1)

ASSUME OutboxAssumption ==
    /\ NoItem \notin Items
    /\ NoWorker \notin Workers
    /\ Kind \in [Items -> Kinds]
    /\ MaxAttempts \in Nat \ {0}
    /\ Lease \in Nat \ {0}
    /\ Horizon \in Nat
    /\ Lease <= Horizon
    /\ MaxCrashes \in Nat
    /\ Prompt \in BOOLEAN
    /\ \A n \in 1..(MaxAttempts - 1), h \in RetryHints : RetryDelay(n, h) \in 0..Horizon

VARIABLES
    status,         \* feishu_outbox.status; "absent" before the insert
    attempt_count,  \* claims of the row so far, up to MaxAttempts
    wait,           \* time until next_attempt_at
    lease,          \* time until claim_expires_at, 0 also when it is NULL
    claimed_by,     \* the worker named in the row
    pc,             \* where each worker is in dispatch_once
    job,            \* the row it works on
    age,            \* time since it read current_time
    seen,           \* the attempt_count it read after a failure
    effects,        \* history: committed handler transactions of the row (0, 1, many)
    crashes         \* history: worker deaths so far

rowVars    == <<status, attempt_count, wait, lease, claimed_by>>
workerVars == <<pc, job, age, seen>>
vars       == <<status, attempt_count, wait, lease, claimed_by,
                pc, job, age, seen, effects, crashes>>

Statuses == {"absent", "pending", "claimed", "succeeded", "dead_letter"}
Phases   == {"idle", "selected", "running", "failed"}
Terminal == {"succeeded", "dead_letter"}

TypeOK ==
    /\ status \in [Items -> Statuses]
    /\ attempt_count \in [Items -> 0..MaxAttempts]
    /\ wait \in [Items -> 0..Horizon]
    /\ lease \in [Items -> 0..Lease]
    /\ claimed_by \in [Items -> Workers \cup {NoWorker}]
    /\ pc \in [Workers -> Phases]
    /\ job \in [Workers -> Items \cup {NoItem}]
    /\ age \in [Workers -> 0..Horizon]
    /\ seen \in [Workers -> 0..MaxAttempts]
    /\ effects \in [Items -> 0..2]
    /\ crashes \in 0..MaxCrashes
    /\ \A w \in Workers : pc[w] = "idle" <=> job[w] = NoItem

Init ==
    /\ status = [i \in Items |-> "absent"]
    /\ attempt_count = [i \in Items |-> 0]
    /\ wait = [i \in Items |-> 0]
    /\ lease = [i \in Items |-> 0]
    /\ claimed_by = [i \in Items |-> NoWorker]
    /\ pc = [w \in Workers |-> "idle"]
    /\ job = [w \in Workers |-> NoItem]
    /\ age = [w \in Workers |-> 0]
    /\ seen = [w \in Workers |-> 0]
    /\ effects = [i \in Items |-> 0]
    /\ crashes = 0

-----------------------------------------------------------------------------
(* What is left of a duration that began when worker w read its clock.     *)
Left(duration, elapsed) == IF elapsed < duration THEN duration - elapsed ELSE 0

CapAt(n, bound) == IF n < bound THEN n + 1 ELSE bound

(* Variants: a claim is taken over one unit before its lease ends; expired *)
(* claims are never taken over.                                            *)
ClaimableEarly(i) ==
    \/ status[i] = "pending" /\ wait[i] = 0
    \/ status[i] = "claimed" /\ lease[i] <= 1

ClaimablePendingOnly(i) == status[i] = "pending" /\ wait[i] = 0

(* build_claimable_outbox_query: a due pending row or an expired claim.    *)
Claimable(i) ==
    \/ status[i] = "pending" /\ wait[i] = 0
    \/ status[i] = "claimed" /\ lease[i] = 0

(* Variant: the claim query without FOR UPDATE SKIP LOCKED.                *)
LockedRowsNone(w) == {}

(* Rows under FOR UPDATE in a claim transaction that has not committed.    *)
LockedRows(w) == {job[v] : v \in {u \in Workers \ {w} : pc[u] = "selected"}}

Candidates(w) == {i \in Items \ LockedRows(w) : Claimable(i)}

(* Variant: the worker keeps the row it worked on.                         *)
BecomeIdleKeepsJob(w) ==
    /\ pc' = [pc EXCEPT ![w] = "idle"]
    /\ age' = [age EXCEPT ![w] = 0]
    /\ seen' = [seen EXCEPT ![w] = 0]
    /\ UNCHANGED job

(* dispatch_once returned, raised, or its process restarted.               *)
BecomeIdle(w) ==
    /\ pc' = [pc EXCEPT ![w] = "idle"]
    /\ job' = [job EXCEPT ![w] = NoItem]
    /\ age' = [age EXCEPT ![w] = 0]
    /\ seen' = [seen EXCEPT ![w] = 0]

(* The UPDATE ... WHERE id = outbox_id of the three status updates: it     *)
(* waits for a row lock, checks neither the status nor claimed_by, and     *)
(* clears the claim.  The rows in new were inserted by the handler in the  *)
(* same transaction.                                                       *)
UpdateRow(w, newStatus, newWait, new) ==
    /\ job[w] \notin LockedRows(w)
    /\ status' = [i \in Items |-> IF i = job[w] THEN newStatus
                                  ELSE IF i \in new THEN "pending" ELSE status[i]]
    /\ wait' = [wait EXCEPT ![job[w]] = newWait]
    /\ lease' = [lease EXCEPT ![job[w]] = 0]
    /\ claimed_by' = [claimed_by EXCEPT ![job[w]] = NoWorker]
    /\ UNCHANGED attempt_count

-----------------------------------------------------------------------------
(* enqueue_json: INSERT ... ON CONFLICT DO NOTHING, due at once.           *)
Enqueue(i) ==
    /\ status[i] = "absent"
    /\ status' = [status EXCEPT ![i] = "pending"]
    /\ UNCHANGED <<attempt_count, wait, lease, claimed_by, workerVars, effects, crashes>>

(* claim_next, the SELECT ... FOR UPDATE SKIP LOCKED LIMIT 1: the worker   *)
(* reads its clock and locks the first claimable row nobody else has       *)
(* locked.  Rows of one rank are ordered by next_attempt_at and            *)
(* created_at in the code; here any of them may come first.                *)
SelectClaimable(w) ==
    /\ pc[w] = "idle"
    /\ \E i \in Candidates(w) :
          /\ \A j \in Candidates(w) : Rank(i) <= Rank(j)
          /\ job' = [job EXCEPT ![w] = i]
    /\ pc' = [pc EXCEPT ![w] = "selected"]
    /\ age' = [age EXCEPT ![w] = 0]
    /\ UNCHANGED <<rowVars, seen, effects, crashes>>

(* claim_next, the UPDATE, and the commit of dispatch_once: the lease runs *)
(* from the moment the worker read its clock.                              *)
CommitClaim(w) ==
    /\ pc[w] = "selected"
    /\ pc' = [pc EXCEPT ![w] = "running"]
    /\ status' = [status EXCEPT ![job[w]] = "claimed"]
    /\ claimed_by' = [claimed_by EXCEPT ![job[w]] = w]
    /\ lease' = [lease EXCEPT ![job[w]] = Left(Lease, age[w])]
    /\ attempt_count' = [attempt_count EXCEPT ![job[w]] = CapAt(@, MaxAttempts)]
    /\ UNCHANGED <<wait, job, age, seen, effects, crashes>>

(* handler.handle returned: mark_succeeded and the handler's own writes,   *)
(* the rows it enqueued among them, commit in one transaction.             *)
Succeed(w) ==
    /\ pc[w] = "running"
    /\ \E new \in SUBSET {i \in Items : status[i] = "absent"} :
          UpdateRow(w, "succeeded", wait[job[w]], new)
    /\ effects' = [effects EXCEPT ![job[w]] = CapAt(@, 2)]
    /\ BecomeIdle(w)
    /\ UNCHANGED crashes

(* handler.handle raised: the rollback undoes the handler's writes and     *)
(* expires the row, so item.attempt_count is read again from the table.    *)
HandlerRaises(w) ==
    /\ pc[w] = "running"
    /\ pc' = [pc EXCEPT ![w] = "failed"]
    /\ seen' = [seen EXCEPT ![w] = attempt_count[job[w]]]
    /\ UNCHANGED <<rowVars, job, age, effects, crashes>>

(* _handle_failure, attempts left: release_for_retry, due a delay after    *)
(* the time at which the claim began.                                      *)
ReleaseForRetry(w) ==
    /\ pc[w] = "failed"
    /\ seen[w] < MaxAttempts
    /\ \E hint \in RetryHints :
          UpdateRow(w, "pending", Left(RetryDelay(seen[w], hint), age[w]), {})
    /\ BecomeIdle(w)
    /\ UNCHANGED <<effects, crashes>>

(* Variant: gives up one attempt early.                                    *)
MarkDeadLetterEarly(w) ==
    /\ pc[w] = "failed"
    /\ seen[w] >= MaxAttempts - 1
    /\ UpdateRow(w, "dead_letter", wait[job[w]], {})
    /\ BecomeIdle(w)
    /\ UNCHANGED <<effects, crashes>>

(* _handle_failure, no attempts left.                                      *)
MarkDeadLetter(w) ==
    /\ pc[w] = "failed"
    /\ seen[w] >= MaxAttempts
    /\ UpdateRow(w, "dead_letter", wait[job[w]], {})
    /\ BecomeIdle(w)
    /\ UNCHANGED <<effects, crashes>>

(* The worker process dies, or a commit raises out of run_worker_loop: the *)
(* open transaction is rolled back, what was committed stays.              *)
Crash(w) ==
    /\ pc[w] # "idle"
    /\ crashes < MaxCrashes
    /\ crashes' = crashes + 1
    /\ BecomeIdle(w)
    /\ UNCHANGED <<rowVars, effects>>

(* One unit of time passes.  With Prompt, not while a dispatch is in the   *)
(* last unit of its lease.                                                 *)
Tick ==
    /\ Prompt => \A w \in Workers : pc[w] # "idle" => age[w] + 1 < Lease
    /\ wait' = [i \in Items |-> Left(wait[i], 1)]
    /\ lease' = [i \in Items |-> Left(lease[i], 1)]
    /\ age' = [w \in Workers |-> IF pc[w] = "idle" THEN 0 ELSE CapAt(age[w], Horizon)]
    /\ UNCHANGED <<status, attempt_count, claimed_by, pc, job, seen, effects, crashes>>

Next ==
    \/ \E i \in Items : Enqueue(i)
    \/ \E w \in Workers :
          \/ SelectClaimable(w) \/ CommitClaim(w)
          \/ Succeed(w) \/ HandlerRaises(w)
          \/ ReleaseForRetry(w) \/ MarkDeadLetter(w)
          \/ Crash(w)
    \/ Tick

Spec == Init /\ [][Next]_vars

(* Workers loop for ever and are restarted by their supervisor; a handler  *)
(* returns or raises because every call it makes has a timeout; a blocked  *)
(* UPDATE gets the row lock before the next claim does, because claims     *)
(* skip locked rows instead of queueing for them.  Producers owe nothing.  *)
Fairness ==
    /\ WF_vars(Tick)
    /\ \A w \in Workers :
          /\ WF_vars(SelectClaimable(w))
          /\ WF_vars(CommitClaim(w))
          /\ WF_vars(Succeed(w) \/ HandlerRaises(w))
          /\ SF_vars(ReleaseForRetry(w) \/ MarkDeadLetter(w))

FairSpec == Spec /\ Fairness

-----------------------------------------------------------------------------
(* The runs of a row: a worker between the commit of its claim and the     *)
(* settling of the row.                                                    *)
Running(w, i) == pc[w] \in {"running", "failed"} /\ job[w] = i

(* Two workers never run one row at the same time when no dispatch         *)
(* outlives its lease: claim, SKIP LOCKED and the lease are a mutual       *)
(* exclusion (repositories.py claim_next, dispatcher.py dispatch_once).    *)
ExclusiveRun ==
    \A v, w \in Workers, i \in Items :
        Running(v, i) /\ Running(w, i) => v = w

(* The writes of a handler are committed at most once per row, over        *)
(* failures, worker deaths and reclaimed leases, when no dispatch outlives *)
(* its lease: they commit together with mark_succeeded.                    *)
EffectsAtMostOnce == \A i \in Items : effects[i] <= 1

(* A row that reached succeeded or dead_letter keeps that status.          *)
TerminalIsFinal ==
    [][\A i \in Items : status[i] \in Terminal => status'[i] = status[i]]_vars

(* A row is given up only after MaxAttempts claims, also when stale        *)
(* workers and fresh ones fail in any order (dispatcher.py                 *)
(* _handle_failure reads the count after the rollback).                    *)
DeadLetterEarned ==
    \A i \in Items : status[i] = "dead_letter" => attempt_count[i] = MaxAttempts

(* Every row that was enqueued is settled: no sequence of failures,        *)
(* crashes, expired leases and higher-ranked rows keeps it open for ever.  *)
EventuallySettled ==
    \A i \in Items : status[i] \in {"pending", "claimed"} ~> status[i] \in Terminal

-----------------------------------------------------------------------------
(* The queue the handlers see.                                             *)
Queue == INSTANCE DurableQueue WITH
    row <- [i \in Items |-> IF status[i] \in {"pending", "claimed"} THEN "open" ELSE status[i]],
    run <- [w \in Workers |-> IF pc[w] \in {"running", "failed"} THEN job[w] ELSE NoItem]

(* The outbox implements the durable queue: every step of a worker, of a   *)
(* producer or of the clock is a step of the queue or none.                *)
ImplementsQueue == Queue!Spec

=============================================================================
