# Formal models of headhunt-agent

TLA+ models, TLC runs and TLAPS proofs for the recruitment agent in `app/`: a
FastAPI service that takes tasks from Feishu, queues them in a durable outbox
in PostgreSQL, runs a LangGraph graph on them in worker processes, asks a human
before any business side effect, and writes approved actions to a Feishu
Bitable.

## 1. The system

| Component | Source | State it keeps | Operations |
|---|---|---|---|
| Durable outbox | `storage/repositories.py`, `feishu/dispatcher.py`, `runtime/worker.py` | `feishu_outbox` rows: status, attempts, next attempt, claim and its lease | enqueue, claim, succeed, retry, dead-letter |
| Approval flow | `graphs/war_room.py`, `runtime/action_gate.py`, `runtime/approvals.py`, `runtime/action_executor.py`, `runtime/outbox.py`, `feishu/service.py` | `action_proposals`, `human_approvals`, the LangGraph checkpoint of the thread | dispatch, propose and interrupt, decide (card or API), resume, execute |
| Bitable synchronisation | `feishu/outbox_handlers.py`, `BitableSyncRepository` | write chunks, record maps; the records at Feishu | check approval, batch_create, record success or conflict |
| Feishu intake | `feishu/service.py`, `feishu/callbacks.py`, `feishu/task_intake.py`, `feishu/outbox_handlers.py` | event log, card actions, payload blobs, graph threads | event, task confirmation, model setup |
| War Room graph before the interrupt | `graphs/war_room.py`, `runtime/review_gate.py`, `policy/engine.py` | graph channels: mode, decision, artifacts, review result, repair attempts | council, route, draft, review, repair, propose |
| Agent harness, artifacts | `harness/`, `artifacts/`, `gateways/llm.py` | agent runs, artifacts, the thread's row lock | run an agent, ask the model, store, audit |
| Memory | `memory/` | memory items: status, retention policy, expiry | propose, approve, revoke, retrieve, expire |
| Model profiles | `model_profiles/`, `discord/`, `api/discord.py` | profiles of an owner, the default of a usage, row locks | add, use, revoke, test, call with a key |
| Task authorization | `runtime/task_authorization.py` | graph threads, outbox rows | authorize |
| HTTP gateways | `feishu/gateways.py`, `gateways/` | the tenant token cached by a run | fetch token, send, update, batch_create |
| Cards, Discord, inspection, readiness, schemas | the rest of `app/` | none of their own | formatting, parsing, reports |

How they interact. Callbacks and API calls never run a graph: they commit rows,
and outbox rows carry everything that happens later. A worker claims one row in
a transaction of its own, runs the row's handler on the same session, and
commits the handler's writes together with the new status of the row. The graph
checkpoints on a separate connection. The human's answer comes back as another
row (`resume`), and its execution leaves a third (`bitable_write`).

What is hard here:

* several workers, claims with leases, handlers (LLM calls) that may outlast the
  lease, and status updates that do not check the claim;
* two stores that commit separately, the checkpoint and the session;
* two channels for one decision, arbitrated by unique keys only;
* retries of handlers with external effects (Bitable, cards), a tenant token
  that may be refused in the middle of them, and answers that never arrive;
* a retried graph run that starts over with the channels of a checkpoint whose
  rows were rolled back;
* rows loaded into a session, changed in memory and flushed later over whatever
  others have written (memory reviews, retention, profile commands);
* caches and statuses read before they are used.

What makes each part correct. Outbox: one run of a row at a time, effects
committed once, no row lost, no row given up early. Approval flow: nothing is
written without a human decision or against it, the first decision stands, a
decision takes effect. Bitable: a repeated write makes no second record, a
token clash stays visible. Intake: one preparation per message, and the graph
runs on the task the user confirmed. Graph: what is put before the human was
reviewed as it is, a repair cannot launder a draft, every run has its own repair
and ends, and no row refers to one that was rolled back. Memory: a long-term
memory comes into service, and back into it, only by a review, and an agent gets
only what its request's boundaries, PII level and budget allow. Profiles: at most
one default, and a revoked key is not used by later tasks.

## 2. Modules

```
DurableQueue            what handlers may assume of the queue (abstract)
  ^ implemented by      ^ used by (INSTANCE)
Outbox                  ApprovalFlow   Intake   FeishuDelivery
                          ^ implemented by
                        WarRoomGraph

on their own            TaskAuthorization   MemoryLifecycle   ModelProfiles

MC<M>: TLC instance of M.  <M>Proofs: TLAPS proofs about M.
```

### DurableQueue

Rows (`absent`, `open`, `succeeded`, `dead_letter`) and, per worker, the row it
runs. A run of an open row may start at any time, also while another run of it
is under way; a run settles its row whatever its status has become; the rows a
handler enqueues appear together with its success. This is the weakest promise
under which the handlers have to be correct, and it is what `Outbox` is shown
to provide.

### Outbox

One action per transaction of `dispatch_once`: the locking SELECT
(`SelectClaimable`), the claim (`CommitClaim`), the handler's outcome
(`Succeed`, `HandlerRaises`), the update after a failure (`ReleaseForRetry`,
`MarkDeadLetter`), the death of a process (`Crash`), and `Enqueue` for the
producers. Time is relative, so the state space is finite: `wait` and `lease`
count down, `age` is the time since the worker read its clock, which is the
clock reading that the lease and the next attempt are computed from. A status
update waits for a row lock and tests neither status nor claim. `Prompt` is the
assumption that a dispatch ends within its lease.

Abstracted: payloads; the order of rows within a rank (any may be first);
clock differences between worker hosts; `attempt_count` beyond the limit.

### ApprovalFlow

One thread. `session[w]` is the worker's place in its handler and its open
transaction: `mark` is the proposal status it has written and not committed.
`cp` is the checkpoint, durable at once. `ReadProposal`, `CommitDecision` and
`RefuseDecision` are the two halves of both decision channels. `EnterGraph`,
`Propose` and `EndWithoutProposal` are the dispatched run; `ResumeAnswered`,
`ResumeElsewhere`, `LoadProposal` and `Execute` the resumed one;
`CheckApproved` and `BatchCreate` the Bitable handler; `Commit` ends any of
them, `HandlerRefuses` and `Fault` are the ways they fail. The queue underneath
allows the same row to be run by several workers, which is what expired leases
cause.

External and modelled from how the code uses it: LangGraph (new input restarts
a thread at START; `Command(resume=...)` re-runs the interrupted node, or
continues from a later checkpoint without looking at the value, or does nothing
at the end; the latest checkpoint wins) and Feishu's `batch_create` (a repeated
`client_token` finds the first record).

Abstracted: the nodes before the interrupt (a choice here; `WarRoomGraph` has
them), the thread's displayed status, the approval card, the audit rows.

### Intake

Messages of one owner in one chat, up to the `graph_dispatch` row that
`ApprovalFlow.ConfirmTask` starts from. A message stands for its `source_ref`,
thread, task and all its idempotency keys, which the code derives from it. The
event callback reads the default profile (`ReadDefault`) before it commits
(`AcceptEvent`) or finds the event recorded (`RefuseEvent`); the setup form
likewise (`SubmitSetup`, then `CommitSetup` or `RefuseSetup`). A delivery of a
message has a raw body, because the stored payloads refer to it by its hash.
The preparation handler is `ParseMessage` (the model may answer differently in
each run), then `PrepareCard`, `FailPreparation` or `FailPreparationAgain`,
which follow the first-payload-wins comparison of `store_json_payload` and
`enqueue_json`. `SendCard` is visible to the user before `CommitSent`.
`RejectTask` and `ApproveTask` are the click; `RevokeProfile` may happen at any
time.

Abstracted: signatures, decryption and parsing; what the card says beyond the
task and its profile; clicks that are answered without a write; the card update
after a setup. External: Feishu shows a card once per uuid.

### TaskAuthorization

`POST /tasks/authorize`. A request checks its thread (`CheckThread`) and later
writes thread and row in one transaction (`Authorize`), or finds its key taken
and rolls back (`RefuseAuthorization`). The payload holds the time of the call,
so a repeated request never equals the first. Requests with `approved=false`
write nothing and are left out. What happens to the queued row is
`ApprovalFlow`'s.

### WarRoomGraph

The dispatched half of a thread, node by node: `ReceiveInput`, `CreatePlan`, the
council (`StartAgent`, `CallAgain`, `CollectOpinion`, `SynthesizeDecision`),
`DispatchFromCouncil`, then `AskUser` and `RecordRun`, or the business agent
(`StartAgent`, `CallAgain`, `CreateDraft`), `ReviewDraft`, `RepairDraft` and
`ProposeAction`. `Commit` ends a run; `AgentFails` and `Crash` roll it back.
Three kinds of state are kept apart: the channels, which are checkpointed after
every node (`cp`); the rows of the open transaction (`session`); and what a node
has in memory (`agents`). A retry starts at START with the channels of `cp`,
whose rows may be gone. `ThreadFree` is the row lock of the graph thread, which
a run takes with its first agent and holds to its end.

`Flow` maps this state to `ApprovalFlow`'s, and `ImplementsFlow` says that the
runs here are graph runs there: the choice that `ApprovalFlow` makes between
proposing and ending is made here by the nodes.

Abstracted: the artifacts channel to what nodes read of it (latest business
artifact, sum of token estimates, kept up to the first value over the budget);
what an agent writes to what ReviewGate tells apart; the context pack. Left out:
`save_as_case_data`, `reject_with_reason` and `reject_review_gate`, which no task
that the policy engine classifies and no artifact that the harness validates
reaches.

### FeishuDelivery

The handlers that call Feishu, on the durable queue with attempts: `Begin`
(a claim; claiming a row that is still run costs an expired lease), `FetchToken`
(`get_tenant_access_token`, from an empty cache or forced), `CallServed`,
`CallRefused` (first refusal: forced refresh, same request again),
`CallRefusedAgain`, `CheckChunk` (the comparison before the upsert), `Commit`
(chunk, record map and row in one transaction), `RaiseConflict`, `CallFails`
(also when Feishu has served the request and the answer is lost) and `Crash`.
External: Feishu's tenant token (`Rotate`) and its memory for idempotency tokens
(`Forget`, never under a run that holds an answer).

### MemoryLifecycle

`ProposeUpdate` is one upsert. Approval, revocation and retention load rows
(`LoadForApproval`, `LoadForRevocation`, `LoadForRetention`) and flush later
(`CommitSession`); `Flushed` writes only the columns that the session changed, on
top of the row of now, as SQLAlchemy does. `Retrieve` is the query's WHERE
clause, ORDER BY and LIMIT followed by `_select_refs`. The order of similarity is
any of `Orders`.

What is proposed is a draft, a `MemoryItem` as `upsert` gets it, with its
content_ref and version (`key`), id, scope, owner, thread, the six boundary fields
(any set `Fields`; two in the instance, which the code treats alike), PII level,
size, policy, an end of its own and confidence. A row remembers two drafts: the
one that made it, whose id, scope, owner and creation time it keeps, and the
`last` one, whose content it has. That is what the upsert does on a conflict, and
so a row may have a status that was computed for another scope. `filed` are the
memories that a proposal row refers to; the code reads neither the type nor the
status of a proposal, so nothing else is kept of it. The foreign key of a proposal
row and the primary key of a memory refuse drafts whose ids do not fit (`Named`).

`reviewed` is history: the memories that a reviewer has loaded and approved as they
are stored, since they were last proposed, or taken out of service by a revocation
or a retention run. An approval is `Overtaken` when, since it loaded the memory,
the content was replaced or the memory revoked or expired; the code does not
notice, and such an approval counts as no review. The confidence of a draft is
`sure` or not, that is, at least the one threshold that the requests use. An agent's
memory without an owner comes only from an `upsert` past the gateway, which names
the proposing agent.

Left out: the filters `owner_agent` and `metadata_contains`, which only narrow a
request and which no caller gives; embeddings; audit rows; dry runs.

### ModelProfiles

One owner. A command reads its profile (`Receive`), clears the default in one
UPDATE that sees the rows of its start and waits for their holders
(`StartClearing`, `ClearDefault`), and flushes (`CommitDefault`, `CommitRevoke`,
`CommitTest`) or is refused by a unique index (`RefuseDefault`). A dispatch finds
its profile in its session or in the database (`CallModel`), holds the row from
`mark_used` on (`MarkUsed`) and lets go at its end (`EndDispatch`, which is also
every failure).

## 3. Runs

| Run | Instance | Result |
|---|---|---|
| `outbox_prompt` | 3 rows, one of each rank, 2 workers, 3 attempts, lease 2, retry hints none/3, 2 crashes, `Prompt` | types, mutual exclusion, at-most-once effects, settled rows final |
| `outbox_late` | 2 rows of different rank, 2 workers, 2 attempts, dispatches of any length, 1 crash, fair | dead letters earned; refinement of `DurableQueue`; every row is settled |
| `approval_faults` | 2 proposals, 2 workers, 1 request at a time, 1 fault anywhere | what is written is what was decided; approval and queued write atomic |
| `approval_live` | 2 proposals, 1 worker, 2 requests at once, no fault, fair | decisions and outcomes are final; every decision takes effect |
| `approval_lost` | the same with 1 fault | **violated**: the decision is lost |
| `intake_overlap` | 1 message, 2 deliveries with 2 bodies, 2 profiles, 2 setup forms at once, 2 possible parses, 2 workers, 1 fault | types; one preparation; the dispatched task is the one shown; authorization kept |
| `intake_live` | 2 messages, 2 deliveries, 1 worker, 1 fault, fair | every message is answered with a card |
| `war_room` | 3 requests (triage, lite, full council; both providers), 4 kinds of draft, 2 draft ids, 2 workers, budget 12 with artifacts of size 1, 1 failure or death, fair | what is proposed was reviewed as it is, soundly passed, repaired once per run, backed by a committed artifact; no abandoned AgentRun; every dispatch settles; refinement of `ApprovalFlow` |
| `delivery` | 1 card, 1 card update, 1 Bitable write, 2 workers, 3 attempts, 1 fault, 2 token rotations, 1 lapsed idempotency token per row, fair | no unexplained duplicate; maps name a record, and the first; settled rows earned it; everything is delivered |
| `memory` | 3 keys (two versions of one content and a note), 5 drafts (two of them for one key in different scopes, two wordings of one key, two contents with one id), 2 boundary fields, 2 sessions, clock 0..1, retention 1 and 2, 3 proposals, 4 requests, 2 orders; symmetric sessions | a long-term memory comes into service unreviewed in two ways only; retrieval hands out what the code's policy allows; an end is lost only to a stale session |
| `profiles` | 3 chat profiles, two of one name, 2 commands at once and 4 in all, 2 dispatches one after the other, fair | one default; revocation is final; a default is lost only to a revocation; later dispatches do not call with a revoked key; every command is answered |
| `authorize` | 3 requests, 2 source_refs, 1 shared explicit thread | types; no thread without its dispatch row |

Bounds. Two workers are enough for every conflict over one row. Lease 2 with
horizon 3 separates "just read the clock", "last unit" and "expired", and a
retry hint beyond the lease. Three attempts separate first, middle and last.
Two proposals are needed for a decision to meet the wrong interrupt; one of
them has the key that repeats in every run. One fault reaches every gap between
the two stores. In the intake, two parses are what it takes for two runs of one
preparation to disagree, two bodies for a redelivery to differ, two profiles for
a default to change under a callback, and two forms for setups to compete. Three authorization requests let two share a source_ref while
the third shares a thread. In the graph, a budget of 12 is enough for
one run of any council with its repair and passed when a retried run of the full
council adds to the same channels; two draft ids let a retried run write a second draft; the
four drafts are one that passes, one to repair, one to repair and show, one to
show. In the delivery, a call is refused twice only after two rotations, so that
with one fault a row fails at most twice, one less than its attempts. For memory,
retention 1 and 2 with clock 0..1 lets a row lapse, and reach the end of one
policy but not of the other; three proposals of one key are what it takes for a
memory to become permanent and cease to be, and lose its end. In the
instance two memories are served together, a duplicate content, a full budget,
one without an owner and one of low confidence occur, a draft meets a row of
another scope, one is refused for its id, and approvals are overtaken in each way. Two commands at once and a dispatch are what it
takes for a reset, an insertion and a held row to meet.

Deadlock checking is off in the approval, intake, authorization, graph, delivery
and profile runs: when all rows are settled and nobody asks, the system rests.

`TypeOK` of the four last modules and `KeyIffActive` of `ModelProfiles` are not
checked by a run; they are proved.

Fairness. `run_worker_loop` never returns and the container restarts it;
handlers return because their calls have timeouts; a blocked UPDATE is granted
before the next claim because claims skip locked rows (strong fairness of the
update after a failure). Time passes. Nobody is obliged to enqueue or to
decide. In the intake, a callback that has begun ends and a worker goes on;
nobody is obliged to write, to click or to fill in the form. `intake_live` has
one worker: with two, a row whose runs report different errors is retried
(`FailPreparationAgain`), and the abstract queue has no attempt limit to end the
retries; that the limit ends them is `EventuallySettled` of `Outbox`. In the graph, a
worker that can take a step of `GraphStep` takes one (weak fairness): agents
return because model calls have timeouts and are asked at most three times, and
an open row is claimed. Failures and deaths are not fair, and bounded. In the
delivery, a handler goes on and an open row is claimed. A profile command that waits for a row gets it although others
take it in between (strong fairness: PostgreSQL queues the waiters of a row
lock), and a dispatch ends.

### Finding

`approval_lost`. The worker dies after the resumed graph has checkpointed its
end and before the session commits. The reclaimed `resume` row finds a finished
thread, does nothing and is marked succeeded; the proposal stays pending, no
write is queued and a new decision is refused because a HumanApproval exists,
against `docs/engineering/02_数据库设计.md:608`.

### Observations

Effects that the models show or that were met while writing them, without a run
of their own.

Outbox and intake:

* `mark_succeeded`, `release_for_retry` and `mark_dead_letter` update
  `WHERE id = ...` only (`storage/repositories.py:346`). A handler that runs
  longer than `claim_lease_seconds` is run again by another worker and both
  commit, against `docs/engineering/01_接口总览.md:364`. `outbox_late` allows it;
  `EffectsAtMostOnce` holds under `Prompt` only.
* A redelivery in another raw body makes `store_json_payload` raise, which
  `enqueue_event` does not catch (`feishu/service.py:132`);
  `docs/engineering/03_飞书接入设计.md:79` asks for a successful ACK. Nothing wrong
  is committed.
* Overlapping runs of one preparation whose answers differ may send both a
  confirmation card and a parse-failed card, whose text says that there is no
  confirmation button (`feishu/cards.py:194`); the dispatched task is still the
  one shown.
* `_ensure_thread_can_be_used` reads the thread without a lock, so two requests
  naming one new `thread_id` for different source_refs may both be queued.

Delivery and graph:

* The conflict row of a client_token clash is part of the transaction that its
  exception rolls back (`storage/repositories.py:520`), so that a clash leaves an
  outbox error and no conflict row, other than
  `docs/engineering/03_飞书接入设计.md:29` says.
* The tenant token cache lives as long as one dispatch: every dispatch fetches a
  token.
* The `failed` AgentRun that `run_agent` writes (`harness/agent_harness.py:164`) is
  rolled back with the handler's session (`feishu/dispatcher.py:80`), and the
  succeeded ones before it too;
  `docs/prd/modules/09_测试验收与模拟执行_PRD.md:252` says '不丢失 AgentRuns 审计'.
  `NoAbandonedRun` says only that none stays `running`; it would hold as well if the
  failed one were kept.
* DeepSeek may be asked three times for one answer, OpenAI once.
* `enqueue_question_card` has no caller: a run that asks the user ends without a
  question card.

Memory:

* A long-term memory may be active although nobody has reviewed its content,
  against `docs/prd/modules/12_Agent协作可观测记忆Harness_PRD.md:267`. The two ways are the
  two exceptions of `UnreviewedOnlyIfOvertaken`, and both occur in `memory`:
  an item of scope RunMemory with the content_ref and version of a stored
  long-term memory makes its row active (`memory/vector_store.py:75`,
  `memory/gateway.py:195`; the harness gives its run memories a content_ref of their
  own, so this takes another caller of the gateway); and an approval that commits
  after the content was replaced, or the memory revoked or expired, activates it
  all the same (`memory/gateway.py:251`).
  `docs/prd/modules/07_质量合规与安全_PRD.md:115` says of revoked memories that no agent
  gets them.
* Approving a memory that is found revoked or expired makes it active again
  (`memory/gateway.py:228`), other than
  `docs/prd/modules/00_总PRD_拼接入口.md:129` suggests; the model counts it as a review.
  `approve_update` also takes a proposal of type `revoke`, and a revoked memory of
  the run. A second revocation of a revoked memory changes no column, and an
  approval that commits before it stands.
* Line 270 of the same document 12, and `09_测试验收与模拟执行_PRD.md:218`, keep memories of
  low confidence from all agents. The query compares the confidence only for a
  request with a `min_confidence` (`memory/vector_store.py:201`);
  `build_context_pack` gives none (`harness/agent_harness.py:49`), and the harness
  stores memories of the run with the confidence that the model states.
  `ServedAsAllowed` therefore keeps a memory below the request's threshold from it,
  demands of no request that it be given one of low confidence, and does not say
  that agents never get one: in the model they do.
* A retention run that overlaps a new proposal of the same content can expire a
  memory just made permanent, or take the end of one that no longer is; the next
  retention run repairs the latter (`EndLostToStaleSession`).
* Agents get memories of the run only: the harness passes `thread_id` and
  `task_type`, and long-term memory needs one of the six boundary fields
  (`memory/gateway.py:311`).

Profiles:

* A profile chosen as default while it is being revoked may stay a revoked row
  with `is_default`; the index and all readers look at active rows only.
* The name of a revoked profile cannot be used again.
* An `add` or `use` whose reset waits while another `add` commits does not see
  the new row and is refused by the partial index.
* `mark_used` holds the profile's row to the end of the dispatch, so a revocation
  waits for it; a dispatch under way may go on calling with a key revoked
  meanwhile.

## 4. Proofs

`OutboxProofs`, for any rows, workers, lease, limits and bound on crashes.

* `OutboxTypeOK`, `OutboxDeadLetterEarned` from `IInv`: a selected row is open
  and selected by one worker (its lock), every run has counted its claim, and
  the count a failed worker has read is not ahead of the row. Types alone are
  not inductive: the retry delay is only bounded because the count is at least 1.
* `OutboxImplementsQueue`: the refinement. A claim maps to `Start` because the
  selected row is still open; selection, reading and time are stutters.
* `OutboxExclusiveRun`, `OutboxEffectsAtMostOnce`, `OutboxTerminalIsFinal`,
  assuming `Prompt`, from `PromptInv`: a running worker owns its row's claim,
  and the lease ends exactly `Lease - age` from now, so nobody can take the row
  over before the run ends; effects are committed exactly for succeeded rows.

`ApprovalFlowProofs`, for any proposals, workers, requests and faults, from
`FlowInv`: a proposal has a decision exactly when it has a resume row; the
answer in the checkpoint and in every executing session is that decision; an
open transaction writes what follows from it, and one transaction at a time
does (the thread row's lock); the queued write carries the decision. It gives
`FlowTypeOK`, `FlowWrittenAsDecided`, `FlowDecisionHonoured`,
`FlowApprovedIsQueued`, `FlowDecisionIsFinal`.

`FlowUsesQueue`, and with it `IntakeUsesQueue` and `DeliveryUsesQueue` of the next
modules, closes the gap between the layers: every step of a handler module is a
step of `DurableQueue` or leaves the queue alone (`Spec => Queue!Spec`), and
`OutboxImplementsQueue` says that the outbox provides that queue. The invariants
enter where a handler names its row: a request is for a proposal, a session that
approves has one, a parsed run is of a message.

`IntakeProofs`, for any messages, deliveries, bodies, profiles, workers, forms
and faults, from `IntakeInv`: a run's row exists (`RunsExist`) and an idle worker
holds nothing (`SessionOK`); rows and cards exist only for recorded events
(`RowsHaveEvent`, `EventHasRow`, `SentExist`); a form is for a message whose
event found no profile (`ClickOK`), and its profile is in use (`SetupUsed`); the
stored task and the shown card were written together and the first of them
stays (`CardsOK`); a decision has what follows from it (`DecisionOK`). The
stored task is compared only when it is written, so `DispatchedAsShown` is not
inductive without `CardsOK`. It gives `IntakeTypeOK`, `IntakeOnePreparation`,
`IntakeDispatchedAsShown` and `IntakeAuthorizationKept`.

`TaskAuthorization` holds its own two short proofs, `AuthorizationTypeOK` and
`AuthorizationNoOrphanThread`, for any requests, source_refs and threads; with
the types, `NoOrphanThread` is inductive as it stands.

`WarRoomGraphProofs`, for any requests, drafts, workers, sizes, budget and
faults, from `GraphInv`. The properties speak of proposals, which are made many
steps after the draft and may use channels of an earlier run, so the invariant
says what a run at each node relies on (`RunOK`): from the review on, the draft
is one that this transaction wrote, the repair counter tells whether it is
repaired, and its evidence is never the repair's (`Drafted`); at the interrupt,
draft and review make a good proposal (`Good`); an AgentRun is `running` only
while an agent is called. Nothing is assumed of the channels at the earlier
nodes: that is why a stale checkpoint does no harm. The lemma `ReviewFacts` is the
argument about ReviewGate. It gives `GraphTypeOK`,
`GraphReviewMatchesProposal`, `GraphPassedIsSound`, `GraphShortDraftsRepaired`,
`GraphProposalBacked` and `GraphNoAbandonedRun`.

* `GraphImplementsFlow`: the refinement of `ApprovalFlow`, from `GraphInv` and
  `PlaceInv`. A proposal maps to `Propose`, which needs a fresh proposal and a
  thread that nobody else writes; neither follows from `GraphInv`. `PlaceInv` adds
  that a run with rows holds the thread's lock, so one run at a time is past its
  first agent (`OneWriter`); that this run's draft id is minted and not yet
  proposed, and a waiting run's proposal is the one of its draft (`PlaceOK`); and
  that committed proposals have minted ids (`MintedOK`). The node that a run is
  at, its channels and its rows determine the session that it maps to
  (`FlowSession`, `FlowCheckpoint`, `FlowStatus`); the nodes between the entry and
  the interrupt are `ReachNode` or stutters, a death is `Fault`. The only assumption
  is that `NoDraft`, which also stands for "runs nothing", is not the dispatch row
  (`FlowAssumption`).
* `GraphRunsAreFinite`: `StepsLeft` counts what a run may still do (one repair, one
  business agent, seven opinions, three calls each): at most 42 steps, fewer with
  every step of the run, and untouched by the others. It is the part of
  `DispatchSettles` that holds without fairness.

`FeishuDeliveryProofs`, for any rows, workers and bounds, from `DeliveryInv`: what
Feishu remembers is the last id it made and every other was forgotten
(`FeishuOK`); the answer a run holds is still remembered, so that overlapping runs
hold the same, and a checked answer does not contradict the chunk (`AnswersOK`).
It gives `DeliveryTypeOK`, `DeliveryDuplicatesExplained`,
`DeliveryMapNamesARecord`, `DeliverySettledIsEarned` and `DeliveryFirstRecordKept`.

`MemoryLifecycleProofs`, for any memories, drafts, sessions and retention
periods, from `MemoryInv`: stored rows have drafts and a creation time and proposal
rows refer to stored memories (`StoredOK`), and sessions hold stored rows
(`SessionsOK`). `UnreviewedOnlyIfOvertaken` rests on the columns that a flush writes
(`CommitFacts`, `WantedFacts`): a session other than an approval never changes a
status to `active`, and one that changes it to something else does not leave the
memory in service. It gives `MemoryTypeOK`, `MemoryUnreviewedOnlyIfOvertaken` and
`MemoryEndLostToStaleSession`.

`MemoryServedAsAllowed` is about the loop of `_select_refs`, a recursion over the
places of the order. `RetrievalAssumption` says that the memories are finite, the
budgets natural numbers, and an order of similarity lists every memory once.
Induction is over sets of numbers: a nonempty set of naturals has a least element
(`NatLeast`, from the library's `WFMin`), hence `NatInd` for any set, instantiated
with the places at which the loop invariant `PickOK` holds: what is picked so far
are candidates of distinct contents, within topK, their tokens are the running
sum and within the budget, and while nothing is picked no candidate has fitted.
One turn of the loop keeps it (`PickKeeps`). That the sum does not depend on the
order of picking is a second induction, over the function `TotalTokens`
(`SumSplit`, `SumAdd`). `MatchesIffServable` says that the WHERE clause and the
policy agree, and `AllAreCandidates` that the LIMIT cuts nothing off while no more
than 3 * topK memories may be served; with the last part of `PickOK`, an empty
answer then means that nothing fitted.

`ModelProfilesProofs`, for any profiles, names, commands and dispatches, from
`ProfilesInv`: what a command under way relies on (`CommandOK`: the profile it
adds is nobody else's, its reset touches its own usage only) and what a dispatch
has loaded (`DispatchOK`: nothing that was revoked when it began). It gives
`ProfilesTypeOK`, `ProfilesOneActiveDefault`, `ProfilesKeyIffActive`,
`ProfilesRevokedBeforeIsNotCalled`, `ProfilesRevocationIsFinal` and
`ProfilesDefaultLostByRevocation`.

Only model-checked: liveness (`EventuallySettled`, `DecisionTakesEffect`,
`MessageAnswered`, `DispatchSettles`, `DeliveredDespiteFaults`,
`CommandAnswered`), which needs fairness and ENABLED and is beyond the prover.
Every safety invariant, action property and refinement that a passing run checks
is also proved. That of the violated run is false there.

## 5. Plan

Done: `Outbox` over `DurableQueue`, `ApprovalFlow` and `WarRoomGraph` under it,
`Intake`, `FeishuDelivery`, `TaskAuthorization`, `MemoryLifecycle`,
`ModelProfiles`, the safety proofs of all of them, both refinements, and the use
of the queue through its interface. To do:

1. The finite halves of the other liveness properties, as `GraphRunsAreFinite` is
   of `DispatchSettles`: what is left of a delivery's run, of a profile command
   and of an outbox row's attempts goes down with every step.
2. The theorems of `ApprovalFlow` restated for `WarRoomGraph` through the mapping.

## 6. Not modelled

* Card layout, message and callback parsing, signatures and encryption: functions
  without state; their outcomes are the inputs of `Intake`, `ApprovalFlow` and
  `ModelProfiles`.
* HTTP formats, URL checks, embeddings and what a model writes: external, an
  arbitrary choice in the models.
* Inspection, readiness, the local doctor, smoke tests, configuration, schemas and
  migrations: read only, or declarations. The constraints that the migrations
  declare (unique keys, partial indexes) are part of the actions that meet them.
* The displayed status of threads and the audit rows: written in the same
  transactions as the modelled rows and read only for display.
