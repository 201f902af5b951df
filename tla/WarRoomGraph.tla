----------------------------- MODULE WarRoomGraph -----------------------------
(***************************************************************************)
(* The dispatched half of one task's graph (app/graphs/war_room.py): from  *)
(* the graph_dispatch row to the interrupt or to END.  Every agent of the  *)
(* council and the one business agent run through AgentHarness             *)
(* (app/harness/agent_harness.py) and the model gateway                    *)
(* (app/gateways/llm.py); ReviewGate (app/runtime/review_gate.py) looks at *)
(* the draft before it is proposed.                                        *)
(*                                                                         *)
(* A run keeps three kinds of state apart.  Its channels are checkpointed  *)
(* after every node on a connection of their own, and a retry starts from  *)
(* START with the channels of the latest checkpoint.  Its rows (AgentRun,  *)
(* AgentArtifact, ActionProposal) are in the handler's open transaction.   *)
(* What a node has done so far is in memory.  Two workers may run the row  *)
(* at once.                                                                *)
(*                                                                         *)
(* The artifacts channel is kept as what the nodes read of it: the latest  *)
(* business artifact and the sum of the token estimates.  Left out, as no  *)
(* run of a wired system reaches them: save_as_case_data and               *)
(* reject_with_reason (the policy engine classifies into the five business *)
(* types only) and reject_review_gate (the harness returns validated       *)
(* ArtifactRefs only).                                                     *)
(***************************************************************************)
EXTENDS Naturals, FiniteSets

CONSTANTS
    Inputs,        \* the dispatch payloads: what the text holds, the provider
    Writings,      \* what the business agent may write
    Drafts,        \* artifact ids it may mint
    Workers,       \* the outbox worker processes
    Sizes,         \* token estimates of an artifact
    Budget,        \* the review's token budget (3500)
    NoDraft, NoReview,
    MaxFaults      \* bound: worker deaths and failed agent runs

Modes     == {"triage", "lite", "standard", "full_council"}
Providers == {"openai", "deepseek"}
Requests  == [forced : BOOLEAN, short : BOOLEAN, risky : BOOLEAN]

ASSUME GraphAssumption ==
    /\ Inputs \subseteq [text : Requests, provider : Providers]
    /\ Writings \subseteq [sourced : BOOLEAN, actionable : BOOLEAN, flagged : BOOLEAN]
    /\ Sizes \subseteq Nat
    /\ Budget \in Nat
    /\ MaxFaults \in Nat
    /\ IsFiniteSet(Workers)

(* PolicyEngine.create_task_plan: the mode of a request, by what its text  *)
(* holds.                                                                  *)
CouncilMode(r) ==
    IF r.forced THEN "full_council"
    ELSE IF r.short THEN "triage"
    ELSE IF r.risky THEN "standard" ELSE "lite"

(* How often a gateway asks a model for one answer: OpenAI is held to the  *)
(* schema and asked once, DeepSeek is asked again when its answer holds no *)
(* JSON object.                                                            *)
MaxCalls == [openai |-> 1, deepseek |-> 3]

(* The required agents of a mode, without CouncilSynthesizerAgent.         *)
CouncilSize == [triage |-> 2, lite |-> 3, standard |-> 4, full_council |-> 7]

(* The nodes of the graph; "start" is the claimed row, "waiting" the       *)
(* interrupt and "done" END.                                               *)
Nodes == {"idle", "start", "plan", "council", "dispatch", "ask", "business", "review",
          "repair", "interrupt", "record", "waiting", "done"}

Evidence == {"none", "agent", "repair"}
DraftSet == [id : Drafts, version : {1, 2}, evidence : Evidence, actionable : BOOLEAN,
             flagged : BOOLEAN, size : Sizes]
Finders  == {"evidence", "practicality", "budget", "safety"}
Reviews  == [id : Drafts, version : {1, 2}, status : {"pass", "needs_fix", "needs_human"},
             findings : SUBSET Finders]
Proposals == [draft : DraftSet, review : Reviews]

VARIABLES
    request,    \* the text and the provider of the graph_dispatch payload
    row,        \* the graph_dispatch row
    node,       \* the node each worker's run is about to execute
    channels,   \* the state channels of each worker's run
    cp,         \* the thread's latest checkpoint
    agents,     \* in memory: opinions still to collect, calls to the model in
                \* the current agent run, tokens of the node's artifacts
    session,    \* the rows of each worker's open transaction
    db,         \* the committed rows
    ids,        \* history: what has become of each artifact id
    faults      \* history

vars == <<request, row, node, channels, cp, agents, session, db, ids, faults>>

NoRows    == [runs |-> {}, drafts |-> {}, proposals |-> {}]
NoAgent   == [left |-> 0, calls |-> 0, tokens |-> 0]
Fresh     == [mode |-> "lite", asks |-> FALSE, draft |-> NoDraft, tokens |-> 0,
              attempts |-> 0, review |-> NoReview]

Rows     == [runs : SUBSET {"running", "succeeded", "failed"}, drafts : SUBSET Drafts,
             proposals : SUBSET Proposals]
Channels == [mode : Modes, asks : BOOLEAN, draft : DraftSet \cup {NoDraft},
             tokens : 0..(Budget + 1), attempts : 0..1, review : Reviews \cup {NoReview}]

TypeOK ==
    /\ request \in Inputs
    /\ row \in {"absent", "open", "succeeded"}
    /\ node \in [Workers -> Nodes]
    /\ channels \in [Workers -> Channels]
    /\ cp \in [at : {"none", "running", "interrupt", "end"}, channels : Channels]
    /\ agents \in [Workers -> [left : 0..7, calls : 0..3, tokens : 0..(Budget + 1)]]
    /\ session \in [Workers -> Rows]
    /\ db \in Rows
    /\ ids \in [Drafts -> {"unused", "drafted", "proposed"}]
    /\ faults \in 0..MaxFaults

Init ==
    /\ request \in Inputs
    /\ row = "absent"
    /\ node = [w \in Workers |-> "idle"]
    /\ channels = [w \in Workers |-> Fresh]
    /\ cp = [at |-> "none", channels |-> Fresh]
    /\ agents = [w \in Workers |-> NoAgent]
    /\ session = [w \in Workers |-> NoRows]
    /\ db = NoRows
    /\ ids = [d \in Drafts |-> "unused"]
    /\ faults = 0

(* Token sums are kept up to the first value over the budget.              *)
Capped(n) == IF n > Budget THEN Budget + 1 ELSE n

-----------------------------------------------------------------------------
ConfirmTask ==
    /\ row = "absent"
    /\ row' = "open"
    /\ UNCHANGED <<request, node, channels, cp, agents, session, db, ids, faults>>

(* The claimed row's handler is called.                                    *)
Begin(w) ==
    /\ node[w] = "idle"
    /\ row = "open"
    /\ node' = [node EXCEPT ![w] = "start"]
    /\ UNCHANGED <<request, row, channels, cp, agents, session, db, ids, faults>>

(* A node ends: its update goes to the channels and, with the place in the *)
(* graph, to the checkpoint.                                               *)
Leave(w, next, ch) ==
    /\ node' = [node EXCEPT ![w] = next]
    /\ channels' = [channels EXCEPT ![w] = ch]
    /\ cp' = [at |-> CASE next = "waiting" -> "interrupt" [] next = "done" -> "end"
                       [] OTHER -> "running",
              channels |-> ch]
    /\ UNCHANGED <<request, row, db, faults>>

(* Variant: a retry goes on where the checkpoint is.                       *)
ReceiveInputContinued(w) ==
    /\ node[w] = "start"
    /\ Leave(w, IF cp.at = "running" /\ cp.channels.draft # NoDraft THEN "review" ELSE "plan",
             cp.channels)
    /\ UNCHANGED <<agents, session, ids>>

(* graph.invoke with new input and receive_user_input: START, with the     *)
(* channels that the thread has.                                           *)
ReceiveInput(w) ==
    /\ node[w] = "start"
    /\ Leave(w, "plan", cp.channels)
    /\ UNCHANGED <<agents, session, ids>>

(* create_task_plan_and_policy.                                            *)
CreatePlan(w) ==
    LET mode == CouncilMode(request.text)
    IN  /\ node[w] = "plan"
        /\ Leave(w, "council", [channels[w] EXCEPT !.mode = mode])
        /\ agents' = [agents EXCEPT ![w] = [NoAgent EXCEPT !.left = CouncilSize[mode]]]
        /\ UNCHANGED <<session, ids>>

(* Variant: the lock shuts out the run that holds it.                      *)
ThreadFreeOfAll(w) == \A v \in Workers : session[v].runs = {}

(* _ensure_graph_thread updates the thread's row, which stays locked until *)
(* the transaction of the run ends.                                        *)
ThreadFree(w) == \A v \in Workers \ {w} : session[v].runs = {}

InMemory(w, a, rows) ==
    /\ agents' = [agents EXCEPT ![w] = a]
    /\ session' = [session EXCEPT ![w] = rows]

(* Variant: the AgentRun is committed, for all to see, before the model is *)
(* asked.                                                                  *)
StartAgentCommitted(w) ==
    /\ node[w] \in {"council", "business"}
    /\ agents[w].left > 0 /\ agents[w].calls = 0
    /\ ThreadFree(w)
    /\ InMemory(w, [agents[w] EXCEPT !.calls = 1],
                [session[w] EXCEPT !.runs = @ \cup {"running"}])
    /\ db' = [db EXCEPT !.runs = @ \cup {"running"}]
    /\ UNCHANGED <<request, row, node, channels, cp, ids, faults>>

(* run_agent up to the model call: context pack, AgentRun "running".       *)
StartAgent(w) ==
    /\ node[w] \in {"council", "business"}
    /\ agents[w].left > 0 /\ agents[w].calls = 0
    /\ ThreadFree(w)
    /\ InMemory(w, [agents[w] EXCEPT !.calls = 1],
                [session[w] EXCEPT !.runs = @ \cup {"running"}])
    /\ UNCHANGED <<request, row, node, channels, cp, db, ids, faults>>

(* The answer held no JSON object and the model may be asked again.        *)
CallAgain(w) ==
    /\ agents[w].calls \in 1..(MaxCalls[request.provider] - 1)
    /\ InMemory(w, [agents[w] EXCEPT !.calls = @ + 1], session[w])
    /\ UNCHANGED <<request, row, node, channels, cp, db, ids, faults>>

(* run_agent after the model call: the artifact and the run's memory are   *)
(* written and the AgentRun is "succeeded".                                *)
Succeeded(w) == [session[w] EXCEPT !.runs = (@ \ {"running"}) \cup {"succeeded"}]

CollectOpinion(w, size) ==
    /\ node[w] = "council"
    /\ agents[w].calls > 0
    /\ InMemory(w, [left |-> agents[w].left - 1, calls |-> 0,
                    tokens |-> Capped(agents[w].tokens + size)], Succeeded(w))
    /\ UNCHANGED <<request, row, node, channels, cp, db, ids, faults>>

(* What the council's subgraph hands to the channels: its decision (triage *)
(* asks the user) and its artifacts, which are added to the others.        *)
AfterCouncil(ch, tokens) ==
    [ch EXCEPT !.asks = (ch.mode = "triage"), !.tokens = Capped(@ + tokens)]

(* synthesize_council_decision.                                            *)
SynthesizeDecision(w, size) ==
    /\ node[w] = "council"
    /\ agents[w].left = 0
    /\ Leave(w, "dispatch", AfterCouncil(channels[w], agents[w].tokens + size))
    /\ agents' = [agents EXCEPT ![w] = NoAgent]
    /\ UNCHANGED <<session, ids>>

(* dispatch_from_council and route_from_council.                           *)
DispatchFromCouncil(w) ==
    /\ node[w] = "dispatch"
    /\ Leave(w, IF channels[w].asks THEN "ask" ELSE "business", channels[w])
    /\ agents' = [agents EXCEPT ![w].left = IF channels[w].asks THEN 0 ELSE 1]
    /\ UNCHANGED <<session, ids>>

AskUser(w) ==
    /\ node[w] = "ask"
    /\ Leave(w, "record", channels[w])
    /\ UNCHANGED <<agents, session, ids>>

-----------------------------------------------------------------------------
(* _write_agent_artifact: a new id, and what the model wrote: evidence or  *)
(* source references, a summary of twelve characters or more, high PII or  *)
(* words that claim a side effect.                                         *)
NewDraft(id, x, size) ==
    [id |-> id, version |-> 1, evidence |-> IF x.sourced THEN "agent" ELSE "none",
     actionable |-> x.actionable, flagged |-> x.flagged, size |-> size]

(* ArtifactStore.write, in the run's transaction.                          *)
WithArtifact(rows, d) == [rows EXCEPT !.drafts = @ \cup {d.id}]

(* What the business subgraph hands to the channels: the draft; the review *)
(* and the counter of repairs start anew.                                  *)
AfterBusiness(ch, d) ==
    [ch EXCEPT !.draft = d, !.tokens = Capped(ch.tokens + d.size), !.review = NoReview,
               !.attempts = 0]

(* Variants: the counter of repairs is kept; the artifact id follows from  *)
(* the thread.                                                             *)
CreateDraftKeepsAttempts(w, d) ==
    /\ node[w] = "business" /\ agents[w].calls > 0
    /\ ids[d.id] = "unused"
    /\ Leave(w, "review", [channels[w] EXCEPT !.draft = d, !.tokens = Capped(@ + d.size),
                              !.review = NoReview])
    /\ InMemory(w, NoAgent, WithArtifact(Succeeded(w), d))
    /\ ids' = [ids EXCEPT ![d.id] = "drafted"]

CreateDraftSameId(w, d) ==
    /\ node[w] = "business" /\ agents[w].calls > 0
    /\ Leave(w, "review", AfterBusiness(channels[w], d))
    /\ InMemory(w, NoAgent, WithArtifact(Succeeded(w), d))
    /\ ids' = [ids EXCEPT ![d.id] = "drafted"]

(* create_business_artifact_ref in its subgraph.                           *)
CreateDraft(w, d) ==
    /\ node[w] = "business" /\ agents[w].calls > 0
    /\ ids[d.id] = "unused"
    /\ Leave(w, "review", AfterBusiness(channels[w], d))
    /\ InMemory(w, NoAgent, WithArtifact(Succeeded(w), d))
    /\ ids' = [ids EXCEPT ![d.id] = "drafted"]

(* ReviewGate.review_artifact: the findings and their severity.            *)
Findings(d, tokens) ==
    (IF d.evidence = "none" THEN {"evidence"} ELSE {})
    \cup (IF d.actionable THEN {} ELSE {"practicality"})
    \cup (IF tokens > Budget THEN {"budget"} ELSE {})
    \cup (IF d.flagged THEN {"safety"} ELSE {})

ForHuman(findings) == findings \cap {"evidence", "budget", "safety"}

ReviewStatus(findings, attempts) ==
    IF ForHuman(findings) # {} \/ (findings # {} /\ attempts >= 1) THEN "needs_human"
    ELSE IF findings # {} THEN "needs_fix" ELSE "pass"

(* Variant: any finding that a repair can fix is repaired.                 *)
RouteFromReviewEager(r, attempts) ==
    IF "practicality" \in r.findings /\ attempts < 1 THEN "repair" ELSE "interrupt"

RouteFromReview(r, attempts) ==
    IF r.status = "needs_fix" /\ attempts < 1 THEN "repair" ELSE "interrupt"

(* review_latest_artifact and route_from_review_gate.                      *)
ReviewDraft(w) ==
    LET ch == channels[w]
        f  == Findings(ch.draft, ch.tokens)
        r  == [id |-> ch.draft.id, version |-> ch.draft.version,
               status |-> ReviewStatus(f, ch.attempts), findings |-> f]
    IN  /\ node[w] = "review"
        /\ Leave(w, RouteFromReview(r, ch.attempts), [ch EXCEPT !.review = r])
        /\ UNCHANGED <<agents, session, ids>>

(* repair_artifact_for_review: a longer summary, the next version and a    *)
(* source reference to the review itself.                                  *)
Repaired(d) ==
    [d EXCEPT !.actionable = TRUE, !.version = d.version + 1,
              !.evidence = IF d.evidence = "none" THEN "repair" ELSE d.evidence]

(* The repaired draft is one artifact more.                                *)
AfterRepair(ch) ==
    [ch EXCEPT !.draft = Repaired(ch.draft), !.tokens = Capped(ch.tokens + ch.draft.size),
               !.attempts = ch.attempts + 1]

(* Variant: the repaired draft is proposed without another review.         *)
RepairDraftUnreviewed(w) ==
    /\ node[w] = "repair"
    /\ Leave(w, "interrupt", AfterRepair(channels[w]))
    /\ UNCHANGED <<agents, session, ids>>

(* repair_artifact_after_review.                                           *)
RepairDraft(w) ==
    /\ node[w] = "repair"
    /\ Leave(w, "review", AfterRepair(channels[w]))
    /\ UNCHANGED <<agents, session, ids>>

(* interrupt_human_approval: the proposal with its review goes into the    *)
(* open transaction, then interrupt() checkpoints.                         *)
ProposeAction(w) ==
    LET ch == channels[w]
    IN  /\ node[w] = "interrupt"
        /\ Leave(w, "waiting", ch)
        /\ session' = [session EXCEPT ![w].proposals =
                          @ \cup {[draft |-> ch.draft, review |-> ch.review]}]
        /\ ids' = [ids EXCEPT ![ch.draft.id] = "proposed"]
        /\ UNCHANGED agents

RecordRun(w) ==
    /\ node[w] = "record"
    /\ Leave(w, "done", channels[w])
    /\ UNCHANGED <<agents, session, ids>>

-----------------------------------------------------------------------------
(* The run is over for this worker, its memory and transaction with it.    *)
Forget(w) ==
    /\ node' = [node EXCEPT ![w] = "idle"]
    /\ channels' = [channels EXCEPT ![w] = Fresh]
    /\ InMemory(w, NoAgent, NoRows)
    /\ UNCHANGED <<request, cp, ids>>

(* The rows of a session become visible.                                   *)
Merge(rows) ==
    [runs |-> db.runs \cup rows.runs, drafts |-> db.drafts \cup rows.drafts,
     proposals |-> db.proposals \cup rows.proposals]

Commit(w) ==
    /\ node[w] \in {"waiting", "done"}
    /\ db' = Merge(session[w])
    /\ row' = "succeeded"
    /\ Forget(w)
    /\ UNCHANGED faults

(* The memory gateway, the model gateway or the validation of the output   *)
(* raises.  run_agent marks the AgentRun "failed" and raises again, the    *)
(* dispatcher rolls back and releases the row: neither this AgentRun nor   *)
(* those before it are kept.                                               *)
AgentFails(w) ==
    /\ node[w] \in {"council", "business"} /\ agents[w].left > 0
    /\ faults < MaxFaults
    /\ faults' = faults + 1
    /\ row' = "open"
    /\ Forget(w)
    /\ UNCHANGED db

(* The worker dies; the lease of its row will run out.                     *)
Crash(w) ==
    /\ node[w] # "idle"
    /\ faults < MaxFaults
    /\ faults' = faults + 1
    /\ Forget(w)
    /\ UNCHANGED <<row, db>>

GraphStep(w) ==
    \/ Begin(w) \/ ReceiveInput(w) \/ CreatePlan(w)
    \/ StartAgent(w) \/ CallAgain(w)
    \/ \E size \in Sizes : CollectOpinion(w, size) \/ SynthesizeDecision(w, size)
    \/ DispatchFromCouncil(w) \/ AskUser(w)
    \/ \E id \in Drafts, x \in Writings, size \in Sizes : CreateDraft(w, NewDraft(id, x, size))
    \/ ReviewDraft(w) \/ RepairDraft(w) \/ ProposeAction(w) \/ RecordRun(w) \/ Commit(w)

Next ==
    \/ ConfirmTask
    \/ \E w \in Workers : GraphStep(w) \/ AgentFails(w) \/ Crash(w)

Spec == Init /\ [][Next]_vars

(* A worker goes on with the row it has claimed and claims an open one.    *)
FairSpec == Spec /\ \A w \in Workers : WF_vars(GraphStep(w))
-----------------------------------------------------------------------------
(* The proposals committed or about to be.                                 *)
Proposed == db.proposals \cup UNION {session[w].proposals : w \in Workers}

(* What the approver sees is about what will be written: the review in a   *)
(* proposal is of the proposed version of the proposed draft, and settled. *)
(* The channel may hold the review of an earlier run or version.           *)
ReviewMatchesProposal ==
    \A p \in Proposed :
        /\ p.review.id = p.draft.id /\ p.review.version = p.draft.version
        /\ p.review.status # "needs_fix"

(* A repair never launders a draft: one that passed had evidence from its  *)
(* agent, not just the reference that the repair adds, and no red flag.    *)
PassedIsSound ==
    \A p \in Proposed :
        p.review.status = "pass" =>
            p.draft.evidence = "agent" /\ p.draft.actionable /\ ~p.draft.flagged

(* Every dispatch of a thread has its own repair: a draft is proposed      *)
(* with too short a summary only if a human has to look at it anyway,      *)
(* whatever an earlier run of the thread has used up.                      *)
ShortDraftsRepaired ==
    \A p \in Proposed : p.draft.actionable \/ ForHuman(p.review.findings) # {}

(* A committed proposal refers to a committed artifact, although the       *)
(* checkpoint outlives the rows of the run that wrote it.                  *)
ProposalBacked ==
    \A p \in db.proposals : p.draft.id \in db.drafts

(* No AgentRun is left "running" by a worker that failed or died: what is  *)
(* committed has ended.  (A failed one is rolled back with the dispatch:   *)
(* what is committed has even succeeded, which is not asked for.)          *)
NoAbandonedRun == "running" \notin db.runs

(* Every confirmed task is settled, however its runs fail and overlap:     *)
(* the repair loop and the model's retries end, locks are released.        *)
DispatchSettles == row = "open" ~> row = "succeeded"

(* The runs of this module are the graph runs that ApprovalFlow starts     *)
(* from.  No reviewer takes part; no business agent makes the case data    *)
(* draft, for which NoReview stands.                                       *)
FlowProps == Drafts \cup {NoReview}
FlowRow   == <<"graph_dispatch", NoDraft>>
FlowItems == {FlowRow} \cup ({"resume", "bitable_write"} \X FlowProps)
ASSUME FlowAssumption == FlowRow # NoDraft

FlowStep(n) == CASE n = "idle" -> "idle" [] n = "start" -> "begun"
                 [] n \in {"waiting", "done"} -> "done" [] OTHER -> "graph"

(* A run that waits at its interrupt has a pending proposal in its         *)
(* transaction.                                                            *)
FlowSession(n, ch) ==
    [step |-> FlowStep(n), answer |-> NoDraft, view |-> "none",
     prop |-> IF n = "waiting" THEN ch.draft.id ELSE NoDraft,
     mark |-> IF n = "waiting" THEN "pending" ELSE "none"]
FlowCheckpoint(c) ==
    [at |-> c.at, answer |-> NoDraft,
     prop |-> IF c.at = "interrupt" THEN c.channels.draft.id ELSE NoDraft]
FlowStatus(ps, id) == IF \E p \in ps : p.draft.id = id THEN "pending" ELSE "absent"

Flow == INSTANCE ApprovalFlow WITH
    Props <- FlowProps, CaseData <- NoReview, Edits <- {}, Callers <- {},
    NoItem <- NoDraft, NoProp <- NoDraft, NoAnswer <- NoDraft, NoRequest <- NoDraft,
    BitableConfigured <- TRUE,
    row <- [i \in FlowItems |-> IF i = FlowRow THEN row ELSE "absent"],
    run <- [w \in Workers |-> IF node[w] = "idle" THEN NoDraft ELSE FlowRow],
    cp  <- FlowCheckpoint(cp),
    minted <- {d \in Drafts : ids[d] = "proposed"},
    proposals <- [p \in FlowProps |-> FlowStatus(db.proposals, p)],
    human <- [p \in FlowProps |-> NoDraft],
    payload <- [p \in FlowProps |-> NoDraft],
    session <- [w \in Workers |-> FlowSession(node[w], channels[w])],
    records <- [p \in FlowProps |-> NoDraft],
    synced <- [p \in FlowProps |-> FALSE],
    request <- [c \in {} |-> NoDraft]

ImplementsFlow == Flow!Spec

=============================================================================
