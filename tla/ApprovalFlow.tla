----------------------------- MODULE ApprovalFlow -----------------------------
(***************************************************************************)
(* One task's way from its confirmed start to a Bitable record: the graph  *)
(* run that proposes a business action and interrupts                      *)
(* (app/graphs/war_room.py, app/runtime/action_gate.py), the human         *)
(* decision that arrives over two channels (app/runtime/approvals.py,      *)
(* app/feishu/service.py), the resumed run that executes it                *)
(* (app/runtime/action_executor.py) and the Bitable write                  *)
(* (app/feishu/outbox_handlers.py).  The three handlers run on the durable *)
(* queue, several runs of one row at once included.                        *)
(*                                                                         *)
(* A handler's session is one transaction: its writes (session[w].mark and *)
(* the row that goes with it) appear when Commit settles the row.  The     *)
(* LangGraph checkpoint cp is on a connection of its own and is durable at *)
(* once (app/runtime/graph_factory.py).                                    *)
(*                                                                         *)
(* Left out: the status shown for the thread, the approval card and the    *)
(* card-action audit row, which are written in these transactions and      *)
(* which no handler of the flow reads.                                     *)
(***************************************************************************)
EXTENDS Naturals, FiniteSets

CONSTANTS
    Props,             \* the action proposals graph runs may make for the thread
    CaseData,          \* the one whose key is the same in every run (save_as_case_data)
    Edits,             \* the edited payloads a reviewer may send
    Workers,           \* the outbox worker processes
    Callers,           \* concurrent approval requests, card callbacks and API calls
    NoItem, NoProp, NoAnswer, NoRequest,
    BitableConfigured, \* app token and table id are set
    MaxFaults          \* bound: worker deaths and transient handler errors

(* HumanApproval.decision; an edit is told apart by its payload.           *)
Approving == {"approve"} \cup Edits
Answers   == {"reject"} \cup Approving

ASSUME FlowAssumption ==
    /\ CaseData \in Props
    /\ NoProp \notin Props
    /\ NoAnswer \notin Answers
    /\ "approve" \notin Edits /\ "reject" \notin Edits
    /\ NoRequest \notin [prop : Props, answer : Answers]
    /\ BitableConfigured \in BOOLEAN
    /\ MaxFaults \in Nat

(* The rows of feishu_outbox, by kind and idempotency key.                 *)
DispatchRow   == <<"graph_dispatch", NoProp>>
ResumeRow(p)  == <<"resume", p>>
BitableRow(p) == <<"bitable_write", p>>
Items == {DispatchRow} \cup {ResumeRow(p) : p \in Props} \cup {BitableRow(p) : p \in Props}

ASSUME NoItemAssumption == NoItem \notin Items

VARIABLES
    row, run,    \* the durable queue
    cp,          \* the thread's latest checkpoint
    minted,      \* proposals whose artifact some run has produced
    proposals,   \* ActionProposal.status
    human,       \* HumanApproval.decision, unique per proposal
    payload,     \* the decision carried by the bitable_write row
    session,     \* each worker's place in its handler and its open transaction
    records,     \* the Bitable record made under the proposal's client_token
    synced,      \* feishu_bitable_write_chunks has a succeeded row
    request,     \* what each approval request has read and is about to insert
    faults       \* history: worker deaths and transient errors so far

Queue == INSTANCE DurableQueue

queue == <<row, run>>
vars  == <<row, run, cp, minted, proposals, human, payload, session, records, synced,
           request, faults>>

ProposalStates == {"absent", "pending", "approved", "rejected"}
Steps == {"idle", "begun", "graph", "execute", "loaded", "write", "done"}
NoSession == [step |-> "idle", prop |-> NoProp, answer |-> NoAnswer,
              view |-> "none", mark |-> "none"]
Checkpoint(at, p, a) == [at |-> at, prop |-> p, answer |-> a]

Sessions    == [step : Steps, prop : Props \cup {NoProp}, answer : Answers \cup {NoAnswer},
                view : {"none"} \cup ProposalStates, mark : {"none"} \cup ProposalStates]
Checkpoints == [at : {"none", "running", "interrupt", "decided", "end"},
                prop : Props \cup {NoProp}, answer : Answers \cup {NoAnswer}]

TypeOK ==
    /\ Queue!QueueTypeOK
    /\ cp \in Checkpoints
    /\ minted \in SUBSET Props
    /\ proposals \in [Props -> ProposalStates]
    /\ human \in [Props -> Answers \cup {NoAnswer}]
    /\ payload \in [Props -> Answers \cup {NoAnswer}]
    /\ session \in [Workers -> Sessions]
    /\ records \in [Props -> Answers \cup {NoAnswer}]
    /\ synced \in [Props -> BOOLEAN]
    /\ request \in [Callers -> [prop : Props, answer : Answers] \cup {NoRequest}]
    /\ faults \in 0..MaxFaults
    /\ \A w \in Workers : session[w].step = "idle" <=> run[w] = NoItem

Init ==
    /\ Queue!Init
    /\ cp = Checkpoint("none", NoProp, NoAnswer)
    /\ minted = {}
    /\ proposals = [p \in Props |-> "absent"]
    /\ human = [p \in Props |-> NoAnswer]
    /\ payload = [p \in Props |-> NoAnswer]
    /\ session = [w \in Workers |-> NoSession]
    /\ records = [p \in Props |-> NoAnswer]
    /\ synced = [p \in Props |-> FALSE]
    /\ request = [c \in Callers |-> NoRequest]
    /\ faults = 0

-----------------------------------------------------------------------------
(* The confirmed task enqueues its graph_dispatch row.                     *)
ConfirmTask ==
    /\ Queue!Enqueue(DispatchRow)
    /\ UNCHANGED <<cp, minted, proposals, human, payload, session, records, synced, request, faults>>

(* submit_decision and record_action_and_enqueue_resume, the reads: the    *)
(* proposal exists and is pending.                                         *)
ReadProposal(c, p, a) ==
    /\ request[c] = NoRequest
    /\ proposals[p] = "pending"
    /\ request' = [request EXCEPT ![c] = [prop |-> p, answer |-> a]]
    /\ UNCHANGED <<queue, cp, minted, proposals, human, payload, session, records, synced, faults>>

(* A decision on the proposal is recorded, by whichever channel.           *)
Decided(p) == human[p] # NoAnswer

(* Variant: without the unique keys a later decision replaces the first.   *)
CommitDecisionUpsert(c) ==
    /\ request[c] # NoRequest
    /\ human' = [human EXCEPT ![request[c].prop] = request[c].answer]
    /\ IF row[ResumeRow(request[c].prop)] = "absent"
       THEN Queue!Enqueue(ResumeRow(request[c].prop)) ELSE UNCHANGED queue
    /\ request' = [request EXCEPT ![c] = NoRequest]
    /\ UNCHANGED <<cp, minted, proposals, payload, session, records, synced, faults>>

(* Both channels, the inserts: HumanApproval and the resume row commit     *)
(* together.                                                               *)
CommitDecision(c) ==
    /\ request[c] # NoRequest
    /\ ~ Decided(request[c].prop)
    /\ human' = [human EXCEPT ![request[c].prop] = request[c].answer]
    /\ Queue!Enqueue(ResumeRow(request[c].prop))
    /\ request' = [request EXCEPT ![c] = NoRequest]
    /\ UNCHANGED <<cp, minted, proposals, payload, session, records, synced, faults>>

(* A decision is there already, found by the API's own lookup or by the    *)
(* unique keys of human_approvals and feishu_outbox: answered as a         *)
(* duplicate or a conflict, nothing is written.                            *)
RefuseDecision(c) ==
    /\ request[c] # NoRequest
    /\ Decided(request[c].prop)
    /\ request' = [request EXCEPT ![c] = NoRequest]
    /\ UNCHANGED <<queue, cp, minted, proposals, human, payload, session, records, synced, faults>>

EndDecision(c) == CommitDecision(c) \/ RefuseDecision(c)

-----------------------------------------------------------------------------
(* dispatch_once has claimed the row and calls its handler.                *)
Begin(w) ==
    /\ \E i \in Items : Queue!Start(w, i)
    /\ session' = [session EXCEPT ![w].step = "begun"]
    /\ UNCHANGED <<cp, minted, proposals, human, payload, records, synced, request, faults>>

(* Variant: an open transaction locks nothing.                             *)
ThreadUnlockedAlways(w) == TRUE

(* The proposal and the thread row written by an open transaction are      *)
(* locked until it ends; there is one thread, so one writer at a time.     *)
ThreadUnlocked(w) == \A v \in Workers \ {w} : session[v].mark = "none"

(* The worker goes on with its handler: only its session and the           *)
(* checkpoint change.                                                      *)
Advance(w, newSession, newCp) ==
    /\ session' = [session EXCEPT ![w] = newSession]
    /\ cp' = newCp
    /\ UNCHANGED <<queue, proposals, human, payload, records, synced, request, faults>>

(* dispatch_graph: new input restarts the thread at START, whatever its    *)
(* checkpoint was.                                                         *)
EnterGraph(w) ==
    /\ session[w].step = "begun"
    /\ run[w] = DispatchRow
    /\ Advance(w, [session[w] EXCEPT !.step = "graph"], Checkpoint("running", NoProp, NoAnswer))
    /\ UNCHANGED minted

(* interrupt_human_approval in a dispatched run: propose_action inserts    *)
(* the proposal unless its key exists (agents mint a fresh artifact id in  *)
(* every run, save_as_case_data does not), then interrupt() checkpoints.   *)
Propose(w, p) ==
    /\ session[w].step = "graph"
    /\ run[w] = DispatchRow
    /\ p \notin minted \/ p = CaseData
    /\ proposals[p] = "absent" => ThreadUnlocked(w)
    /\ minted' = minted \cup {p}
    /\ Advance(w, [session[w] EXCEPT !.step = "done", !.prop = p,
                      !.mark = IF proposals[p] = "absent" THEN "pending" ELSE "none"],
               Checkpoint("interrupt", p, NoAnswer))

(* A run between two nodes checkpoints its own place, also over the        *)
(* interrupt that an overlapping run of the thread has reached.            *)
ReachNode(w) ==
    /\ session[w].step = "graph"
    /\ Advance(w, session[w], Checkpoint("running", NoProp, NoAnswer))
    /\ UNCHANGED minted

(* The run asks for missing information, or is rejected by the router or   *)
(* by ReviewGate: it reaches END and proposes nothing.                     *)
EndWithoutProposal(w) ==
    /\ session[w].step = "graph"
    /\ Advance(w, [session[w] EXCEPT !.step = "done"], Checkpoint("end", NoProp, NoAnswer))
    /\ UNCHANGED minted

(* The approval that a resume row carries: the payload of the card action  *)
(* or of the API call that was recorded with the decision.                 *)
HumanApproval(p) == human[p]

(* Variant: the approval is not checked against the interrupted proposal.  *)
ResumeAnsweredAny(w, p) ==
    /\ run[w] = ResumeRow(p)
    /\ session[w].step = "begun" /\ cp.at = "interrupt"
    /\ Advance(w, [session[w] EXCEPT !.step = "execute", !.prop = cp.prop, !.answer = human[p]],
               Checkpoint("decided", cp.prop, human[p]))
    /\ UNCHANGED minted

(* resume_graph, Command(resume=approval): the interrupted node runs again *)
(* from its start, finds its proposal and checks that the approval is for  *)
(* it.  A run resumed in mid-graph gets there only by save_as_case_data.   *)
ResumeAnswered(w, p) ==
    /\ run[w] = ResumeRow(p)
    /\ \/ session[w].step = "begun" /\ cp.at = "interrupt" /\ cp.prop = p
       \/ session[w].step = "graph" /\ p = CaseData
    /\ Advance(w, [session[w] EXCEPT !.step = "execute", !.prop = p,
                      !.answer = HumanApproval(p)],
               Checkpoint("decided", p, HumanApproval(p)))
    /\ UNCHANGED minted

(* The thread is not at an interrupt: the run continues from its           *)
(* checkpoint and the approval it was given is not looked at (a retry), or *)
(* there is nothing left to run.                                           *)
ResumeElsewhere(w, p) ==
    /\ run[w] = ResumeRow(p)
    /\ session[w].step = "begun"
    /\ \/ /\ cp.at = "decided"
          /\ Advance(w, [session[w] EXCEPT !.step = "execute", !.prop = cp.prop,
                            !.answer = cp.answer], cp)
       \/ cp.at = "running" /\ Advance(w, [session[w] EXCEPT !.step = "graph"], cp)
       \/ cp.at = "end" /\ Advance(w, [session[w] EXCEPT !.step = "done"], cp)
    /\ UNCHANGED minted

(* execute, the read of the proposal; another worker may commit before the *)
(* writes.                                                                 *)
LoadProposal(w) ==
    /\ session[w].step = "execute"
    /\ Advance(w, [session[w] EXCEPT !.step = "loaded", !.view = proposals[session[w].prop]], cp)
    /\ UNCHANGED minted

(* Variants: a rejection is queued like an approval; an edit is dropped.   *)
MarkForAny(view, answer) ==
    IF view = "pending" /\ BitableConfigured THEN "approved" ELSE "none"

MarkForUnedited(view, answer) ==
    IF view # "pending" THEN "none"
    ELSE IF answer = "reject" THEN "rejected"
    ELSE IF answer = "approve" THEN "approved" ELSE "none"

(* What execute writes for a proposal it saw in a given status: nothing    *)
(* for one already handled, and nothing when Bitable is not configured,    *)
(* for ActionExecutionError is caught by the node.                         *)
MarkFor(view, answer) ==
    IF view # "pending" THEN "none"
    ELSE IF answer = "reject" THEN "rejected"
    ELSE IF BitableConfigured THEN "approved" ELSE "none"

(* execute_approved_action: the status update and the bitable_write row go *)
(* into the open transaction, and the graph runs to END.                   *)
Execute(w) ==
    LET mark == MarkFor(session[w].view, session[w].answer)
    IN  /\ session[w].step = "loaded"
        /\ mark # "none" => ThreadUnlocked(w)
        /\ Advance(w, [session[w] EXCEPT !.step = "done", !.mark = mark],
                   Checkpoint("end", session[w].prop, session[w].answer))
        /\ UNCHANGED minted

(* _write_bitable: ensure_action_approved, then batch_create at Feishu     *)
(* under the client_token stored with the proposal, so that a repeated     *)
(* call finds the record of the first.                                     *)
CheckApproved(w, p) ==
    /\ run[w] = BitableRow(p)
    /\ session[w].step = "begun"
    /\ proposals[p] = "approved"
    /\ Advance(w, [session[w] EXCEPT !.step = "write", !.prop = p], cp)
    /\ UNCHANGED minted

BatchCreate(w, p) ==
    /\ run[w] = BitableRow(p)
    /\ session[w].step = "write"
    /\ session' = [session EXCEPT ![w].step = "done"]
    /\ records' = [records EXCEPT ![p] = IF @ = NoAnswer THEN payload[p] ELSE @]
    /\ UNCHANGED <<queue, cp, minted, proposals, human, payload, synced, request, faults>>

(* The handler returned: its transaction and mark_succeeded commit.        *)
Commit(w) ==
    LET s   == session[w]
        new == IF s.mark = "approved" /\ row[BitableRow(s.prop)] = "absent"
               THEN {BitableRow(s.prop)} ELSE {}
    IN  /\ s.step = "done"
        /\ Queue!Settle(w, "succeeded", new)
        /\ proposals' = [p \in Props |-> IF s.mark # "none" /\ p = s.prop THEN s.mark ELSE proposals[p]]
        /\ payload' = [p \in Props |-> IF BitableRow(p) \in new THEN s.answer ELSE payload[p]]
        /\ synced' = [p \in Props |-> synced[p] \/ run[w] = BitableRow(p)]
        /\ session' = [session EXCEPT ![w] = NoSession]
        /\ UNCHANGED <<cp, minted, human, records, request, faults>>

-----------------------------------------------------------------------------
(* The handler raises however often it is tried: the thread waits at the   *)
(* interrupt of another proposal, or a run resumed in mid-graph reaches    *)
(* one, or the action is not approved.                                     *)
Refused(w) ==
    \E p \in Props :
        \/ /\ run[w] = ResumeRow(p)
           /\ \/ session[w].step = "begun" /\ cp.at = "interrupt" /\ cp.prop # p
              \/ session[w].step = "graph"
        \/ /\ run[w] = BitableRow(p)
           /\ session[w].step = "begun" /\ proposals[p] # "approved"

HandlerRefuses(w) ==
    /\ Refused(w)
    /\ \E outcome \in {"open", "dead_letter"} : Queue!Settle(w, outcome, {})
    /\ session' = [session EXCEPT ![w] = NoSession]
    /\ UNCHANGED <<cp, minted, proposals, human, payload, records, synced, request, faults>>

(* Variant: the session is not rolled back.                                *)
FaultKeepsSession(w) ==
    /\ session[w].step # "idle"
    /\ faults < MaxFaults
    /\ faults' = faults + 1
    /\ Queue!Abandon(w) \/ Queue!Settle(w, "open", {})
    /\ UNCHANGED <<cp, minted, proposals, human, payload, session, records, synced, request>>

(* The worker dies or the handler raises: the transaction is rolled back,  *)
(* the checkpoint and the Bitable record stay.                             *)
Fault(w) ==
    /\ session[w].step # "idle"
    /\ faults < MaxFaults
    /\ faults' = faults + 1
    /\ Queue!Abandon(w) \/ Queue!Settle(w, "open", {})
    /\ session' = [session EXCEPT ![w] = NoSession]
    /\ UNCHANGED <<cp, minted, proposals, human, payload, records, synced, request>>

HandlerStep(w) ==
    \/ Begin(w) \/ EnterGraph(w) \/ ReachNode(w) \/ EndWithoutProposal(w)
    \/ \E p \in Props :
          \/ Propose(w, p) \/ ResumeAnswered(w, p) \/ ResumeElsewhere(w, p)
          \/ CheckApproved(w, p) \/ BatchCreate(w, p)
    \/ LoadProposal(w) \/ Execute(w) \/ Commit(w) \/ HandlerRefuses(w)

Next ==
    \/ ConfirmTask
    \/ \E c \in Callers :
          \/ \E p \in Props, a \in Answers : ReadProposal(c, p, a)
          \/ EndDecision(c)
    \/ \E w \in Workers : HandlerStep(w) \/ Fault(w)

Spec == Init /\ [][Next]_vars

(* A request ends and a worker goes on; nobody is obliged to decide.       *)
FairSpec ==
    /\ Spec
    /\ \A c \in Callers : WF_vars(EndDecision(c))
    /\ \A w \in Workers : WF_vars(HandlerStep(w))

-----------------------------------------------------------------------------
(* No Bitable record without a human decision to write it, and the record  *)
(* holds what was decided: an approval as proposed, an edit as edited.     *)
WrittenAsDecided ==
    \A p \in Props :
        records[p] # NoAnswer => human[p] \in Approving /\ records[p] = human[p]

(* The status a proposal ends in is the human's decision, whichever        *)
(* checkpoint, retry or stale worker put it there.                         *)
DecisionHonoured ==
    \A p \in Props :
        /\ proposals[p] = "approved" => human[p] \in Approving
        /\ proposals[p] = "rejected" => human[p] = "reject"

(* Approving and queueing the write are one step: a bitable_write row      *)
(* exists for the approved proposals and for no other, so                  *)
(* ensure_action_approved never turns one away.                            *)
ApprovedIsQueued ==
    \A p \in Props : proposals[p] = "approved" <=> row[BitableRow(p)] # "absent"

(* A decision and its outcome are never changed: the first request wins,   *)
(* and a second execution leaves the outcome as it is.                     *)
DecisionIsFinal ==
    [][\A p \in Props :
          /\ human[p] # NoAnswer => human'[p] = human[p]
          /\ proposals[p] \in {"approved", "rejected"} => proposals'[p] = proposals[p]
          /\ records[p] # NoAnswer => records'[p] = records[p]]_vars

(* What a human decided happens: an approved action is written and         *)
(* recorded as synced, a rejected one is closed.                           *)
DecisionTakesEffect ==
    \A p \in Props :
        /\ human[p] \in Approving ~> synced[p]
        /\ human[p] = "reject" ~> proposals[p] = "rejected"

=============================================================================
