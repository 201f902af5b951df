-------------------------- MODULE WarRoomGraphProofs --------------------------
(***************************************************************************)
(* Proofs about the dispatched graph, for any inputs, drafts, workers,     *)
(* sizes, budget and number of faults.                                     *)
(***************************************************************************)
EXTENDS WarRoomGraph, TLAPS

(* A proposal that may be put before a human: reviewed as it is, passed    *)
(* only if sound, and too short only if it needs a human anyway.           *)
Good(p) ==
    /\ p \in Proposals
    /\ p.review.id = p.draft.id /\ p.review.version = p.draft.version
    /\ p.review.status # "needs_fix"
    /\ p.review.status = "pass" => p.draft.evidence = "agent" /\ p.draft.actionable /\ ~p.draft.flagged
    /\ p.draft.actionable \/ ForHuman(p.review.findings) # {}

(* The draft under review was written in this transaction, and the repair  *)
(* counter tells whether it has been repaired.                             *)
Drafted(ch, rows) ==
    /\ ch.draft \in DraftSet
    /\ ch.draft.id \in rows.drafts
    /\ ch.draft.evidence # "repair"
    /\ ch.attempts = 0 => ch.draft.version = 1
    /\ ch.attempts # 0 => ch.draft.actionable

(* What a run at node n, with its channels, memory and open transaction,   *)
(* relies on.                                                              *)
RunOK(n, ch, a, rows) ==
    /\ a.calls > 0 => n \in {"council", "business"} /\ a.left > 0
    /\ "running" \in rows.runs => a.calls > 0
    /\ "failed" \notin rows.runs
    /\ n \in {"review", "repair", "interrupt"} => Drafted(ch, rows)
    /\ n = "repair" => ch.attempts = 0 /\ ch.draft.evidence # "none"
    /\ n = "interrupt" => Good([draft |-> ch.draft, review |-> ch.review])
    /\ \A p \in rows.proposals : Good(p) /\ p.draft.id \in rows.drafts

DbOK(rows) ==
    /\ rows.runs \subseteq {"succeeded"}
    /\ \A p \in rows.proposals : Good(p) /\ p.draft.id \in rows.drafts

(* The types in the form that a step assigns them.                         *)
Agents == [left : 0..7, calls : 0..3, tokens : 0..(Budget + 1)]
SharedOK ==
    /\ request \in Inputs
    /\ row \in {"absent", "open", "succeeded"}
    /\ cp \in [at : {"none", "running", "interrupt", "end"}, channels : Channels]
    /\ db \in Rows /\ DbOK(db)
    /\ ids \in [Drafts -> {"unused", "drafted", "proposed"}]
    /\ faults \in 0..MaxFaults
RunsOK ==
    /\ node \in [Workers -> Nodes]
    /\ channels \in [Workers -> Channels]
    /\ agents \in [Workers -> Agents]
    /\ session \in [Workers -> Rows]
    /\ \A w \in Workers : RunOK(node[w], channels[w], agents[w], session[w])

GraphInv == SharedOK /\ RunsOK

-----------------------------------------------------------------------------
(* The parts of the state that a step assigns are of their types.          *)
LEMMA CappedOK == ASSUME NEW n \in Nat PROVE Capped(n) \in 0..(Budget + 1)
BY GraphAssumption DEF Capped

LEMMA FreshOK == Fresh \in Channels /\ NoAgent \in Agents /\ NoRows \in Rows
                 /\ NoRows.runs = {} /\ NoRows.proposals = {} /\ NoRows.drafts = {}
BY GraphAssumption DEF Fresh, Channels, Modes, NoAgent, Agents, NoRows, Rows

LEMMA ModeOK ==
    ASSUME NEW r \in Inputs
    PROVE  /\ CouncilMode(r.text) \in Modes /\ CouncilSize[CouncilMode(r.text)] \in 1..7
           /\ MaxCalls[r.provider] \in 1..3
<1>1. r.provider = "openai" \/ r.provider = "deepseek"
    BY GraphAssumption DEF Providers
<1>2. MaxCalls[r.provider] \in 1..3
    BY <1>1 DEF MaxCalls
<1>3. CouncilMode(r.text) \in Modes
    BY DEF CouncilMode, Modes
<1>4. \A m \in Modes : CouncilSize[m] \in 1..7
    BY DEF Modes, CouncilSize
<1> QED BY <1>2, <1>3, <1>4

LEMMA WithModeOK ==
    ASSUME NEW ch \in Channels, NEW m \in Modes PROVE [ch EXCEPT !.mode = m] \in Channels
BY DEF Channels

LEMMA AfterCouncilOK ==
    ASSUME NEW ch \in Channels, NEW n \in Nat PROVE AfterCouncil(ch, n) \in Channels
<1>1. Capped(ch.tokens + n) \in 0..(Budget + 1)
    BY CappedOK, GraphAssumption DEF Channels
<1>2. (ch.mode = "triage") \in BOOLEAN
    OBVIOUS
<1> QED BY <1>1, <1>2 DEF AfterCouncil, Channels

LEMMA TokensOK ==
    ASSUME NEW ch \in Channels, NEW d \in DraftSet
    PROVE  Capped(ch.tokens + d.size) \in 0..(Budget + 1)
<1>1. ch.tokens \in 0..(Budget + 1) /\ Budget \in Nat
    BY GraphAssumption DEF Channels
<1>2. d.size \in Sizes
    BY DEF DraftSet
<1>3. d.size \in Nat
    BY <1>2, GraphAssumption
<1> QED BY <1>1, <1>3, CappedOK

(* The draft that reaches the review is new and not repaired.              *)
LEMMA AfterBusinessOK ==
    ASSUME NEW ch \in Channels, NEW d \in DraftSet
    PROVE  /\ AfterBusiness(ch, d) \in Channels
           /\ AfterBusiness(ch, d).draft = d /\ AfterBusiness(ch, d).attempts = 0
<1> DEFINE n == Capped(ch.tokens + d.size)
           r == NoReview
           k == 0
           new == [ch EXCEPT !.draft = d, !.tokens = n, !.review = r, !.attempts = k]
<1>1. n \in 0..(Budget + 1) /\ r \in Reviews \cup {NoReview} /\ k \in 0..1
    BY TokensOK
<1>2. AfterBusiness(ch, d) = new /\ k = 0
    BY DEF AfterBusiness
<1> HIDE DEF n, r, k
<1>3. new \in Channels
    BY <1>1 DEF Channels
<1>4. new.draft = d /\ new.attempts = k
    BY DEF Channels
<1> HIDE DEF new
<1> QED BY <1>2, <1>3, <1>4

LEMMA NewDraftOK ==
    ASSUME NEW id \in Drafts, NEW x \in Writings, NEW size \in Sizes
    PROVE  /\ NewDraft(id, x, size) \in DraftSet
           /\ NewDraft(id, x, size).id = id /\ NewDraft(id, x, size).version = 1
           /\ NewDraft(id, x, size).evidence # "repair"
<1>1. x.actionable \in BOOLEAN /\ x.flagged \in BOOLEAN
    BY GraphAssumption
<1>2. (IF x.sourced THEN "agent" ELSE "none") \in {"agent", "none"}
    OBVIOUS
<1> QED BY <1>1, <1>2 DEF NewDraft, DraftSet, Evidence

LEMMA RepairedOK ==
    ASSUME NEW d \in DraftSet, d.version = 1, d.evidence # "none"
    PROVE  /\ Repaired(d) \in DraftSet /\ Repaired(d).id = d.id /\ Repaired(d).actionable = TRUE
           /\ Repaired(d).evidence = d.evidence
<1> DEFINE n == d.version + 1
           b == TRUE
           e == d.evidence
<1>1. n \in {1, 2} /\ e \in Evidence /\ b \in BOOLEAN /\ b = TRUE
    BY DEF DraftSet
<1>2. Repaired(d) = [d EXCEPT !.actionable = b, !.version = n, !.evidence = e]
    BY DEF Repaired
<1> HIDE DEF n, b
<1> QED BY <1>1, <1>2 DEF DraftSet

LEMMA AfterRepairOK ==
    ASSUME NEW ch \in Channels, ch.draft \in DraftSet, ch.attempts = 0,
           ch.draft.version = 1, ch.draft.evidence # "none"
    PROVE  /\ AfterRepair(ch) \in Channels
           /\ AfterRepair(ch).draft = Repaired(ch.draft) /\ AfterRepair(ch).attempts = 1
<1> DEFINE d == Repaired(ch.draft)
           n == Capped(ch.tokens + ch.draft.size)
           k == ch.attempts + 1
           new == [ch EXCEPT !.draft = d, !.tokens = n, !.attempts = k]
<1>1. d \in DraftSet
    BY RepairedOK
<1>2. n \in 0..(Budget + 1)
    BY TokensOK
<1>3. k = 1 /\ k \in 0..1
    OBVIOUS
<1>4. AfterRepair(ch) = new
    BY DEF AfterRepair
<1> HIDE DEF d, n, k
<1>5. new \in Channels
    BY <1>1, <1>2, <1>3 DEF Channels
<1>6. new.draft = d /\ new.attempts = k
    BY DEF Channels
<1> HIDE DEF new
<1> QED BY <1>3, <1>4, <1>5, <1>6 DEF d

LEMMA WithReviewOK ==
    ASSUME NEW ch \in Channels, NEW r \in Reviews
    PROVE  LET new == [ch EXCEPT !.review = r] IN
           /\ new \in Channels /\ new.draft = ch.draft /\ new.attempts = ch.attempts /\ new.review = r
BY DEF Channels

-----------------------------------------------------------------------------
(* ReviewGate.  A draft goes on to the human only with a review that makes *)
(* a good proposal, and to the repair only if it has evidence.             *)
LEMMA ReviewFacts ==
    ASSUME NEW d \in DraftSet, NEW tokens, NEW attempts \in 0..1, d.evidence # "repair",
           attempts # 0 => d.actionable
    PROVE  LET f == Findings(d, tokens)
               r == [id |-> d.id, version |-> d.version, status |-> ReviewStatus(f, attempts), findings |-> f]
           IN  /\ r \in Reviews
               /\ RouteFromReview(r, attempts) \in {"repair", "interrupt"}
               /\ RouteFromReview(r, attempts) = "repair" => attempts = 0 /\ d.evidence # "none"
               /\ RouteFromReview(r, attempts) = "interrupt" => Good([draft |-> d, review |-> r])
<1> DEFINE f == Findings(d, tokens)
           st == ReviewStatus(f, attempts)
           r == [id |-> d.id, version |-> d.version, status |-> st, findings |-> f]
<1>1. /\ "evidence" \in f <=> d.evidence = "none"
      /\ "practicality" \in f <=> ~d.actionable
      /\ "safety" \in f <=> d.flagged
      /\ f \subseteq Finders
    BY DEF Findings, Finders
<1> HIDE DEF f
<1>2. /\ st \in {"pass", "needs_fix", "needs_human"}
      /\ st = "pass" => f = {}
      /\ st = "needs_fix" => attempts = 0 /\ ForHuman(f) = {}
      /\ st = "needs_human" => ForHuman(f) # {} \/ attempts >= 1
    BY DEF ReviewStatus, ForHuman
<1> HIDE DEF st
<1>3. d.id \in Drafts /\ d.version \in {1, 2} /\ d.evidence \in Evidence
    BY DEF DraftSet
<1>4. r \in Reviews
    BY <1>1, <1>2, <1>3 DEF Reviews
<1>5. /\ RouteFromReview(r, attempts) \in {"repair", "interrupt"}
      /\ RouteFromReview(r, attempts) = "repair" => st = "needs_fix"
      /\ RouteFromReview(r, attempts) = "interrupt" => st # "needs_fix"
    BY <1>2 DEF RouteFromReview
<1>6. RouteFromReview(r, attempts) = "repair" => attempts = 0 /\ d.evidence # "none"
    BY <1>1, <1>2, <1>5 DEF ForHuman
<1>7. ASSUME st # "needs_fix" PROVE Good([draft |-> d, review |-> r])
  <2>1. [draft |-> d, review |-> r] \in Proposals
      BY <1>4 DEF Proposals
  <2>2. st = "pass" => d.evidence = "agent" /\ d.actionable /\ ~d.flagged
      BY <1>1, <1>2, <1>3 DEF Evidence
  <2>3. d.actionable \/ ForHuman(f) # {}
      BY <1>1, <1>2, <1>7
  <2> QED BY <1>7, <2>1, <2>2, <2>3 DEF Good
<1> QED BY <1>4, <1>5, <1>6, <1>7 DEF f, st

-----------------------------------------------------------------------------
(* The invariant.                                                          *)
LEMMA InitGraphInv == Init => GraphInv
<1> SUFFICES ASSUME Init PROVE GraphInv
    OBVIOUS
<1>1. SharedOK
  <2>1. cp \in [at : {"none", "running", "interrupt", "end"}, channels : Channels]
      BY FreshOK DEF Init
  <2>2. db \in Rows /\ DbOK(db)
      BY FreshOK DEF Init, DbOK
  <2> QED BY <2>1, <2>2, GraphAssumption DEF Init, SharedOK
<1>2. RunOK("idle", Fresh, NoAgent, NoRows)
    BY FreshOK DEF RunOK, NoAgent
<1>3. RunsOK
    BY <1>2, FreshOK DEF Init, RunsOK, Nodes
<1> QED BY <1>1, <1>3 DEF GraphInv

(* A step of one run.                                                      *)
LEMMA RunStep ==
    ASSUME GraphInv, SharedOK', NEW w \in Workers, NEW n \in Nodes, NEW ch \in Channels,
           NEW a \in Agents, NEW rows \in Rows, RunOK(n, ch, a, rows),
           node' = [node EXCEPT ![w] = n], channels' = [channels EXCEPT ![w] = ch],
           agents' = [agents EXCEPT ![w] = a], session' = [session EXCEPT ![w] = rows]
    PROVE  GraphInv'
<1>1. /\ node' \in [Workers -> Nodes] /\ channels' \in [Workers -> Channels]
      /\ agents' \in [Workers -> Agents] /\ session' \in [Workers -> Rows]
    BY DEF GraphInv, RunsOK
<1>2. ASSUME NEW v \in Workers PROVE RunOK(node'[v], channels'[v], agents'[v], session'[v])
  <2>1. CASE v = w
      BY <2>1 DEF GraphInv, RunsOK
  <2>2. CASE v # w
    <3>1. node'[v] = node[v] /\ channels'[v] = channels[v] /\ agents'[v] = agents[v]
          /\ session'[v] = session[v]
        BY <2>2 DEF GraphInv, RunsOK
    <3> QED BY <3>1 DEF GraphInv, RunsOK
  <2> QED BY <2>1, <2>2
<1> QED BY <1>1, <1>2 DEF GraphInv, RunsOK

(* A node that ends leaves a checkpoint of its type.                       *)
LEMMA LeaveShared ==
    ASSUME GraphInv, NEW w \in Workers, NEW n \in Nodes, NEW ch \in Channels, Leave(w, n, ch),
           ids' \in [Drafts -> {"unused", "drafted", "proposed"}]
    PROVE  SharedOK'
<1> DEFINE at == CASE n = "waiting" -> "interrupt" [] n = "done" -> "end" [] OTHER -> "running"
<1>1. at \in {"none", "running", "interrupt", "end"}
    OBVIOUS
<1>2. cp' = [at |-> at, channels |-> ch]
    BY DEF Leave
<1> HIDE DEF at
<1>3. cp' \in [at : {"none", "running", "interrupt", "end"}, channels : Channels]
    BY <1>1, <1>2
<1>4. request' = request /\ row' = row /\ db' = db /\ faults' = faults
    BY DEF Leave
<1> QED BY <1>3, <1>4 DEF GraphInv, SharedOK

(* What the invariant says of one run.                                     *)
LEMMA RunFacts ==
    ASSUME GraphInv, NEW w \in Workers
    PROVE  /\ node[w] \in Nodes /\ channels[w] \in Channels /\ agents[w] \in Agents
           /\ session[w] \in Rows /\ RunOK(node[w], channels[w], agents[w], session[w])
           /\ agents = [agents EXCEPT ![w] = agents[w]]
           /\ session = [session EXCEPT ![w] = session[w]]
           /\ node = [node EXCEPT ![w] = node[w]]
           /\ channels = [channels EXCEPT ![w] = channels[w]]
           /\ cp.channels \in Channels
BY DEF GraphInv, RunsOK, SharedOK

(* A node that ends and leaves the memory and the rows alone.              *)
LEMMA LeaveKeeps ==
    ASSUME GraphInv, NEW w \in Workers, NEW n \in Nodes, NEW ch \in Channels, Leave(w, n, ch),
           UNCHANGED <<agents, session, ids>>, RunOK(n, ch, agents[w], session[w])
    PROVE  GraphInv'
<1> DEFINE a == agents[w]
           rows == session[w]
<1>1. SharedOK'
    BY LeaveShared DEF GraphInv, SharedOK
<1>2. /\ agents' = [agents EXCEPT ![w] = a] /\ session' = [session EXCEPT ![w] = rows]
      /\ a \in Agents /\ rows \in Rows /\ RunOK(n, ch, a, rows)
    BY RunFacts
<1>3. node' = [node EXCEPT ![w] = n] /\ channels' = [channels EXCEPT ![w] = ch]
    BY DEF Leave
<1> HIDE DEF a, rows
<1> QED BY <1>1, <1>2, <1>3, RunStep, Zenon

-----------------------------------------------------------------------------
(* The actions.  Nodes before the draft rely on no more than the rows.     *)
LEMMA EarlyOK ==
    ASSUME NEW n, NEW ch, NEW a, NEW rows, NEW m, NEW ch2, NEW b, RunOK(n, ch, a, rows),
           m \notin {"review", "repair", "interrupt"}, a.calls = 0
    PROVE  /\ RunOK(m, ch2, a, rows)
           /\ b.calls = 0 => RunOK(m, ch2, b, rows)
BY DEF RunOK

LEMMA ReceiveInputKeeps ==
    ASSUME GraphInv, NEW w \in Workers, ReceiveInput(w) PROVE GraphInv'
<1> DEFINE ch == cp.channels
<1>1. ch \in Channels /\ agents[w] \in Agents /\ RunOK("start", channels[w], agents[w], session[w])
    BY RunFacts DEF ReceiveInput
<1>2. agents[w].calls = 0
    BY <1>1 DEF RunOK, Agents
<1>3. RunOK("plan", ch, agents[w], session[w])
    BY <1>1, <1>2, EarlyOK
<1>4. Leave(w, "plan", ch) /\ UNCHANGED <<agents, session, ids>>
    BY DEF ReceiveInput
<1> HIDE DEF ch
<1> QED BY <1>1, <1>3, <1>4, LeaveKeeps DEF Nodes

LEMMA CreatePlanKeeps ==
    ASSUME GraphInv, NEW w \in Workers, CreatePlan(w) PROVE GraphInv'
<1> DEFINE mode == CouncilMode(request.text)
           ch == [channels[w] EXCEPT !.mode = mode]
           a  == [NoAgent EXCEPT !.left = CouncilSize[mode]]
<1>1. mode \in Modes /\ CouncilSize[mode] \in 0..7
    BY ModeOK DEF GraphInv, SharedOK
<1>2. Leave(w, "council", ch) /\ agents' = [agents EXCEPT ![w] = a] /\ UNCHANGED <<session, ids>>
    BY DEF CreatePlan
<1>3. /\ channels[w] \in Channels /\ agents[w] \in Agents /\ session[w] \in Rows
      /\ RunOK("plan", channels[w], agents[w], session[w])
      /\ session' = [session EXCEPT ![w] = session[w]]
    BY <1>2, RunFacts DEF CreatePlan
<1> HIDE DEF mode
<1>4. ch \in Channels
    BY <1>1, <1>3, WithModeOK
<1>5. a \in Agents /\ a.calls = 0
    BY <1>1, FreshOK DEF NoAgent, Agents
<1> HIDE DEF ch, a
<1>6. RunOK("council", ch, a, session[w])
  <2>1. agents[w].calls = 0
      BY <1>3 DEF RunOK, Agents
  <2> QED BY <2>1, <1>3, <1>5, EarlyOK
<1>7. SharedOK'
    BY <1>2, <1>4, LeaveShared DEF GraphInv, SharedOK, Nodes
<1>8. node' = [node EXCEPT ![w] = "council"] /\ channels' = [channels EXCEPT ![w] = ch]
    BY <1>2 DEF Leave
<1> QED BY <1>2, <1>3, <1>4, <1>5, <1>6, <1>7, <1>8, RunStep DEF Nodes

LEMMA SynthesizeDecisionKeeps ==
    ASSUME GraphInv, NEW w \in Workers, NEW size \in Sizes, SynthesizeDecision(w, size)
    PROVE  GraphInv'
<1> DEFINE ch == AfterCouncil(channels[w], agents[w].tokens + size)
<1>1. /\ channels[w] \in Channels /\ agents[w] \in Agents /\ session[w] \in Rows
      /\ RunOK("council", channels[w], agents[w], session[w])
    BY RunFacts DEF SynthesizeDecision
<1>2. Leave(w, "dispatch", ch) /\ agents' = [agents EXCEPT ![w] = NoAgent]
      /\ UNCHANGED <<session, ids>>
    BY DEF SynthesizeDecision
<1>3. ch \in Channels
  <2>1. agents[w].tokens + size \in Nat
      BY <1>1, GraphAssumption DEF Agents
  <2> QED BY <1>1, <2>1, AfterCouncilOK
<1> HIDE DEF ch
<1>4. RunOK("dispatch", ch, NoAgent, session[w])
  <2>1. agents[w].calls = 0
      BY <1>1 DEF RunOK, Agents, SynthesizeDecision
  <2>2. NoAgent.calls = 0
      BY DEF NoAgent
  <2> QED BY <1>1, <2>1, <2>2, EarlyOK
<1>5. SharedOK'
    BY <1>2, <1>3, LeaveShared DEF GraphInv, SharedOK, Nodes
<1>6. node' = [node EXCEPT ![w] = "dispatch"] /\ channels' = [channels EXCEPT ![w] = ch]
      /\ session' = [session EXCEPT ![w] = session[w]]
    BY <1>2, RunFacts DEF Leave
<1> QED BY <1>1, <1>2, <1>3, <1>4, <1>5, <1>6, FreshOK, RunStep DEF Nodes

LEMMA DispatchFromCouncilKeeps ==
    ASSUME GraphInv, NEW w \in Workers, DispatchFromCouncil(w) PROVE GraphInv'
<1> DEFINE n == IF channels[w].asks THEN "ask" ELSE "business"
           k == IF channels[w].asks THEN 0 ELSE 1
           a == [agents[w] EXCEPT !.left = k]
<1>1. /\ channels[w] \in Channels /\ agents[w] \in Agents /\ session[w] \in Rows
      /\ RunOK("dispatch", channels[w], agents[w], session[w])
    BY RunFacts DEF DispatchFromCouncil
<1>2. agents[w].calls = 0
    BY <1>1 DEF RunOK, Agents
<1>3. Leave(w, n, channels[w]) /\ agents' = [agents EXCEPT ![w] = a] /\ UNCHANGED <<session, ids>>
    BY DEF DispatchFromCouncil
<1>4. n \in {"ask", "business"} /\ n \in Nodes /\ k \in 0..7
    BY DEF Nodes
<1> HIDE DEF n, k
<1>5. a \in Agents /\ a.calls = 0
    BY <1>1, <1>2, <1>4 DEF Agents
<1> HIDE DEF a
<1>6. RunOK(n, channels[w], a, session[w])
    BY <1>1, <1>2, <1>4, <1>5, EarlyOK
<1>7. SharedOK'
    BY <1>1, <1>3, <1>4, LeaveShared DEF GraphInv, SharedOK
<1>8. node' = [node EXCEPT ![w] = n] /\ channels' = [channels EXCEPT ![w] = channels[w]]
      /\ session' = [session EXCEPT ![w] = session[w]]
    BY <1>3, RunFacts DEF Leave
<1> QED BY <1>1, <1>3, <1>4, <1>5, <1>6, <1>7, <1>8, RunStep

(* AskUser and RecordRun.                                                  *)
LEMMA AnswerKeeps ==
    ASSUME GraphInv, NEW w \in Workers, AskUser(w) \/ RecordRun(w) PROVE GraphInv'
<1>1. PICK n \in {"record", "done"} :
         /\ node[w] \in {"ask", "record"}
         /\ Leave(w, n, channels[w]) /\ UNCHANGED <<agents, session, ids>>
    BY DEF AskUser, RecordRun
<1>2. /\ channels[w] \in Channels /\ agents[w] \in Agents
      /\ RunOK(node[w], channels[w], agents[w], session[w])
    BY RunFacts
<1>3. agents[w].calls = 0
    BY <1>1, <1>2 DEF RunOK, Agents
<1>4. RunOK(n, channels[w], agents[w], session[w])
    BY <1>1, <1>2, <1>3, EarlyOK
<1> QED BY <1>1, <1>2, <1>4, LeaveKeeps DEF Nodes

(* The steps of an agent run: in memory and in the open transaction.       *)
LEMMA MemoryKeeps ==
    ASSUME GraphInv, NEW w \in Workers, NEW a \in Agents, NEW rows \in Rows,
           InMemory(w, a, rows), RunOK(node[w], channels[w], a, rows),
           UNCHANGED <<request, row, node, channels, cp, db, ids, faults>>
    PROVE  GraphInv'
<1> DEFINE n == node[w]
           ch == channels[w]
<1>1. SharedOK'
    BY DEF GraphInv, SharedOK
<1>2. /\ node' = [node EXCEPT ![w] = n] /\ channels' = [channels EXCEPT ![w] = ch]
      /\ n \in Nodes /\ ch \in Channels /\ RunOK(n, ch, a, rows)
    BY RunFacts
<1>3. agents' = [agents EXCEPT ![w] = a] /\ session' = [session EXCEPT ![w] = rows]
    BY DEF InMemory
<1> HIDE DEF n, ch
<1> QED BY <1>1, <1>2, <1>3, RunStep, Zenon

(* Other rows of runs, the same drafts and proposals.                      *)
LEMMA WithRunsOK ==
    ASSUME NEW rows \in Rows, NEW runs \in SUBSET {"running", "succeeded", "failed"}
    PROVE  LET new == [rows EXCEPT !.runs = runs] IN
           /\ new \in Rows /\ new.runs = runs /\ new.drafts = rows.drafts
           /\ new.proposals = rows.proposals
BY DEF Rows

LEMMA StartAgentKeeps ==
    ASSUME GraphInv, NEW w \in Workers, StartAgent(w) PROVE GraphInv'
<1> DEFINE a == [agents[w] EXCEPT !.calls = 1]
           runs == session[w].runs \cup {"running"}
           rows == [session[w] EXCEPT !.runs = runs]
<1>1. /\ agents[w] \in Agents /\ session[w] \in Rows
      /\ RunOK(node[w], channels[w], agents[w], session[w])
    BY RunFacts
<1>2. a \in Agents /\ a.calls = 1 /\ a.left = agents[w].left
    BY <1>1 DEF Agents
<1>3. runs \in SUBSET {"running", "succeeded", "failed"} /\ ("failed" \notin session[w].runs => "failed" \notin runs)
    BY <1>1 DEF Rows
<1>4. InMemory(w, a, rows) /\ UNCHANGED <<request, row, node, channels, cp, db, ids, faults>>
    BY DEF StartAgent
<1> HIDE DEF a, runs
<1>5. /\ rows \in Rows /\ rows.runs = runs /\ rows.drafts = session[w].drafts
      /\ rows.proposals = session[w].proposals
    BY <1>1, <1>3, WithRunsOK
<1> HIDE DEF rows
<1>6. RunOK(node[w], channels[w], a, rows)
    BY <1>1, <1>2, <1>3, <1>5 DEF RunOK, Drafted, StartAgent
<1> QED BY <1>2, <1>4, <1>5, <1>6, MemoryKeeps

LEMMA CallAgainKeeps ==
    ASSUME GraphInv, NEW w \in Workers, CallAgain(w) PROVE GraphInv'
<1> DEFINE k == agents[w].calls + 1
           a == [agents[w] EXCEPT !.calls = k]
<1>1. /\ agents[w] \in Agents /\ session[w] \in Rows
      /\ RunOK(node[w], channels[w], agents[w], session[w])
    BY RunFacts
<1>2. MaxCalls[request.provider] \in 1..3
    BY ModeOK DEF GraphInv, SharedOK
<1>3. k \in 2..3 /\ agents[w].calls > 0
    BY <1>1, <1>2 DEF CallAgain
<1>4. InMemory(w, a, session[w]) /\ UNCHANGED <<request, row, node, channels, cp, db, ids, faults>>
    BY DEF CallAgain
<1> HIDE DEF k
<1>5. a \in Agents /\ a.calls = k /\ a.left = agents[w].left
    BY <1>1, <1>3 DEF Agents
<1> HIDE DEF a
<1>6. RunOK(node[w], channels[w], a, session[w])
    BY <1>1, <1>3, <1>5 DEF RunOK
<1> QED BY <1>1, <1>4, <1>5, <1>6, MemoryKeeps

LEMMA SucceededOK ==
    ASSUME NEW w \in Workers, session[w] \in Rows, "failed" \notin session[w].runs
    PROVE  /\ Succeeded(w) \in Rows /\ Succeeded(w).runs \subseteq {"succeeded"}
           /\ Succeeded(w).drafts = session[w].drafts
           /\ Succeeded(w).proposals = session[w].proposals
<1> DEFINE runs == (session[w].runs \ {"running"}) \cup {"succeeded"}
<1>1. runs \subseteq {"succeeded"} /\ runs \in SUBSET {"running", "succeeded", "failed"}
    BY DEF Rows
<1>2. Succeeded(w) = [session[w] EXCEPT !.runs = runs]
    BY DEF Succeeded
<1> HIDE DEF runs
<1> QED BY <1>1, <1>2, WithRunsOK

LEMMA CollectOpinionKeeps ==
    ASSUME GraphInv, NEW w \in Workers, NEW size \in Sizes, CollectOpinion(w, size) PROVE GraphInv'
<1> DEFINE l == agents[w].left - 1
           t == Capped(agents[w].tokens + size)
           a == [left |-> l, calls |-> 0, tokens |-> t]
           rows == Succeeded(w)
<1>1. /\ agents[w] \in Agents /\ session[w] \in Rows
      /\ RunOK(node[w], channels[w], agents[w], session[w])
    BY RunFacts
<1>2. l \in 0..7
    BY <1>1 DEF CollectOpinion, RunOK, Agents
<1>3. t \in 0..(Budget + 1)
    BY <1>1, CappedOK, GraphAssumption DEF Agents
<1>4. InMemory(w, a, rows) /\ UNCHANGED <<request, row, node, channels, cp, db, ids, faults>>
    BY DEF CollectOpinion
<1> HIDE DEF l, t
<1>5. a \in Agents /\ a.calls = 0
    BY <1>2, <1>3 DEF Agents
<1>6. /\ rows \in Rows /\ rows.runs \subseteq {"succeeded"} /\ rows.drafts = session[w].drafts
      /\ rows.proposals = session[w].proposals
    BY <1>1, SucceededOK DEF RunOK
<1> HIDE DEF a, rows
<1>7. RunOK(node[w], channels[w], a, rows)
    BY <1>1, <1>5, <1>6 DEF RunOK, CollectOpinion
<1> QED BY <1>4, <1>5, <1>6, <1>7, MemoryKeeps

-----------------------------------------------------------------------------
(* The draft, its review, its repair and its proposal.                     *)
LEMMA CreateDraftKeeps ==
    ASSUME GraphInv, NEW w \in Workers, NEW id \in Drafts, NEW x \in Writings, NEW size \in Sizes,
           CreateDraft(w, NewDraft(id, x, size))
    PROVE  GraphInv'
<1> DEFINE d == NewDraft(id, x, size)
           ch == AfterBusiness(channels[w], d)
           rows == WithArtifact(Succeeded(w), d)
<1>1. /\ channels[w] \in Channels /\ session[w] \in Rows
      /\ RunOK("business", channels[w], agents[w], session[w])
    BY RunFacts DEF CreateDraft
<1>2. d \in DraftSet /\ d.id = id /\ d.version = 1 /\ d.evidence # "repair"
    BY NewDraftOK
<1>3. /\ Leave(w, "review", ch) /\ InMemory(w, NoAgent, rows)
      /\ ids' \in [Drafts -> {"unused", "drafted", "proposed"}]
    BY <1>2 DEF CreateDraft, GraphInv, SharedOK
<1> HIDE DEF d
<1>4. ch \in Channels /\ ch.draft = d /\ ch.attempts = 0
    BY <1>1, <1>2, AfterBusinessOK
<1> HIDE DEF ch
<1>5. /\ rows \in Rows /\ rows.runs \subseteq {"succeeded"}
      /\ rows.drafts = session[w].drafts \cup {id} /\ rows.proposals = session[w].proposals
  <2> DEFINE s == Succeeded(w)
  <2>1. /\ s \in Rows /\ s.runs \subseteq {"succeeded"} /\ s.drafts = session[w].drafts
        /\ s.proposals = session[w].proposals
      BY <1>1, SucceededOK DEF RunOK
  <2>2. rows = [s EXCEPT !.drafts = s.drafts \cup {id}]
      BY <1>2 DEF WithArtifact
  <2> HIDE DEF s, rows
  <2> QED BY <2>1, <2>2 DEF Rows
<1> HIDE DEF rows
<1>6. RunOK("review", ch, NoAgent, rows)
  <2>1. NoAgent.calls = 0
      BY DEF NoAgent
  <2>2. Drafted(ch, rows)
      BY <1>2, <1>4, <1>5 DEF Drafted
  <2> QED BY <1>1, <1>5, <2>1, <2>2 DEF RunOK
<1>7. SharedOK'
    BY <1>3, <1>4, LeaveShared DEF Nodes
<1> QED BY <1>3, <1>4, <1>5, <1>6, <1>7, FreshOK, RunStep DEF Leave, InMemory, Nodes

LEMMA ReviewDraftKeeps ==
    ASSUME GraphInv, NEW w \in Workers, ReviewDraft(w) PROVE GraphInv'
<1> DEFINE old == channels[w]
           d == old.draft
           f == Findings(d, old.tokens)
           r == [id |-> d.id, version |-> d.version,
                 status |-> ReviewStatus(f, old.attempts), findings |-> f]
           n == RouteFromReview(r, old.attempts)
           ch == [old EXCEPT !.review = r]
<1>1. /\ old \in Channels /\ agents[w] \in Agents
      /\ RunOK("review", old, agents[w], session[w])
    BY RunFacts DEF ReviewDraft
<1>2. Drafted(old, session[w]) /\ agents[w].calls = 0 /\ old.attempts \in 0..1
    BY <1>1 DEF RunOK, Agents, Channels
<1>3. /\ r \in Reviews /\ n \in {"repair", "interrupt"}
      /\ n = "repair" => old.attempts = 0 /\ d.evidence # "none"
      /\ n = "interrupt" => Good([draft |-> d, review |-> r])
    BY <1>2, ReviewFacts DEF Drafted
<1>4. Leave(w, n, ch) /\ UNCHANGED <<agents, session, ids>>
    BY DEF ReviewDraft
<1> HIDE DEF n, r
<1>5. ch \in Channels /\ ch.draft = d /\ ch.attempts = old.attempts /\ ch.review = r
    BY <1>1, <1>3, WithReviewOK
<1> HIDE DEF ch
<1>6. Drafted(ch, session[w])
    BY <1>2, <1>5 DEF Drafted
<1>7. RunOK(n, ch, agents[w], session[w])
    BY <1>1, <1>2, <1>3, <1>5, <1>6 DEF RunOK
<1> QED BY <1>3, <1>4, <1>5, <1>7, LeaveKeeps DEF Nodes

LEMMA RepairDraftKeeps ==
    ASSUME GraphInv, NEW w \in Workers, RepairDraft(w) PROVE GraphInv'
<1> DEFINE old == channels[w]
           d == Repaired(old.draft)
           ch == AfterRepair(old)
<1>1. /\ old \in Channels /\ agents[w] \in Agents
      /\ RunOK("repair", old, agents[w], session[w])
    BY RunFacts DEF RepairDraft
<1>2. /\ Drafted(old, session[w]) /\ agents[w].calls = 0 /\ old.attempts = 0
      /\ old.draft.evidence # "none" /\ old.draft.version = 1 /\ old.draft \in DraftSet
    BY <1>1 DEF RunOK, Agents, Drafted
<1>3. ch \in Channels /\ ch.draft = d /\ ch.attempts = 1
    BY <1>1, <1>2, AfterRepairOK
<1>4. d \in DraftSet /\ d.id = old.draft.id /\ d.actionable = TRUE /\ d.evidence = old.draft.evidence
    BY <1>2, RepairedOK
<1>5. Leave(w, "review", ch) /\ UNCHANGED <<agents, session, ids>>
    BY DEF RepairDraft
<1> HIDE DEF ch, d
<1>6. Drafted(ch, session[w])
    BY <1>2, <1>3, <1>4 DEF Drafted
<1>7. RunOK("review", ch, agents[w], session[w])
    BY <1>1, <1>2, <1>6 DEF RunOK
<1> QED BY <1>3, <1>5, <1>7, LeaveKeeps DEF Nodes

LEMMA ProposeActionKeeps ==
    ASSUME GraphInv, NEW w \in Workers, ProposeAction(w) PROVE GraphInv'
<1> DEFINE ch == channels[w]
           p == [draft |-> ch.draft, review |-> ch.review]
           ps == session[w].proposals \cup {p}
           rows == [session[w] EXCEPT !.proposals = ps]
<1>1. /\ ch \in Channels /\ agents[w] \in Agents /\ session[w] \in Rows
      /\ RunOK("interrupt", ch, agents[w], session[w])
    BY RunFacts DEF ProposeAction
<1>2. /\ agents[w].calls = 0 /\ Drafted(ch, session[w]) /\ Good(p)
      /\ p.draft = ch.draft /\ ch.draft.id \in Drafts
    BY <1>1 DEF RunOK, Agents, Drafted, DraftSet
<1>3. /\ Leave(w, "waiting", ch) /\ session' = [session EXCEPT ![w] = rows]
      /\ ids' \in [Drafts -> {"unused", "drafted", "proposed"}]
    BY <1>1, <1>2 DEF ProposeAction, GraphInv, SharedOK
<1>4. node' = [node EXCEPT ![w] = "waiting"] /\ channels' = [channels EXCEPT ![w] = ch]
      /\ agents' = [agents EXCEPT ![w] = agents[w]]
    BY <1>3, RunFacts DEF Leave, ProposeAction
<1>5. ps \in SUBSET Proposals /\ \A q \in ps : Good(q) /\ q.draft.id \in session[w].drafts
    BY <1>1, <1>2 DEF Good, RunOK, Drafted, Rows
<1> HIDE DEF p, ps
<1>6. rows \in Rows /\ rows.runs = session[w].runs /\ rows.drafts = session[w].drafts
      /\ rows.proposals = ps
    BY <1>1, <1>5 DEF Rows
<1> HIDE DEF rows
<1>7. RunOK("waiting", ch, agents[w], rows)
    BY <1>1, <1>2, <1>5, <1>6 DEF RunOK
<1>8. SharedOK'
    BY <1>1, <1>3, LeaveShared DEF Nodes
<1> QED BY <1>1, <1>3, <1>4, <1>6, <1>7, <1>8, RunStep DEF Nodes

-----------------------------------------------------------------------------
(* The end of a run.  Only what a finished run has in its transaction      *)
(* becomes visible.                                                        *)
LEMMA ForgetKeeps ==
    ASSUME GraphInv, NEW w \in Workers, Forget(w), row' \in {"absent", "open", "succeeded"},
           db' \in Rows, DbOK(db'), faults' \in 0..MaxFaults
    PROVE  GraphInv'
<1>1. SharedOK'
    BY DEF Forget, GraphInv, SharedOK
<1>2. RunOK("idle", Fresh, NoAgent, NoRows)
    BY FreshOK DEF RunOK, NoAgent
<1>3. /\ node' = [node EXCEPT ![w] = "idle"] /\ channels' = [channels EXCEPT ![w] = Fresh]
      /\ agents' = [agents EXCEPT ![w] = NoAgent] /\ session' = [session EXCEPT ![w] = NoRows]
    BY DEF Forget, InMemory
<1> QED BY <1>1, <1>2, <1>3, FreshOK, RunStep DEF Nodes

LEMMA CommitKeeps == ASSUME GraphInv, NEW w \in Workers, Commit(w) PROVE GraphInv'
<1> DEFINE rows == session[w]
           new == Merge(rows)
<1>1. /\ agents[w] \in Agents /\ rows \in Rows
      /\ RunOK(node[w], channels[w], agents[w], rows)
    BY RunFacts
<1>2. db \in Rows /\ DbOK(db)
    BY DEF GraphInv, SharedOK
<1>3. agents[w].calls = 0
    BY <1>1 DEF RunOK, Agents, Commit
<1>4. rows.runs \subseteq {"succeeded"}
    BY <1>1, <1>3 DEF RunOK, Rows
<1>5. new \in Rows
    BY <1>1, <1>2 DEF Merge, Rows
<1>6. DbOK(new)
    BY <1>1, <1>2, <1>4 DEF Merge, DbOK, RunOK
<1>7. db' = new /\ Forget(w) /\ row' = "succeeded" /\ faults' = faults
    BY DEF Commit
<1> QED BY <1>5, <1>6, <1>7, ForgetKeeps DEF GraphInv, SharedOK

(* AgentFails and Crash.                                                   *)
LEMMA FaultKeeps ==
    ASSUME GraphInv, NEW w \in Workers, AgentFails(w) \/ Crash(w) PROVE GraphInv'
<1>1. Forget(w) /\ db' = db /\ row' \in {"absent", "open", "succeeded"}
    BY DEF AgentFails, Crash, GraphInv, SharedOK
<1>2. faults' \in 0..MaxFaults
    BY GraphAssumption DEF AgentFails, Crash, GraphInv, SharedOK
<1> QED BY <1>1, <1>2, ForgetKeeps DEF GraphInv, SharedOK

LEMMA ConfirmTaskKeeps == ASSUME GraphInv, ConfirmTask PROVE GraphInv'
BY DEF ConfirmTask, GraphInv, SharedOK, RunsOK

LEMMA BeginKeeps == ASSUME GraphInv, NEW w \in Workers, Begin(w) PROVE GraphInv'
<1> DEFINE ch == channels[w]
           a == agents[w]
           rows == session[w]
<1>1. /\ ch \in Channels /\ a \in Agents /\ rows \in Rows /\ RunOK("idle", ch, a, rows)
      /\ channels' = [channels EXCEPT ![w] = ch] /\ agents' = [agents EXCEPT ![w] = a]
      /\ session' = [session EXCEPT ![w] = rows]
    BY RunFacts DEF Begin
<1>2. node' = [node EXCEPT ![w] = "start"] /\ "start" \in Nodes
    BY DEF Begin, Nodes
<1>3. SharedOK'
    BY DEF Begin, GraphInv, SharedOK
<1>4. RunOK("start", ch, a, rows)
  <2>1. a.calls = 0
      BY <1>1 DEF RunOK, Agents
  <2> QED BY <1>1, <2>1, EarlyOK
<1> HIDE DEF ch, a, rows
<1> QED BY <1>1, <1>2, <1>3, <1>4, RunStep, Zenon

LEMMA NextKeepsGraphInv == GraphInv /\ [Next]_vars => GraphInv'
<1> SUFFICES ASSUME GraphInv, [Next]_vars PROVE GraphInv'
    OBVIOUS
<1>1. CASE ConfirmTask
    BY <1>1, ConfirmTaskKeeps
<1>2. ASSUME NEW w \in Workers, GraphStep(w) PROVE GraphInv'
  <2>1. CASE Begin(w)
      BY <2>1, BeginKeeps
  <2>2. CASE ReceiveInput(w)
      BY <2>2, ReceiveInputKeeps
  <2>3. CASE CreatePlan(w)
      BY <2>3, CreatePlanKeeps
  <2>4. CASE StartAgent(w)
      BY <2>4, StartAgentKeeps
  <2>5. CASE CallAgain(w)
      BY <2>5, CallAgainKeeps
  <2>6. CASE \E size \in Sizes : CollectOpinion(w, size) \/ SynthesizeDecision(w, size)
      BY <2>6, CollectOpinionKeeps, SynthesizeDecisionKeeps
  <2>7. CASE DispatchFromCouncil(w)
      BY <2>7, DispatchFromCouncilKeeps
  <2>8. CASE AskUser(w) \/ RecordRun(w)
      BY <2>8, AnswerKeeps
  <2>9. CASE \E id \in Drafts, x \in Writings, size \in Sizes : CreateDraft(w, NewDraft(id, x, size))
      BY <2>9, CreateDraftKeeps
  <2>10. CASE ReviewDraft(w)
      BY <2>10, ReviewDraftKeeps
  <2>11. CASE RepairDraft(w)
      BY <2>11, RepairDraftKeeps
  <2>12. CASE ProposeAction(w)
      BY <2>12, ProposeActionKeeps
  <2>13. CASE Commit(w)
      BY <2>13, CommitKeeps
  <2> QED BY <1>2, <2>1, <2>2, <2>3, <2>4, <2>5, <2>6, <2>7, <2>8, <2>9, <2>10, <2>11, <2>12, <2>13
          DEF GraphStep
<1>3. ASSUME NEW w \in Workers, AgentFails(w) \/ Crash(w) PROVE GraphInv'
    BY <1>3, FaultKeeps
<1>4. CASE UNCHANGED vars
    BY <1>4 DEF vars, GraphInv, SharedOK, RunsOK
<1> QED BY <1>1, <1>2, <1>3, <1>4 DEF Next

LEMMA GraphInvariant == Spec => []GraphInv
BY InitGraphInv, NextKeepsGraphInv, PTL DEF Spec

(* The proposals of all runs are good.                                     *)
LEMMA ProposedGood == ASSUME GraphInv, NEW p \in Proposed PROVE Good(p)
<1>1. \A q \in db.proposals : Good(q)
    BY DEF GraphInv, SharedOK, DbOK
<1>2. \A w \in Workers : \A q \in session[w].proposals : Good(q)
    BY DEF GraphInv, RunsOK, RunOK
<1> QED BY <1>1, <1>2 DEF Proposed

-----------------------------------------------------------------------------
(* Every state of the dispatched graph is well typed: the repair counter   *)
(* never passes one, the version never two, and no gateway asks a model    *)
(* more than three times for one answer.                                   *)
THEOREM GraphTypeOK == Spec => []TypeOK
<1>1. GraphInv => TypeOK
    BY DEF GraphInv, SharedOK, RunsOK, TypeOK, Agents
<1> QED BY <1>1, GraphInvariant, PTL

(* interrupt_human_approval proposes a draft with a settled review of      *)
(* exactly that version, whatever the channels of earlier runs held.       *)
THEOREM GraphReviewMatchesProposal == Spec => []ReviewMatchesProposal
<1>1. GraphInv => ReviewMatchesProposal
    BY ProposedGood DEF Good, ReviewMatchesProposal
<1> QED BY <1>1, GraphInvariant, PTL

(* A draft that ReviewGate passed has evidence from its agent, a usable    *)
(* summary and no red flag, repaired or not.                               *)
THEOREM GraphPassedIsSound == Spec => []PassedIsSound
<1>1. GraphInv => PassedIsSound
    BY ProposedGood DEF Good, PassedIsSound
<1> QED BY <1>1, GraphInvariant, PTL

(* A draft with too short a summary is repaired before it is proposed,     *)
(* unless a human has to look at it anyway.                                *)
THEOREM GraphShortDraftsRepaired == Spec => []ShortDraftsRepaired
<1>1. GraphInv => ShortDraftsRepaired
    BY ProposedGood DEF Good, ShortDraftsRepaired
<1> QED BY <1>1, GraphInvariant, PTL

(* A committed ActionProposal refers to a committed AgentArtifact.         *)
THEOREM GraphProposalBacked == Spec => []ProposalBacked
<1>1. GraphInv => ProposalBacked
    BY DEF GraphInv, SharedOK, DbOK, ProposalBacked
<1> QED BY <1>1, GraphInvariant, PTL

(* No committed AgentRun is "running": a worker that dies or fails in the  *)
(* middle of a run leaves none behind.                                     *)
THEOREM GraphNoAbandonedRun == Spec => []NoAbandonedRun
<1>1. GraphInv => NoAbandonedRun
    BY DEF GraphInv, SharedOK, DbOK, NoAbandonedRun
<1> QED BY <1>1, GraphInvariant, PTL

-----------------------------------------------------------------------------
(* Implementation of ApprovalFlow.  The mapping needs to know where the    *)
(* runs are: a run with rows in its transaction has the thread's lock, so  *)
(* one run at a time is past its first agent; its draft has been minted    *)
(* and not proposed; its proposal is the one it waits with.                *)
PlaceOK(n, ch, a, rows, minted) ==
    /\ a.calls > 0 => rows.runs # {}
    /\ n \in {"review", "repair", "interrupt", "waiting"} => rows.runs # {}
    /\ n \in {"review", "repair", "interrupt"} => minted[ch.draft.id] = "drafted"
    /\ n = "waiting" => /\ ch.draft \in DraftSet
                        /\ minted[ch.draft.id] = "proposed"
                        /\ rows.proposals = {[draft |-> ch.draft, review |-> ch.review]}
    /\ n # "waiting" => rows.proposals = {}

OneWriter == \A v, w \in Workers : v # w => session[v].runs = {} \/ session[w].runs = {}
MintedOK(ps, minted) == \A p \in ps : minted[p.draft.id] = "proposed"

PlaceInv ==
    /\ \A w \in Workers : PlaceOK(node[w], channels[w], agents[w], session[w], ids)
    /\ OneWriter
    /\ MintedOK(db.proposals, ids)

LEMMA InitPlaceInv == Init => PlaceInv
BY FreshOK DEF Init, PlaceInv, PlaceOK, OneWriter, MintedOK, NoAgent, NoRows

LEMMA PlaceStep ==
    ASSUME GraphInv, PlaceInv, NEW w \in Workers, NEW n, NEW ch, NEW a, NEW rows,
           node' = [node EXCEPT ![w] = n], channels' = [channels EXCEPT ![w] = ch],
           agents' = [agents EXCEPT ![w] = a], session' = [session EXCEPT ![w] = rows],
           PlaceOK(n, ch, a, rows, ids'),
           \A v \in Workers \ {w} : PlaceOK(node[v], channels[v], agents[v], session[v], ids'),
           rows.runs # {} => session[w].runs # {} \/ ThreadFree(w),
           MintedOK(db'.proposals, ids')
    PROVE  PlaceInv'
<1>1. ASSUME NEW v \in Workers PROVE PlaceOK(node'[v], channels'[v], agents'[v], session'[v], ids')
  <2>1. CASE v = w
      BY <2>1 DEF GraphInv, RunsOK
  <2>2. CASE v # w
    <3>1. node'[v] = node[v] /\ channels'[v] = channels[v] /\ agents'[v] = agents[v]
          /\ session'[v] = session[v]
        BY <2>2 DEF GraphInv, RunsOK
    <3> QED BY <2>2, <3>1
  <2> QED BY <2>1, <2>2
<1>2. OneWriter'
  <2>1. session'[w] = rows /\ \A v \in Workers \ {w} : session'[v] = session[v]
      BY DEF GraphInv, RunsOK
  <2> QED BY <2>1 DEF PlaceInv, OneWriter, ThreadFree
<1> QED BY <1>1, <1>2 DEF PlaceInv

(* A node that ends, with the memory and the rows as they are and without  *)
(* a new draft.                                                            *)
LEMMA PlaceLeave ==
    ASSUME GraphInv, PlaceInv, NEW w \in Workers, NEW n, NEW ch, NEW a, Leave(w, n, ch),
           agents' = [agents EXCEPT ![w] = a], UNCHANGED <<session, ids>>,
           PlaceOK(n, ch, a, session[w], ids)
    PROVE  PlaceInv'
<1> DEFINE rows == session[w]
<1>1. /\ node' = [node EXCEPT ![w] = n] /\ channels' = [channels EXCEPT ![w] = ch]
      /\ session' = [session EXCEPT ![w] = rows] /\ ids' = ids /\ db' = db
    BY RunFacts DEF Leave
<1>2. PlaceOK(n, ch, a, rows, ids') /\ MintedOK(db'.proposals, ids')
    BY <1>1 DEF PlaceInv
<1>3. \A v \in Workers \ {w} : PlaceOK(node[v], channels[v], agents[v], session[v], ids')
    BY <1>1 DEF PlaceInv
<1>4. rows.runs # {} => session[w].runs # {} \/ ThreadFree(w)
    OBVIOUS
<1> HIDE DEF rows
<1> QED BY <1>1, <1>2, <1>3, <1>4, PlaceStep, Zenon

(* The steps of an agent run.                                              *)
LEMMA PlaceMemory ==
    ASSUME GraphInv, PlaceInv, NEW w \in Workers, NEW a, NEW rows, InMemory(w, a, rows),
           UNCHANGED <<request, row, node, channels, cp, db, ids, faults>>,
           PlaceOK(node[w], channels[w], a, rows, ids),
           rows.runs # {} => session[w].runs # {} \/ ThreadFree(w)
    PROVE  PlaceInv'
<1> DEFINE n == node[w]
           ch == channels[w]
<1>1. /\ node' = [node EXCEPT ![w] = n] /\ channels' = [channels EXCEPT ![w] = ch]
      /\ agents' = [agents EXCEPT ![w] = a] /\ session' = [session EXCEPT ![w] = rows]
      /\ ids' = ids /\ db' = db
    BY RunFacts DEF InMemory
<1>2. PlaceOK(n, ch, a, rows, ids') /\ MintedOK(db'.proposals, ids')
    BY <1>1 DEF PlaceInv
<1>3. \A v \in Workers \ {w} : PlaceOK(node[v], channels[v], agents[v], session[v], ids')
    BY <1>1 DEF PlaceInv
<1> HIDE DEF n, ch
<1> QED BY <1>1, <1>2, <1>3, PlaceStep, Zenon

(* A run that ends, its rows merged or not.                                *)
LEMMA PlaceForget ==
    ASSUME GraphInv, PlaceInv, NEW w \in Workers, Forget(w), MintedOK(db'.proposals, ids)
    PROVE  PlaceInv'
<1>1. /\ node' = [node EXCEPT ![w] = "idle"] /\ channels' = [channels EXCEPT ![w] = Fresh]
      /\ agents' = [agents EXCEPT ![w] = NoAgent] /\ session' = [session EXCEPT ![w] = NoRows]
      /\ ids' = ids
    BY DEF Forget, InMemory
<1>2. PlaceOK("idle", Fresh, NoAgent, NoRows, ids') /\ NoRows.runs = {}
    BY FreshOK DEF PlaceOK, NoAgent
<1>3. \A v \in Workers \ {w} : PlaceOK(node[v], channels[v], agents[v], session[v], ids')
    BY <1>1 DEF PlaceInv
<1> QED BY <1>1, <1>2, <1>3, PlaceStep

(* Before the draft the place relies on the rows of an agent run only.     *)
LEMMA EarlyPlace ==
    ASSUME NEW n, NEW ch, NEW a, NEW rows, NEW minted, PlaceOK(n, ch, a, rows, minted),
           NEW m, NEW ch2, NEW b, n # "waiting",
           m \notin {"review", "repair", "interrupt", "waiting"}, b.calls > 0 => a.calls > 0
    PROVE  PlaceOK(m, ch2, b, rows, minted)
BY DEF PlaceOK

(* The other runs have no draft while this one has the lock.               *)
LEMMA OthersEarly ==
    ASSUME PlaceInv, NEW w \in Workers, session[w].runs # {}, NEW minted,
           NEW v \in Workers \ {w}
    PROVE  PlaceOK(node[v], channels[v], agents[v], session[v], minted) /\ node[v] # "waiting"
BY DEF PlaceInv, OneWriter, PlaceOK

LEMMA BeginPlace == ASSUME GraphInv, PlaceInv, NEW w \in Workers, Begin(w) PROVE PlaceInv'
<1> DEFINE ch == channels[w]
           a == agents[w]
           rows == session[w]
<1>1. /\ channels' = [channels EXCEPT ![w] = ch] /\ agents' = [agents EXCEPT ![w] = a]
      /\ session' = [session EXCEPT ![w] = rows] /\ ids' = ids /\ db' = db
      /\ node' = [node EXCEPT ![w] = "start"]
    BY RunFacts DEF Begin
<1>2. PlaceOK("start", ch, a, rows, ids')
  <2>1. PlaceOK("idle", ch, a, rows, ids)
      BY DEF Begin, PlaceInv
  <2> QED BY <1>1, <2>1, EarlyPlace
<1>3. \A v \in Workers \ {w} : PlaceOK(node[v], channels[v], agents[v], session[v], ids')
    BY <1>1 DEF PlaceInv
<1>4. /\ MintedOK(db'.proposals, ids')
      /\ rows.runs # {} => session[w].runs # {} \/ ThreadFree(w)
    BY <1>1 DEF PlaceInv
<1> HIDE DEF ch, a, rows
<1> QED BY <1>1, <1>2, <1>3, <1>4, PlaceStep, Zenon

(* The nodes before the draft.                                             *)
LEMMA EarlyLeavePlace ==
    ASSUME GraphInv, PlaceInv, NEW w \in Workers, NEW n, NEW ch, NEW a, Leave(w, n, ch),
           agents' = [agents EXCEPT ![w] = a], UNCHANGED <<session, ids>>,
           node[w] # "waiting", n \notin {"review", "repair", "interrupt", "waiting"},
           a.calls > 0 => agents[w].calls > 0
    PROVE  PlaceInv'
<1>1. PlaceOK(node[w], channels[w], agents[w], session[w], ids)
    BY DEF PlaceInv
<1>2. PlaceOK(n, ch, a, session[w], ids)
    BY <1>1, EarlyPlace
<1> QED BY <1>2, PlaceLeave

LEMMA EarlyActionsPlace ==
    ASSUME GraphInv, PlaceInv, NEW w \in Workers,
           \/ ReceiveInput(w) \/ CreatePlan(w) \/ DispatchFromCouncil(w) \/ AskUser(w)
           \/ RecordRun(w) \/ \E size \in Sizes : SynthesizeDecision(w, size)
    PROVE  PlaceInv'
<1>1. ASSUME NEW n, NEW ch, Leave(w, n, ch), UNCHANGED <<agents, session, ids>>, node[w] # "waiting",
             n \notin {"review", "repair", "interrupt", "waiting"}
      PROVE  PlaceInv'
  <2> DEFINE a == agents[w]
  <2>1. agents' = [agents EXCEPT ![w] = a] /\ (a.calls > 0 => agents[w].calls > 0)
      BY <1>1, RunFacts
  <2> HIDE DEF a
  <2> QED BY <1>1, <2>1, EarlyLeavePlace
<1>2. CASE ReceiveInput(w)
    BY <1>1, <1>2 DEF ReceiveInput
<1>3. CASE AskUser(w)
    BY <1>1, <1>3 DEF AskUser
<1>4. CASE RecordRun(w)
    BY <1>1, <1>4 DEF RecordRun
<1>5. CASE CreatePlan(w)
  <2> DEFINE mode == CouncilMode(request.text)
             a == [NoAgent EXCEPT !.left = CouncilSize[mode]]
             ch == [channels[w] EXCEPT !.mode = mode]
  <2>1. a.calls > 0 => agents[w].calls > 0
      BY DEF NoAgent
  <2>2. agents' = [agents EXCEPT ![w] = a] /\ Leave(w, "council", ch) /\ UNCHANGED <<session, ids>>
        /\ node[w] = "plan"
      BY <1>5 DEF CreatePlan
  <2> HIDE DEF a, ch
  <2> QED BY <2>1, <2>2, EarlyLeavePlace
<1>6. CASE DispatchFromCouncil(w)
  <2> DEFINE k == IF channels[w].asks THEN 0 ELSE 1
             a == [agents[w] EXCEPT !.left = k]
             n == IF channels[w].asks THEN "ask" ELSE "business"
  <2>1. agents' = [agents EXCEPT ![w] = a] /\ Leave(w, n, channels[w]) /\ UNCHANGED <<session, ids>>
        /\ node[w] = "dispatch" /\ n \in {"ask", "business"}
      BY <1>6 DEF DispatchFromCouncil
  <2>2. a.calls = agents[w].calls
      BY RunFacts DEF Agents
  <2> HIDE DEF a, n
  <2> QED BY <2>1, <2>2, EarlyLeavePlace
<1>7. ASSUME NEW size \in Sizes, SynthesizeDecision(w, size) PROVE PlaceInv'
  <2> DEFINE ch == AfterCouncil(channels[w], agents[w].tokens + size)
  <2>1. NoAgent.calls > 0 => agents[w].calls > 0
      BY DEF NoAgent
  <2>2. agents' = [agents EXCEPT ![w] = NoAgent] /\ Leave(w, "dispatch", ch)
        /\ UNCHANGED <<session, ids>> /\ node[w] = "council"
      BY <1>7 DEF SynthesizeDecision
  <2> HIDE DEF ch
  <2> QED BY <2>1, <2>2, EarlyLeavePlace
<1> QED BY <1>2, <1>3, <1>4, <1>5, <1>6, <1>7

LEMMA SucceededRuns ==
    ASSUME NEW w \in Workers, session[w] \in Rows
    PROVE  Succeeded(w).runs # {} /\ Succeeded(w).proposals = session[w].proposals
BY DEF Succeeded, Rows

(* An agent run begins when the thread is free, and its rows stay.         *)
LEMMA AgentPlace ==
    ASSUME GraphInv, PlaceInv, NEW w \in Workers,
           StartAgent(w) \/ CallAgain(w) \/ \E size \in Sizes : CollectOpinion(w, size)
    PROVE  PlaceInv'
<1>1. /\ agents[w] \in Agents /\ session[w] \in Rows
      /\ RunOK(node[w], channels[w], agents[w], session[w])
      /\ PlaceOK(node[w], channels[w], agents[w], session[w], ids)
    BY RunFacts DEF PlaceInv
<1>2. CASE StartAgent(w)
  <2> DEFINE a == [agents[w] EXCEPT !.calls = 1]
             runs == session[w].runs \cup {"running"}
             rows == [session[w] EXCEPT !.runs = runs]
  <2>1. /\ InMemory(w, a, rows) /\ UNCHANGED <<request, row, node, channels, cp, db, ids, faults>>
        /\ ThreadFree(w) /\ node[w] \in {"council", "business"}
      BY <1>2 DEF StartAgent
  <2>2. rows.runs # {} /\ rows.proposals = session[w].proposals
      BY <1>1 DEF Rows
  <2> HIDE DEF a, rows
  <2>3. PlaceOK(node[w], channels[w], a, rows, ids)
      BY <1>1, <2>1, <2>2 DEF PlaceOK
  <2> QED BY <2>1, <2>3, PlaceMemory
<1>3. CASE CallAgain(w)
  <2> DEFINE a == [agents[w] EXCEPT !.calls = agents[w].calls + 1]
  <2>1. /\ InMemory(w, a, session[w])
        /\ UNCHANGED <<request, row, node, channels, cp, db, ids, faults>>
      BY <1>3 DEF CallAgain
  <2>2. agents[w].calls > 0
      BY <1>3, ModeOK DEF CallAgain, GraphInv, SharedOK
  <2> HIDE DEF a
  <2>3. session[w].runs # {} /\ PlaceOK(node[w], channels[w], a, session[w], ids)
      BY <1>1, <2>2 DEF PlaceOK
  <2> QED BY <2>1, <2>3, PlaceMemory
<1>4. ASSUME NEW size \in Sizes, CollectOpinion(w, size) PROVE PlaceInv'
  <2> DEFINE a == [left |-> agents[w].left - 1, calls |-> 0,
                   tokens |-> Capped(agents[w].tokens + size)]
  <2>1. /\ InMemory(w, a, Succeeded(w))
        /\ UNCHANGED <<request, row, node, channels, cp, db, ids, faults>>
        /\ node[w] = "council" /\ agents[w].calls > 0
      BY <1>4 DEF CollectOpinion
  <2> HIDE DEF a
  <2>2. session[w].runs # {} /\ PlaceOK(node[w], channels[w], a, Succeeded(w), ids)
      BY <1>1, <2>1, SucceededRuns DEF PlaceOK
  <2> QED BY <2>1, <2>2, PlaceMemory
<1> QED BY <1>2, <1>3, <1>4

LEMMA CreateDraftPlace ==
    ASSUME GraphInv, PlaceInv, NEW w \in Workers, NEW id \in Drafts, NEW x \in Writings,
           NEW size \in Sizes, CreateDraft(w, NewDraft(id, x, size))
    PROVE  PlaceInv'
<1> DEFINE d == NewDraft(id, x, size)
           ch == AfterBusiness(channels[w], d)
           rows == WithArtifact(Succeeded(w), d)
<1>1. /\ channels[w] \in Channels /\ session[w] \in Rows /\ node[w] = "business"
      /\ RunOK("business", channels[w], agents[w], session[w])
      /\ PlaceOK("business", channels[w], agents[w], session[w], ids)
    BY RunFacts DEF CreateDraft, PlaceInv
<1>2. d \in DraftSet /\ d.id = id
    BY NewDraftOK
<1>3. ch.draft = d
    BY <1>1, <1>2, AfterBusinessOK
<1>4. /\ Leave(w, "review", ch) /\ InMemory(w, NoAgent, rows) /\ ids[id] = "unused"
      /\ ids' = [ids EXCEPT ![id] = "drafted"] /\ agents[w].calls > 0
    BY <1>2 DEF CreateDraft
<1>5. session[w].runs # {} /\ session[w].proposals = {}
    BY <1>1, <1>4 DEF PlaceOK
<1>6. rows.runs # {} /\ rows.proposals = {}
  <2>1. Succeeded(w) \in Rows /\ Succeeded(w).runs # {} /\ Succeeded(w).proposals = {}
      BY <1>1, <1>5, SucceededRuns, SucceededOK DEF RunOK
  <2> QED BY <2>1 DEF WithArtifact, Rows
<1>7. ids' \in [Drafts -> {"unused", "drafted", "proposed"}] /\ ids'[id] = "drafted"
      /\ \A i \in Drafts \ {id} : ids'[i] = ids[i]
    BY <1>4 DEF GraphInv, SharedOK
<1> HIDE DEF d, ch, rows
<1>8. PlaceOK("review", ch, NoAgent, rows, ids')
    BY <1>2, <1>3, <1>6, <1>7 DEF PlaceOK, NoAgent
<1>9. \A v \in Workers \ {w} : PlaceOK(node[v], channels[v], agents[v], session[v], ids')
    BY <1>5, OthersEarly
<1>10. MintedOK(db'.proposals, ids')
  <2>1. db' = db /\ \A p \in db.proposals : p.draft.id \in Drafts
      BY <1>4 DEF Leave, GraphInv, SharedOK, DbOK, Good, Proposals, DraftSet
  <2> QED BY <2>1, <1>4, <1>7 DEF PlaceInv, MintedOK
<1> QED BY <1>4, <1>5, <1>8, <1>9, <1>10, PlaceStep DEF Leave, InMemory

LEMMA ReviewPlace ==
    ASSUME GraphInv, PlaceInv, NEW w \in Workers, ReviewDraft(w) \/ RepairDraft(w)
    PROVE  PlaceInv'
<1>1. PICK n \in {"review", "repair", "interrupt"}, ch \in Channels :
         /\ Leave(w, n, ch) /\ UNCHANGED <<agents, session, ids>>
         /\ node[w] \in {"review", "repair"} /\ ch.draft.id = channels[w].draft.id
  <2>1. channels[w] \in Channels /\ agents[w] \in Agents
        /\ RunOK(node[w], channels[w], agents[w], session[w])
      BY RunFacts
  <2>2. CASE ReviewDraft(w)
    <3> DEFINE old == channels[w]
               d == old.draft
               f == Findings(d, old.tokens)
               r == [id |-> d.id, version |-> d.version,
                     status |-> ReviewStatus(f, old.attempts), findings |-> f]
               n == RouteFromReview(r, old.attempts)
               ch == [old EXCEPT !.review = r]
    <3>1. Drafted(old, session[w]) /\ old.attempts \in 0..1
        BY <2>1, <2>2 DEF RunOK, ReviewDraft, Channels
    <3>2. r \in Reviews /\ n \in {"repair", "interrupt"}
        BY <3>1, ReviewFacts DEF Drafted
    <3>3. Leave(w, n, ch) /\ UNCHANGED <<agents, session, ids>> /\ node[w] = "review"
        BY <2>2 DEF ReviewDraft
    <3> HIDE DEF n, r
    <3>4. ch \in Channels /\ ch.draft = d
        BY <2>1, <3>2, WithReviewOK
    <3> HIDE DEF ch
    <3> QED BY <3>2, <3>3, <3>4
  <2>3. CASE RepairDraft(w)
    <3> DEFINE old == channels[w]
               ch == AfterRepair(old)
    <3>1. /\ old.attempts = 0 /\ old.draft.evidence # "none" /\ old.draft.version = 1
          /\ old.draft \in DraftSet
        BY <2>1, <2>3 DEF RunOK, Drafted, RepairDraft
    <3>2. ch \in Channels /\ ch.draft = Repaired(old.draft)
        BY <2>1, <3>1, AfterRepairOK
    <3>3. Repaired(old.draft).id = old.draft.id
        BY <3>1, RepairedOK
    <3>4. Leave(w, "review", ch) /\ UNCHANGED <<agents, session, ids>> /\ node[w] = "repair"
        BY <2>3 DEF RepairDraft
    <3> HIDE DEF ch
    <3> QED BY <3>2, <3>3, <3>4
  <2> QED BY <2>2, <2>3
<1> DEFINE a == agents[w]
<1>2. PlaceOK(node[w], channels[w], a, session[w], ids)
    BY DEF PlaceInv
<1>3. PlaceOK(n, ch, a, session[w], ids)
    BY <1>1, <1>2 DEF PlaceOK
<1>4. agents' = [agents EXCEPT ![w] = a]
    BY <1>1, RunFacts
<1> HIDE DEF a
<1> QED BY <1>1, <1>3, <1>4, PlaceLeave

LEMMA ProposeActionPlace ==
    ASSUME GraphInv, PlaceInv, NEW w \in Workers, ProposeAction(w) PROVE PlaceInv'
<1> DEFINE ch == channels[w]
           a == agents[w]
           p == [draft |-> ch.draft, review |-> ch.review]
           rows == [session[w] EXCEPT !.proposals = session[w].proposals \cup {p}]
<1>1. /\ session[w] \in Rows /\ RunOK("interrupt", ch, a, session[w])
      /\ PlaceOK("interrupt", ch, a, session[w], ids)
    BY RunFacts DEF ProposeAction, PlaceInv
<1>2. /\ ch.draft \in DraftSet /\ ch.draft.id \in Drafts /\ session[w].runs # {}
      /\ session[w].proposals = {}
    BY <1>1 DEF RunOK, Drafted, DraftSet, PlaceOK
<1>3. /\ Leave(w, "waiting", ch) /\ session' = [session EXCEPT ![w] = rows]
      /\ ids' = [ids EXCEPT ![ch.draft.id] = "proposed"] /\ agents' = [agents EXCEPT ![w] = a]
    BY RunFacts DEF ProposeAction
<1>4. rows.runs = session[w].runs /\ rows.proposals = {p}
    BY <1>1, <1>2 DEF Rows
<1>5. /\ ids'[ch.draft.id] = "proposed"
      /\ \A i \in Drafts : ids[i] = "proposed" => ids'[i] = "proposed"
    BY <1>2, <1>3 DEF GraphInv, SharedOK
<1>6. PlaceOK("waiting", ch, a, rows, ids')
    BY <1>1, <1>2, <1>4, <1>5 DEF PlaceOK
<1>7. \A v \in Workers \ {w} : PlaceOK(node[v], channels[v], agents[v], session[v], ids')
    BY <1>2, OthersEarly
<1>8. MintedOK(db'.proposals, ids')
  <2>1. db' = db /\ \A q \in db.proposals : q.draft.id \in Drafts
      BY <1>3 DEF Leave, GraphInv, SharedOK, DbOK, Good, Proposals, DraftSet
  <2> QED BY <2>1, <1>5 DEF PlaceInv, MintedOK
<1>9. node' = [node EXCEPT ![w] = "waiting"] /\ channels' = [channels EXCEPT ![w] = ch]
    BY <1>3 DEF Leave
<1> HIDE DEF ch, a, rows
<1> QED BY <1>2, <1>3, <1>6, <1>7, <1>8, <1>9, PlaceStep

LEMMA EndPlace ==
    ASSUME GraphInv, PlaceInv, NEW w \in Workers, Commit(w) \/ AgentFails(w) \/ Crash(w)
    PROVE  PlaceInv'
<1>1. CASE Commit(w)
  <2>1. PlaceOK(node[w], channels[w], agents[w], session[w], ids)
      BY DEF PlaceInv
  <2>2. MintedOK(session[w].proposals, ids)
      BY <2>1 DEF PlaceOK, MintedOK
  <2>3. db'.proposals = db.proposals \cup session[w].proposals
      BY <1>1 DEF Commit, Merge
  <2>4. MintedOK(db'.proposals, ids)
      BY <2>2, <2>3 DEF PlaceInv, MintedOK
  <2> QED BY <1>1, <2>4, PlaceForget DEF Commit
<1>2. CASE AgentFails(w) \/ Crash(w)
    BY <1>2, PlaceForget DEF AgentFails, Crash, PlaceInv
<1> QED BY <1>1, <1>2

LEMMA NextKeepsPlaceInv == GraphInv /\ PlaceInv /\ [Next]_vars => PlaceInv'
<1> SUFFICES ASSUME GraphInv, PlaceInv, [Next]_vars PROVE PlaceInv'
    OBVIOUS
<1>1. CASE ConfirmTask \/ UNCHANGED vars
  <2>1. UNCHANGED <<node, channels, agents, session, ids, db>>
      BY <1>1 DEF ConfirmTask, vars
  <2> QED BY <2>1 DEF PlaceInv, PlaceOK, OneWriter, MintedOK
<1>2. ASSUME NEW w \in Workers, GraphStep(w) \/ AgentFails(w) \/ Crash(w) PROVE PlaceInv'
    BY <1>2, BeginPlace, EarlyActionsPlace, AgentPlace, CreateDraftPlace, ReviewPlace,
       ProposeActionPlace, EndPlace DEF GraphStep
<1> QED BY <1>1, <1>2 DEF Next

-----------------------------------------------------------------------------
(* The mapping, per node.                                                  *)
GraphNodes == Nodes \ {"idle", "start", "waiting", "done"}
Ses(st, id, mark) ==
    [step |-> st, answer |-> NoDraft, view |-> "none", prop |-> id, mark |-> mark]

SesBegun == Ses("begun", NoDraft, "none")
SesGraph == Ses("graph", NoDraft, "none")
SesDone  == Ses("done", NoDraft, "none")

LEMMA SesFacts ==
    ASSUME NEW ch
    PROVE  /\ FlowSession("idle", ch) = Ses("idle", NoDraft, "none")
           /\ FlowSession("start", ch) = SesBegun
           /\ FlowSession("waiting", ch) = Ses("done", ch.draft.id, "pending")
           /\ FlowSession("done", ch) = SesDone
           /\ \A n \in GraphNodes : FlowSession(n, ch) = SesGraph
BY DEF SesBegun, SesGraph, SesDone, GraphNodes, Nodes, FlowSession, FlowStep, Ses

LEMMA SesFields ==
    /\ SesBegun.step = "begun" /\ SesGraph.step = "graph" /\ SesDone.step = "done"
    /\ SesGraph.mark = "none" /\ SesBegun.mark = "none" /\ SesDone.mark = "none"
BY DEF Ses, SesBegun, SesGraph, SesDone

LEMMA SesMoves ==
    /\ [Ses("idle", NoDraft, "none") EXCEPT !.step = "begun"] = SesBegun
    /\ [SesBegun EXCEPT !.step = "graph"] = SesGraph
    /\ [SesGraph EXCEPT !.step = "done"] = SesDone
<1>1. [Ses("idle", NoDraft, "none") EXCEPT !.step = "begun"] = SesBegun
    BY DEF Ses, SesBegun
<1>2. [SesBegun EXCEPT !.step = "graph"] = SesGraph
    BY DEF Ses, SesBegun, SesGraph
<1>3. [SesGraph EXCEPT !.step = "done"] = SesDone
    BY DEF Ses, SesGraph, SesDone
<1> QED BY <1>1, <1>2, <1>3

LEMMA SesPropose ==
    ASSUME NEW id
    PROVE  [SesGraph EXCEPT !.step = "done", !.prop = id, !.mark = "pending"]
             = Ses("done", id, "pending")
<1> DEFINE s1 == [SesGraph EXCEPT !.step = "done"]
           s2 == [s1 EXCEPT !.prop = id]
           s3 == [s2 EXCEPT !.mark = "pending"]
<1>1. [SesGraph EXCEPT !.step = "done", !.prop = id, !.mark = "pending"] = s3
    OBVIOUS
<1>2. s1 = Ses("done", NoDraft, "none")
    BY SesMoves DEF SesDone
<1> HIDE DEF s1
<1>3. s2 = Ses("done", id, "none")
    BY <1>2 DEF Ses
<1> HIDE DEF s2
<1>4. s3 = Ses("done", id, "pending")
    BY <1>3 DEF Ses
<1> QED BY <1>1, <1>4

(* The sessions and the queue's runs after a step of one run.              *)
FlowSessions == [w \in Workers |-> FlowSession(node[w], channels[w])]
FlowRuns     == [w \in Workers |-> IF node[w] = "idle" THEN NoDraft ELSE FlowRow]

LEMMA MapSessions ==
    ASSUME GraphInv, NEW w \in Workers, NEW n, NEW ch,
           node' = [node EXCEPT ![w] = n], channels' = [channels EXCEPT ![w] = ch]
    PROVE  FlowSessions' = [FlowSessions EXCEPT ![w] = FlowSession(n, ch)]
<1>1. /\ node'[w] = n /\ channels'[w] = ch
      /\ \A v \in Workers \ {w} : node'[v] = node[v] /\ channels'[v] = channels[v]
    BY DEF GraphInv, RunsOK
<1> DEFINE new == [FlowSessions EXCEPT ![w] = FlowSession(n, ch)]
<1>2. \A v \in Workers : FlowSession(node'[v], channels'[v]) = new[v]
    BY <1>1 DEF FlowSessions
<1>3. new = [v \in Workers |-> new[v]]
    BY DEF FlowSessions
<1>4. FlowSessions' = [v \in Workers |-> FlowSession(node'[v], channels'[v])]
    BY DEF FlowSessions
<1> HIDE DEF new
<1>5. [v \in Workers |-> FlowSession(node'[v], channels'[v])] = [v \in Workers |-> new[v]]
    BY <1>2
<1> QED BY <1>3, <1>4, <1>5 DEF new

LEMMA MapRuns ==
    ASSUME GraphInv, NEW w \in Workers, NEW n, node' = [node EXCEPT ![w] = n]
    PROVE  /\ n = "idle" => FlowRuns' = [FlowRuns EXCEPT ![w] = NoDraft]
           /\ n # "idle" => FlowRuns' = [FlowRuns EXCEPT ![w] = FlowRow]
           /\ n # "idle" /\ node[w] # "idle" => FlowRuns' = FlowRuns
<1>1. /\ node'[w] = n /\ \A v \in Workers \ {w} : node'[v] = node[v]
    BY DEF GraphInv, RunsOK
<1>2. n = "idle" => FlowRuns' = [FlowRuns EXCEPT ![w] = NoDraft]
    BY <1>1 DEF FlowRuns
<1>3. n # "idle" => FlowRuns' = [FlowRuns EXCEPT ![w] = FlowRow]
    BY <1>1 DEF FlowRuns
<1>4. n # "idle" /\ node[w] # "idle" => FlowRuns' = FlowRuns
    BY <1>1 DEF FlowRuns
<1> QED BY <1>2, <1>3, <1>4

(* Where a run is.                                                         *)
LEMMA MapAt ==
    ASSUME NEW w \in Workers
    PROVE  /\ FlowSessions[w] = FlowSession(node[w], channels[w])
           /\ node[w] = "idle" => FlowRuns[w] = NoDraft
           /\ node[w] # "idle" => FlowRuns[w] = FlowRow
BY DEF FlowSessions, FlowRuns

LEMMA MapItems == Flow!Items = FlowItems /\ Flow!DispatchRow = FlowRow /\ FlowRow \in FlowItems
BY DEF Flow!Items, FlowItems, Flow!DispatchRow, FlowRow, Flow!ResumeRow, Flow!BitableRow

LEMMA MapInit == Init => Flow!Init
<1> SUFFICES ASSUME Init PROVE Flow!Init
    OBVIOUS
<1>1. Flow!Queue!Init
    BY MapItems DEF Init, Flow!Queue!Init
<1>2. FlowCheckpoint(cp) = Flow!Checkpoint("none", NoDraft, NoDraft)
    BY DEF Init, FlowCheckpoint, Flow!Checkpoint
<1>3. FlowSessions = [w \in Workers |-> Flow!NoSession]
    BY SesFacts DEF Init, FlowSessions, Flow!NoSession, Ses
<1>4. {d \in Drafts : ids[d] = "proposed"} = {}
    BY DEF Init
<1>5. [p \in FlowProps |-> FlowStatus(db.proposals, p)] = [p \in FlowProps |-> "absent"]
    BY DEF Init, NoRows, FlowStatus
<1>6. faults = 0
    BY DEF Init
<1> QED BY <1>1, <1>2, <1>3, <1>4, <1>5, <1>6 DEF Flow!Init, FlowSessions

LEMMA MapCheckpoint ==
    ASSUME NEW c, NEW n, NEW ch,
           c = [at |-> CASE n = "waiting" -> "interrupt" [] n = "done" -> "end" [] OTHER -> "running",
                channels |-> ch]
    PROVE  /\ n \in GraphNodes => FlowCheckpoint(c) = Flow!Checkpoint("running", NoDraft, NoDraft)
           /\ n = "waiting" => FlowCheckpoint(c) = Flow!Checkpoint("interrupt", ch.draft.id, NoDraft)
           /\ n = "done" => FlowCheckpoint(c) = Flow!Checkpoint("end", NoDraft, NoDraft)
<1>1. CASE n \in GraphNodes
  <2>1. c.at = "running"
      BY <1>1 DEF GraphNodes
  <2> QED BY <1>1, <2>1 DEF FlowCheckpoint, Flow!Checkpoint, GraphNodes
<1>2. CASE n = "waiting"
  <2>1. c.at = "interrupt" /\ c.channels = ch
      BY <1>2
  <2> QED BY <1>2, <2>1 DEF FlowCheckpoint, Flow!Checkpoint, GraphNodes
<1>3. CASE n = "done"
  <2>1. c.at = "end"
      BY <1>3
  <2> QED BY <1>3, <2>1 DEF FlowCheckpoint, Flow!Checkpoint, GraphNodes
<1>4. CASE n \notin GraphNodes /\ n # "waiting" /\ n # "done"
    BY <1>4
<1> QED BY <1>1, <1>2, <1>3, <1>4

(* A node that ends is a step of the flow's handler.                       *)
LEMMA MapLeave ==
    ASSUME GraphInv, NEW w \in Workers, NEW n, NEW ch, Leave(w, n, ch),
           node[w] # "idle", n # "idle"
    PROVE  Flow!Advance(w, FlowSession(n, ch), FlowCheckpoint(cp'))
<1>1. FlowSessions' = [FlowSessions EXCEPT ![w] = FlowSession(n, ch)] /\ FlowRuns' = FlowRuns
  <2>1. node' = [node EXCEPT ![w] = n] /\ channels' = [channels EXCEPT ![w] = ch]
      BY DEF Leave
  <2> QED BY <2>1, MapSessions, MapRuns, Zenon
<1>2. row' = row /\ db' = db /\ faults' = faults
    BY DEF Leave
<1> QED BY <1>1, <1>2 DEF Flow!Advance, Flow!queue, FlowSessions, FlowRuns

LEMMA MapReach ==
    ASSUME GraphInv, NEW w \in Workers, NEW n \in GraphNodes, NEW ch, Leave(w, n, ch),
           node[w] \in GraphNodes,
           \A d \in Drafts : ids'[d] = "proposed" <=> ids[d] = "proposed"
    PROVE  Flow!ReachNode(w)
<1>1. n # "idle" /\ node[w] # "idle"
    BY DEF GraphNodes
<1>2. /\ FlowSessions[w] = FlowSession(n, ch) /\ FlowSessions[w].step = "graph"
  <2>1. FlowSessions[w] = FlowSession(node[w], channels[w])
      BY MapAt
  <2>2. FlowSession(node[w], channels[w]) = SesGraph /\ FlowSession(n, ch) = SesGraph
      BY SesFacts, Zenon
  <2> QED BY <2>1, <2>2, SesFields
<1>3. FlowCheckpoint(cp') = Flow!Checkpoint("running", NoDraft, NoDraft)
    BY MapCheckpoint DEF Leave
<1>4. Flow!Advance(w, FlowSessions[w], Flow!Checkpoint("running", NoDraft, NoDraft))
    BY <1>1, <1>2, <1>3, MapLeave
<1>5. {d \in Drafts : ids'[d] = "proposed"} = {d \in Drafts : ids[d] = "proposed"}
    OBVIOUS
<1> QED BY <1>2, <1>4, <1>5 DEF Flow!ReachNode, FlowSessions

LEMMA MapConfirmTask == ASSUME GraphInv, ConfirmTask PROVE Flow!ConfirmTask
<1> DEFINE rows == [i \in FlowItems |-> IF i = FlowRow THEN row ELSE "absent"]
           rows2 == [i \in FlowItems |-> IF i = FlowRow THEN row' ELSE "absent"]
<1>1. rows[FlowRow] = "absent" /\ rows2 = [rows EXCEPT ![FlowRow] = "open"]
    BY MapItems DEF ConfirmTask
<1>2. Flow!Queue!Enqueue(Flow!DispatchRow)
    BY <1>1, MapItems DEF Flow!Queue!Enqueue, ConfirmTask
<1> QED BY <1>2 DEF Flow!ConfirmTask, ConfirmTask

LEMMA MapBegin == ASSUME GraphInv, NEW w \in Workers, Begin(w) PROVE Flow!Begin(w)
<1>1. node' = [node EXCEPT ![w] = "start"] /\ channels' = [channels EXCEPT ![w] = channels[w]]
    BY RunFacts DEF Begin
<1>2. /\ FlowSessions' = [FlowSessions EXCEPT ![w] = FlowSession("start", channels[w])]
      /\ FlowRuns' = [FlowRuns EXCEPT ![w] = FlowRow] /\ FlowRuns[w] = NoDraft
      /\ FlowSessions[w] = FlowSession("idle", channels[w])
  <2>1. node[w] = "idle"
      BY DEF Begin
  <2>2. FlowSessions' = [FlowSessions EXCEPT ![w] = FlowSession("start", channels[w])]
      BY <1>1, MapSessions, Zenon
  <2>3. FlowRuns' = [FlowRuns EXCEPT ![w] = FlowRow]
    <3>1. "start" # "idle"
        OBVIOUS
    <3> QED BY <1>1, <3>1, MapRuns, Zenon
  <2> QED BY <2>1, <2>2, <2>3, MapAt
<1>3. FlowSessions' = [FlowSessions EXCEPT ![w].step = "begun"]
  <2>1. [FlowSessions[w] EXCEPT !.step = "begun"] = FlowSession("start", channels[w])
    <3>1. FlowSession("idle", channels[w]) = Ses("idle", NoDraft, "none")
          /\ FlowSession("start", channels[w]) = SesBegun
        BY SesFacts, Zenon
    <3> QED BY <1>2, <3>1, SesMoves
  <2> QED BY <1>2, <2>1
<1>4. Flow!Queue!Start(w, FlowRow)
    BY <1>2, MapItems DEF Flow!Queue!Start, Begin, FlowRuns
<1> QED BY <1>3, <1>4, MapItems DEF Flow!Begin, Begin, FlowSessions

LEMMA MapEnter == ASSUME GraphInv, NEW w \in Workers, ReceiveInput(w) PROVE Flow!EnterGraph(w)
<1> DEFINE ch == cp.channels
<1>1. Leave(w, "plan", ch) /\ node[w] = "start" /\ ids' = ids /\ "plan" \in GraphNodes
    BY DEF ReceiveInput, GraphNodes, Nodes
<1>2. FlowCheckpoint(cp') = Flow!Checkpoint("running", NoDraft, NoDraft)
    BY <1>1, MapCheckpoint DEF Leave
<1> HIDE DEF ch
<1>3. /\ FlowSessions[w] = SesBegun /\ FlowRuns[w] = FlowRow
      /\ FlowSession("plan", ch) = SesGraph
    BY <1>1, MapAt, SesFacts
<1>4. /\ FlowSessions[w].step = "begun"
      /\ FlowSession("plan", ch) = [FlowSessions[w] EXCEPT !.step = "graph"]
    BY <1>3, SesMoves, SesFields
<1>5. Flow!Advance(w, FlowSession("plan", ch), FlowCheckpoint(cp'))
    BY <1>1, MapLeave
<1>6. Flow!Advance(w, [FlowSessions[w] EXCEPT !.step = "graph"], Flow!Checkpoint("running", NoDraft, NoDraft))
    BY <1>2, <1>4, <1>5
<1> QED BY <1>1, <1>3, <1>4, <1>6, MapItems DEF Flow!EnterGraph, FlowSessions, FlowRuns

LEMMA MapEnd == ASSUME GraphInv, NEW w \in Workers, RecordRun(w) PROVE Flow!EndWithoutProposal(w)
<1>1. Leave(w, "done", channels[w]) /\ node[w] = "record" /\ ids' = ids /\ "record" \in GraphNodes
    BY DEF RecordRun, GraphNodes, Nodes
<1>2. FlowCheckpoint(cp') = Flow!Checkpoint("end", NoDraft, NoDraft)
    BY <1>1, MapCheckpoint DEF Leave
<1>3. /\ FlowSessions[w] = SesGraph
      /\ FlowSession("done", channels[w]) = SesDone
    BY <1>1, MapAt, SesFacts
<1>4. /\ FlowSessions[w].step = "graph"
      /\ FlowSession("done", channels[w]) = [FlowSessions[w] EXCEPT !.step = "done"]
    BY <1>3, SesMoves, SesFields
<1>5. Flow!Advance(w, FlowSession("done", channels[w]), FlowCheckpoint(cp'))
    BY <1>1, MapLeave
<1>6. Flow!Advance(w, [FlowSessions[w] EXCEPT !.step = "done"], Flow!Checkpoint("end", NoDraft, NoDraft))
    BY <1>2, <1>4, <1>5
<1> QED BY <1>1, <1>4, <1>6 DEF Flow!EndWithoutProposal, FlowSessions

(* A run that waits has the lock; so no other waits.                       *)
LEMMA MapUnlocked ==
    ASSUME GraphInv, PlaceInv, NEW w \in Workers, session[w].runs # {}
    PROVE  Flow!ThreadUnlocked(w)
<1> SUFFICES ASSUME NEW v \in Workers \ {w} PROVE FlowSession(node[v], channels[v]).mark = "none"
    BY DEF Flow!ThreadUnlocked
<1>1. node[v] # "waiting"
    BY OthersEarly
<1> QED BY <1>1 DEF FlowSession

LEMMA MapPropose ==
    ASSUME GraphInv, PlaceInv, NEW w \in Workers, ProposeAction(w)
    PROVE  \E p \in FlowProps : Flow!Propose(w, p)
<1> DEFINE ch == channels[w]
           ps == [q \in FlowProps |-> FlowStatus(db.proposals, q)]
<1>1. /\ node[w] = "interrupt" /\ Leave(w, "waiting", ch) /\ "interrupt" \in GraphNodes
      /\ ids' = [ids EXCEPT ![ch.draft.id] = "proposed"]
    BY DEF ProposeAction, GraphNodes, Nodes
<1>2. /\ RunOK("interrupt", ch, agents[w], session[w])
      /\ PlaceOK("interrupt", ch, agents[w], session[w], ids)
    BY <1>1, RunFacts DEF PlaceInv
<1>3. PICK p \in Drafts : p = ch.draft.id
    BY <1>2 DEF RunOK, Drafted, DraftSet
<1>4. session[w].runs # {} /\ ids[p] = "drafted"
    BY <1>2, <1>3 DEF PlaceOK
<1>5. p \in FlowProps /\ ps[p] = "absent"
    BY <1>4 DEF PlaceInv, MintedOK, FlowStatus, FlowProps
<1>6. /\ p \notin {d \in Drafts : ids[d] = "proposed"}
      /\ {d \in Drafts : ids'[d] = "proposed"} = {d \in Drafts : ids[d] = "proposed"} \cup {p}
    BY <1>1, <1>3, <1>4 DEF GraphInv, SharedOK
<1>7. Flow!ThreadUnlocked(w)
    BY <1>4, MapUnlocked
<1>8. FlowCheckpoint(cp') = Flow!Checkpoint("interrupt", p, NoDraft)
    BY <1>1, <1>3, MapCheckpoint DEF Leave
<1> HIDE DEF ch
<1>9. FlowSessions[w] = SesGraph /\ FlowRuns[w] = FlowRow /\ FlowSessions[w].step = "graph"
      /\ FlowSession("waiting", ch) = Ses("done", p, "pending")
    BY <1>1, <1>3, MapAt, SesFacts, SesFields
<1>10. FlowSession("waiting", ch) = [FlowSessions[w] EXCEPT !.step = "done", !.prop = p,
                                       !.mark = IF ps[p] = "absent" THEN "pending" ELSE "none"]
  <2>1. (IF ps[p] = "absent" THEN "pending" ELSE "none") = "pending"
      BY <1>5
  <2>2. [SesGraph EXCEPT !.step = "done", !.prop = p, !.mark = "pending"] = Ses("done", p, "pending")
      BY SesPropose, Zenon
  <2> HIDE DEF ps
  <2> QED BY <1>9, <2>1, <2>2
<1>11. Flow!Advance(w, FlowSession("waiting", ch), FlowCheckpoint(cp'))
  <2>1. node[w] # "idle" /\ "waiting" # "idle"
      BY <1>1
  <2> QED BY <1>1, <2>1, MapLeave, Zenon
<1>12. Flow!Advance(w, [FlowSessions[w] EXCEPT !.step = "done", !.prop = p,
                           !.mark = IF ps[p] = "absent" THEN "pending" ELSE "none"],
                    Flow!Checkpoint("interrupt", p, NoDraft))
    BY <1>8, <1>10, <1>11
<1>13. Flow!Propose(w, p)
    BY <1>6, <1>7, <1>9, <1>12, MapItems DEF Flow!Propose, FlowSessions, FlowRuns
<1> QED BY <1>5, <1>13

(* The sessions, the queue and the rest of the flow when a run ends.       *)
LEMMA MapForget ==
    ASSUME GraphInv, NEW w \in Workers, Forget(w), node[w] # "idle"
    PROVE  /\ FlowSessions' = [FlowSessions EXCEPT ![w] = Flow!NoSession]
           /\ FlowRuns' = [FlowRuns EXCEPT ![w] = NoDraft]
           /\ FlowRuns[w] = FlowRow /\ FlowRuns[w] # NoDraft
           /\ ids' = ids /\ cp' = cp
<1>1. node' = [node EXCEPT ![w] = "idle"] /\ channels' = [channels EXCEPT ![w] = Fresh]
      /\ ids' = ids /\ cp' = cp
    BY DEF Forget
<1>2. FlowSession("idle", Fresh) = Flow!NoSession
    BY SesFacts DEF Flow!NoSession, Ses
<1>3. FlowSessions' = [FlowSessions EXCEPT ![w] = FlowSession("idle", Fresh)]
    BY <1>1, MapSessions, Zenon
<1>4. FlowRuns' = [FlowRuns EXCEPT ![w] = NoDraft]
    BY <1>1, MapRuns, Zenon
<1>5. FlowRuns[w] = FlowRow /\ FlowRuns[w] # NoDraft
    BY MapAt, FlowAssumption
<1> QED BY <1>1, <1>2, <1>3, <1>4, <1>5

FlowRows == [i \in FlowItems |-> IF i = FlowRow THEN row ELSE "absent"]

LEMMA MapSettle ==
    ASSUME GraphInv, NEW w \in Workers, Forget(w), node[w] # "idle", NEW outcome, row' = outcome
    PROVE  Flow!Queue!Settle(w, outcome, {})
<1>1. FlowRows' = [i \in FlowItems |-> IF i = FlowRuns[w] THEN outcome
                      ELSE IF i \in {} THEN "open" ELSE FlowRows[i]]
    BY MapForget DEF FlowRows
<1> QED BY <1>1, MapForget, MapItems DEF Flow!Queue!Settle, FlowRuns, FlowRows

LEMMA MapFault ==
    ASSUME GraphInv, NEW w \in Workers, AgentFails(w) \/ Crash(w) PROVE Flow!Fault(w)
<1>1. /\ Forget(w) /\ node[w] # "idle" /\ faults < MaxFaults /\ faults' = faults + 1 /\ db' = db
    BY DEF AgentFails, Crash
<1>2. /\ FlowSessions' = [FlowSessions EXCEPT ![w] = Flow!NoSession] /\ ids' = ids /\ cp' = cp
    BY <1>1, MapForget
<1>3. Flow!Queue!Abandon(w) \/ Flow!Queue!Settle(w, "open", {})
  <2>1. CASE AgentFails(w)
      BY <1>1, <2>1, MapSettle DEF AgentFails
  <2>2. CASE Crash(w)
      BY <1>1, <2>2, MapForget DEF Crash, Flow!Queue!Abandon, FlowRuns
  <2> QED BY <2>1, <2>2
<1>4. FlowSessions[w].step # "idle"
  <2>1. FlowStep(node[w]) # "idle"
      BY <1>1, RunFacts DEF FlowStep, Nodes
  <2>2. FlowSessions[w] = FlowSession(node[w], channels[w])
      BY MapAt
  <2> QED BY <2>1, <2>2 DEF FlowSession
<1> QED BY <1>1, <1>2, <1>3, <1>4 DEF Flow!Fault, FlowSessions

LEMMA MapCommit ==
    ASSUME GraphInv, PlaceInv, NEW w \in Workers, Commit(w) PROVE Flow!Commit(w)
<1> DEFINE s == FlowSessions[w]
           old == [p \in FlowProps |-> FlowStatus(db.proposals, p)]
<1>1. /\ Forget(w) /\ node[w] # "idle" /\ row' = "succeeded" /\ faults' = faults
      /\ db'.proposals = db.proposals \cup session[w].proposals
      /\ node[w] \in {"waiting", "done"}
    BY DEF Commit, Merge
<1>2. /\ FlowSessions' = [FlowSessions EXCEPT ![w] = Flow!NoSession] /\ ids' = ids /\ cp' = cp
      /\ FlowRuns[w] = FlowRow
    BY <1>1, MapForget
<1>3. s = FlowSession(node[w], channels[w]) /\ s.step = "done" /\ s.mark \in {"none", "pending"}
  <2>1. s = FlowSession(node[w], channels[w])
      BY MapAt
  <2> QED BY <1>1, <2>1 DEF FlowSession, FlowStep
<1>4. Flow!Queue!Settle(w, "succeeded", {})
    BY <1>1, MapSettle
<1>5. [p \in FlowProps |-> FlowStatus(db'.proposals, p)]
        = [p \in FlowProps |-> IF s.mark # "none" /\ p = s.prop THEN s.mark ELSE old[p]]
  <2>1. PlaceOK(node[w], channels[w], agents[w], session[w], ids)
      BY DEF PlaceInv
  <2>2. CASE node[w] = "done"
    <3>1. session[w].proposals = {} /\ s.mark = "none"
        BY <1>3, <2>1, <2>2 DEF PlaceOK, FlowSession
    <3> QED BY <1>1, <3>1
  <2>3. CASE node[w] = "waiting"
    <3>1. s.mark = "pending" /\ s.prop = channels[w].draft.id
        BY <1>3, <2>3 DEF FlowSession
    <3>2. session[w].proposals = {[draft |-> channels[w].draft, review |-> channels[w].review]}
        BY <2>1, <2>3 DEF PlaceOK
    <3> HIDE DEF s
    <3>3. ASSUME NEW p \in FlowProps
          PROVE  FlowStatus(db'.proposals, p) = IF p = s.prop THEN "pending" ELSE old[p]
      <4>1. (\E q \in db'.proposals : q.draft.id = p)
              <=> (\E q \in db.proposals : q.draft.id = p) \/ p = s.prop
        <5> DEFINE x == [draft |-> channels[w].draft, review |-> channels[w].review]
        <5>1. x.draft.id = s.prop
            BY <3>1
        <5>2. db'.proposals = db.proposals \cup {x}
            BY <1>1, <3>2
        <5> HIDE DEF x
        <5> QED BY <5>1, <5>2
      <4> QED BY <4>1 DEF FlowStatus
    <3> QED BY <3>1, <3>3
  <2> QED BY <1>1, <2>2, <2>3
<1>6. \A p : FlowRuns[w] # Flow!BitableRow(p)
    BY <1>2 DEF FlowRow, Flow!BitableRow
<1> DEFINE new == IF s.mark = "approved" /\ FlowRows[Flow!BitableRow(s.prop)] = "absent"
                  THEN {Flow!BitableRow(s.prop)} ELSE {}
<1>7. new = {}
    BY <1>3
<1>8. Flow!Queue!Settle(w, "succeeded", new)
    BY <1>4, <1>7 DEF Flow!Queue!Settle
<1>9. [p \in FlowProps |-> NoDraft]
         = [p \in FlowProps |-> IF Flow!BitableRow(p) \in new THEN s.answer
                                ELSE [q \in FlowProps |-> NoDraft][p]]
    BY <1>7
<1>10. [p \in FlowProps |-> FALSE]
         = [p \in FlowProps |-> [q \in FlowProps |-> FALSE][p] \/ FlowRuns[w] = Flow!BitableRow(p)]
    BY <1>6, Zenon
<1> QED BY <1>1, <1>2, <1>3, <1>5, <1>8, <1>9, <1>10 DEF Flow!Commit, FlowSessions, FlowRuns, FlowRows

(* What the flow does not see: the steps of an agent run.                  *)
LEMMA MapQuiet ==
    ASSUME UNCHANGED <<row, node, channels, cp, db, ids, faults>> PROVE UNCHANGED Flow!vars
BY DEF Flow!vars

LEMMA MapNodes ==
    ASSUME GraphInv, NEW w \in Workers,
           \/ CreatePlan(w) \/ DispatchFromCouncil(w) \/ AskUser(w)
           \/ \E size \in Sizes : SynthesizeDecision(w, size)
           \/ \E id \in Drafts, x \in Writings, size \in Sizes : CreateDraft(w, NewDraft(id, x, size))
           \/ ReviewDraft(w) \/ RepairDraft(w)
    PROVE  Flow!ReachNode(w)
<1>1. \E n \in GraphNodes : \E ch :
         /\ Leave(w, n, ch) /\ node[w] \in GraphNodes
         /\ \A d \in Drafts : ids'[d] = "proposed" <=> ids[d] = "proposed"
  <2> USE DEF GraphNodes, Nodes
  <2>1. CASE CreatePlan(w)
      BY <2>1 DEF CreatePlan
  <2>2. CASE DispatchFromCouncil(w)
      BY <2>2 DEF DispatchFromCouncil
  <2>3. CASE AskUser(w)
      BY <2>3 DEF AskUser
  <2>4. CASE \E size \in Sizes : SynthesizeDecision(w, size)
      BY <2>4 DEF SynthesizeDecision
  <2>5. ASSUME NEW id \in Drafts, NEW x \in Writings, NEW size \in Sizes,
               CreateDraft(w, NewDraft(id, x, size))
        PROVE  \E n \in GraphNodes : \E ch :
                  /\ Leave(w, n, ch) /\ node[w] \in GraphNodes
                  /\ \A d \in Drafts : ids'[d] = "proposed" <=> ids[d] = "proposed"
    <3>1. ids[id] = "unused" /\ ids' = [ids EXCEPT ![id] = "drafted"]
        BY <2>5, NewDraftOK DEF CreateDraft
    <3>2. \A d \in Drafts : ids'[d] = "proposed" <=> ids[d] = "proposed"
        BY <3>1 DEF GraphInv, SharedOK
    <3> QED BY <2>5, <3>2 DEF CreateDraft
  <2>6. CASE ReviewDraft(w)
      BY <2>6 DEF ReviewDraft, RouteFromReview
  <2>7. CASE RepairDraft(w)
      BY <2>7 DEF RepairDraft
  <2> QED BY <2>1, <2>2, <2>3, <2>4, <2>5, <2>6, <2>7
<1> QED BY <1>1, MapReach

LEMMA MapNext == GraphInv /\ PlaceInv /\ [Next]_vars => [Flow!Next]_(Flow!vars)
<1> SUFFICES ASSUME GraphInv, PlaceInv, [Next]_vars PROVE [Flow!Next]_(Flow!vars)
    OBVIOUS
<1>1. CASE ConfirmTask
    BY <1>1, MapConfirmTask DEF Flow!Next
<1>2. ASSUME NEW w \in Workers, GraphStep(w) PROVE Flow!HandlerStep(w) \/ UNCHANGED Flow!vars
  <2>1. CASE Begin(w)
      BY <2>1, MapBegin DEF Flow!HandlerStep
  <2>2. CASE ReceiveInput(w)
      BY <2>2, MapEnter DEF Flow!HandlerStep
  <2>3. CASE \/ CreatePlan(w) \/ DispatchFromCouncil(w) \/ AskUser(w)
             \/ \E size \in Sizes : SynthesizeDecision(w, size)
             \/ \E id \in Drafts, x \in Writings, size \in Sizes : CreateDraft(w, NewDraft(id, x, size))
             \/ ReviewDraft(w) \/ RepairDraft(w)
      BY <2>3, MapNodes DEF Flow!HandlerStep
  <2>4. CASE StartAgent(w) \/ CallAgain(w) \/ \E size \in Sizes : CollectOpinion(w, size)
      BY <2>4, MapQuiet DEF StartAgent, CallAgain, CollectOpinion
  <2>5. CASE ProposeAction(w)
      BY <2>5, MapPropose DEF Flow!HandlerStep
  <2>6. CASE RecordRun(w)
      BY <2>6, MapEnd DEF Flow!HandlerStep
  <2>7. CASE Commit(w)
      BY <2>7, MapCommit DEF Flow!HandlerStep
  <2> QED BY <1>2, <2>1, <2>2, <2>3, <2>4, <2>5, <2>6, <2>7 DEF GraphStep
<1>3. ASSUME NEW w \in Workers, AgentFails(w) \/ Crash(w) PROVE Flow!Fault(w)
    BY <1>3, MapFault
<1>4. CASE UNCHANGED vars
    BY <1>4, MapQuiet DEF vars
<1> QED BY <1>1, <1>2, <1>3, <1>4 DEF Next, Flow!Next

(* Every run of the dispatched graph is a run of the approval flow: what   *)
(* ApprovalFlow assumes of a graph run (one fresh proposal at its          *)
(* interrupt, made visible only by its commit, one writer per thread, a    *)
(* rollback on every failure) is what war_room.py's nodes do.              *)
THEOREM GraphImplementsFlow == Spec => ImplementsFlow
<1>1. Spec => [](GraphInv /\ PlaceInv)
  <2>1. Spec => []PlaceInv
      BY InitPlaceInv, NextKeepsPlaceInv, GraphInvariant, PTL DEF Spec
  <2> QED BY <2>1, GraphInvariant, PTL
<1> QED BY <1>1, MapInit, MapNext, PTL DEF Spec, ImplementsFlow, Flow!Spec

-----------------------------------------------------------------------------
(* How many steps a run at node n may still take: one repair at most, one  *)
(* business agent, at most seven opinions, and for each agent its start,   *)
(* two repeated calls at most and its artifact.                            *)
NodesLeft == [start |-> 42, plan |-> 41, council |-> 12, dispatch |-> 11, business |-> 6,
              repair |-> 5, interrupt |-> 3, ask |-> 3, record |-> 2, waiting |-> 1,
              done |-> 1, idle |-> 0]

StepsLeft(n, ch, a) ==
    IF n \in {"council", "business"} THEN NodesLeft[n] + 4 * a.left - a.calls
    ELSE IF n = "review" THEN IF ch.attempts = 0 THEN 6 ELSE 4
    ELSE NodesLeft[n]

RunLeft(w) == StepsLeft(node[w], channels[w], agents[w])

(* No step of any worker puts off the end of a run, and a step of the run  *)
(* itself brings it nearer.                                                *)
RunGoesOn(w) ==
    node[w] # "idle" => /\ RunLeft(w)' <= RunLeft(w)
                        /\ GraphStep(w) => RunLeft(w)' < RunLeft(w)

(* What is left of a run is a number of at most 42 steps.                  *)
LEMMA StepsLeftBound ==
    ASSUME NEW n \in Nodes, NEW ch, NEW a \in Agents, NEW rows, RunOK(n, ch, a, rows)
    PROVE  /\ StepsLeft(n, ch, a) \in 0..42
           /\ n = "idle" <=> StepsLeft(n, ch, a) = 0
<1>1. a.left \in 0..7 /\ a.calls \in 0..3 /\ (a.calls > 0 => a.left > 0)
    BY DEF Agents, RunOK
<1> QED BY <1>1 DEF StepsLeft, NodesLeft, Nodes

(* The run's own part of the state, before and after a step of it.         *)
LEMMA RunMoves ==
    ASSUME GraphInv, NEW w \in Workers,
           NEW n, NEW ch, NEW a,
           node' = [node EXCEPT ![w] = n], channels' = [channels EXCEPT ![w] = ch],
           agents' = [agents EXCEPT ![w] = a]
    PROVE  /\ RunLeft(w)' = StepsLeft(n, ch, a)
           /\ \A v \in Workers \ {w} : RunLeft(v)' = RunLeft(v)
BY DEF GraphInv, RunsOK, RunLeft

(* An opinion or a draft in the making: each call counts, and an artifact  *)
(* makes up for the calls that were not needed.                            *)
LEMMA AgentStepsLeft ==
    ASSUME GraphInv, NEW w \in Workers
    PROVE  /\ StartAgent(w) \/ CallAgain(w) \/ (\E size \in Sizes : CollectOpinion(w, size))
                 => RunLeft(w)' < RunLeft(w)
           /\ StartAgent(w) \/ CallAgain(w) \/ (\E size \in Sizes : CollectOpinion(w, size))
                 => \A v \in Workers \ {w} : RunLeft(v)' = RunLeft(v)
<1> DEFINE n == node[w]
           ch == channels[w]
           a == agents[w]
<1>1. /\ a.left \in 0..7 /\ a.calls \in 0..3
      /\ a.calls > 0 => n \in {"council", "business"} /\ a.left > 0
      /\ a \in Agents
    BY RunFacts DEF Agents, RunOK
<1>2. node = [node EXCEPT ![w] = n] /\ channels = [channels EXCEPT ![w] = ch]
    BY RunFacts
<1>3. ASSUME NEW b, agents' = [agents EXCEPT ![w] = b], UNCHANGED <<node, channels>>
      PROVE  /\ RunLeft(w)' = StepsLeft(n, ch, b)
             /\ \A v \in Workers \ {w} : RunLeft(v)' = RunLeft(v)
  <2>1. node' = [node EXCEPT ![w] = n] /\ channels' = [channels EXCEPT ![w] = ch]
      BY <1>2, <1>3
  <2> HIDE DEF n, ch
  <2> QED BY <1>3, <2>1, RunMoves
<1>4. ASSUME NEW b, b.left \in 0..7, b.calls \in 0..3,
             n \in {"council", "business"}, 4 * b.left - b.calls < 4 * a.left - a.calls
      PROVE  StepsLeft(n, ch, b) < StepsLeft(n, ch, a)
    BY <1>1, <1>4 DEF StepsLeft, NodesLeft
<1>5. RunLeft(w) = StepsLeft(n, ch, a)
    BY DEF RunLeft
<1>6. ASSUME StartAgent(w) PROVE RunLeft(w)' < RunLeft(w) /\ \A v \in Workers \ {w} : RunLeft(v)' = RunLeft(v)
  <2> DEFINE b == [a EXCEPT !.calls = 1]
  <2>1. agents' = [agents EXCEPT ![w] = b] /\ UNCHANGED <<node, channels>>
        /\ n \in {"council", "business"} /\ a.calls = 0
      BY <1>6 DEF StartAgent, InMemory
  <2>2. b.left = a.left /\ b.calls = 1
      BY <1>1 DEF Agents
  <2> HIDE DEF n, ch, a, b
  <2>3. StepsLeft(n, ch, b) < StepsLeft(n, ch, a)
      BY <1>1, <1>4, <2>1, <2>2
  <2> QED BY <1>3, <1>5, <2>1, <2>3
<1>7. ASSUME CallAgain(w) PROVE RunLeft(w)' < RunLeft(w) /\ \A v \in Workers \ {w} : RunLeft(v)' = RunLeft(v)
  <2> DEFINE b == [a EXCEPT !.calls = @ + 1]
  <2>0. request \in Inputs
      BY DEF GraphInv, SharedOK
  <2>1. agents' = [agents EXCEPT ![w] = b] /\ UNCHANGED <<node, channels>>
        /\ a.calls \in 1..2
      BY <1>1, <1>7, <2>0, ModeOK DEF CallAgain, InMemory
  <2>2. b.left = a.left /\ b.calls = a.calls + 1
      BY <1>1 DEF Agents
  <2> HIDE DEF n, ch, a, b
  <2>3. StepsLeft(n, ch, b) < StepsLeft(n, ch, a)
      BY <1>1, <1>4, <2>1, <2>2
  <2> QED BY <1>3, <1>5, <2>1, <2>3
<1>8. ASSUME NEW size \in Sizes, CollectOpinion(w, size)
      PROVE  RunLeft(w)' < RunLeft(w) /\ \A v \in Workers \ {w} : RunLeft(v)' = RunLeft(v)
  <2> DEFINE b == [left |-> a.left - 1, calls |-> 0, tokens |-> Capped(a.tokens + size)]
  <2>1. agents' = [agents EXCEPT ![w] = b] /\ UNCHANGED <<node, channels>>
        /\ a.calls > 0
      BY <1>8 DEF CollectOpinion, InMemory
  <2>2. b.left = a.left - 1 /\ b.calls = 0
      OBVIOUS
  <2> HIDE DEF n, ch, a, b
  <2>3. StepsLeft(n, ch, b) < StepsLeft(n, ch, a)
      BY <1>1, <1>4, <2>1, <2>2
  <2> QED BY <1>3, <1>5, <2>1, <2>3
<1> QED BY <1>6, <1>7, <1>8

(* A node that ends hands over to one with less before it.                 *)
LEMMA NodeStepsLeft ==
    ASSUME GraphInv, NEW w \in Workers, node[w] # "idle", GraphStep(w),
           ~ (StartAgent(w) \/ CallAgain(w) \/ \E size \in Sizes : CollectOpinion(w, size))
    PROVE  /\ RunLeft(w)' < RunLeft(w)
           /\ \A v \in Workers \ {w} : RunLeft(v)' = RunLeft(v)
<1> DEFINE n == node[w]
           ch == channels[w]
           a == agents[w]
           Down == RunLeft(w)' < RunLeft(w) /\ \A v \in Workers \ {w} : RunLeft(v)' = RunLeft(v)
<1>1. /\ a.left \in 0..7 /\ a.calls \in 0..3 /\ ch.attempts \in 0..1
      /\ a.calls > 0 => n \in {"council", "business"} /\ a.left > 0
      /\ a \in Agents /\ ch \in Channels
    BY RunFacts DEF Agents, RunOK, Channels
<1>2. agents = [agents EXCEPT ![w] = a]
    BY RunFacts
<1>3. RunLeft(w) = StepsLeft(n, ch, a)
    BY DEF RunLeft
<1>4. ASSUME NEW m, NEW c, NEW b,
             node' = [node EXCEPT ![w] = m], channels' = [channels EXCEPT ![w] = c],
             agents' = [agents EXCEPT ![w] = b],
             StepsLeft(m, c, b) < StepsLeft(n, ch, a)
      PROVE  Down
  <2> HIDE DEF n, ch, a
  <2> QED BY <1>3, <1>4, RunMoves
<1>5. ASSUME ReceiveInput(w) PROVE Down
  <2>1. PICK c : c = cp.channels
      OBVIOUS
  <2>2. /\ node' = [node EXCEPT ![w] = "plan"] /\ channels' = [channels EXCEPT ![w] = c]
        /\ agents' = [agents EXCEPT ![w] = a] /\ n = "start"
      BY <1>2, <1>5, <2>1 DEF ReceiveInput, Leave
  <2>3. StepsLeft("plan", c, a) < StepsLeft(n, ch, a)
      BY <2>2 DEF StepsLeft, NodesLeft
  <2> HIDE DEF n, ch, a, Down
  <2> QED BY <1>4, <2>2, <2>3
<1>6. ASSUME CreatePlan(w) PROVE Down
  <2> DEFINE mode == CouncilMode(request.text)
             c == [ch EXCEPT !.mode = mode]
             b == [NoAgent EXCEPT !.left = CouncilSize[mode]]
  <2>1. /\ node' = [node EXCEPT ![w] = "council"] /\ channels' = [channels EXCEPT ![w] = c]
        /\ agents' = [agents EXCEPT ![w] = b] /\ n = "plan"
      BY <1>6 DEF CreatePlan, Leave
  <2>2. request \in Inputs
      BY DEF GraphInv, SharedOK
  <2>3. b.left \in 1..7 /\ b.calls = 0
      BY <2>2, ModeOK DEF NoAgent
  <2>4. StepsLeft("council", c, b) < StepsLeft(n, ch, a)
      BY <2>1, <2>3 DEF StepsLeft, NodesLeft
  <2> HIDE DEF n, ch, a, Down, c, b
  <2> QED BY <1>4, <2>1, <2>4
<1>7. ASSUME NEW size \in Sizes, SynthesizeDecision(w, size) PROVE Down
  <2> DEFINE c == AfterCouncil(ch, a.tokens + size)
  <2>1. /\ node' = [node EXCEPT ![w] = "dispatch"] /\ channels' = [channels EXCEPT ![w] = c]
        /\ agents' = [agents EXCEPT ![w] = NoAgent] /\ n = "council" /\ a.left = 0
      BY <1>7 DEF SynthesizeDecision, Leave
  <2>2. StepsLeft("dispatch", c, NoAgent) < StepsLeft(n, ch, a)
      BY <1>1, <2>1 DEF StepsLeft, NodesLeft
  <2> HIDE DEF n, ch, a, Down, c
  <2> QED BY <1>4, <2>1, <2>2
<1>8. ASSUME DispatchFromCouncil(w) PROVE Down
  <2> DEFINE m == IF ch.asks THEN "ask" ELSE "business"
             b == [a EXCEPT !.left = IF ch.asks THEN 0 ELSE 1]
  <2>1. /\ node' = [node EXCEPT ![w] = m] /\ channels' = [channels EXCEPT ![w] = ch]
        /\ agents' = [agents EXCEPT ![w] = b] /\ n = "dispatch"
      BY <1>8 DEF DispatchFromCouncil, Leave
  <2>2. b.left \in 0..1 /\ b.calls = a.calls
      BY <1>1 DEF Agents
  <2>3. m \in {"ask", "business"}
      OBVIOUS
  <2> HIDE DEF m, b
  <2>4. StepsLeft(m, ch, b) < StepsLeft(n, ch, a)
      BY <1>1, <2>1, <2>2, <2>3 DEF StepsLeft, NodesLeft
  <2> HIDE DEF n, ch, a, Down
  <2> QED BY <1>4, <2>1, <2>4
<1>9. ASSUME NEW m, node' = [node EXCEPT ![w] = m], channels' = [channels EXCEPT ![w] = ch],
             UNCHANGED agents, NodesLeft[m] < NodesLeft[n],
             m \in {"record", "waiting", "done"}, n \in {"ask", "interrupt", "record"}
      PROVE  Down
  <2>1. StepsLeft(m, ch, a) < StepsLeft(n, ch, a)
      BY <1>9 DEF StepsLeft
  <2>2. agents' = [agents EXCEPT ![w] = a]
      BY <1>2, <1>9
  <2> HIDE DEF n, ch, a, Down
  <2> QED BY <1>4, <1>9, <2>1, <2>2
<1>10. ASSUME AskUser(w) \/ ProposeAction(w) \/ RecordRun(w) PROVE Down
    BY <1>9, <1>10 DEF AskUser, ProposeAction, RecordRun, Leave, NodesLeft
<1>11. ASSUME NEW id \in Drafts, NEW x \in Writings, NEW size \in Sizes,
              CreateDraft(w, NewDraft(id, x, size))
       PROVE  Down
  <2> DEFINE d == NewDraft(id, x, size)
             c == AfterBusiness(ch, d)
  <2>1. /\ node' = [node EXCEPT ![w] = "review"] /\ channels' = [channels EXCEPT ![w] = c]
        /\ agents' = [agents EXCEPT ![w] = NoAgent] /\ n = "business" /\ a.calls > 0
      BY <1>11 DEF CreateDraft, Leave, InMemory
  <2>2. c.attempts = 0
      BY <1>1, NewDraftOK, AfterBusinessOK
  <2> HIDE DEF c
  <2>3. StepsLeft("review", c, NoAgent) < StepsLeft(n, ch, a)
      BY <1>1, <2>1, <2>2 DEF StepsLeft, NodesLeft
  <2> HIDE DEF n, ch, a, Down
  <2> QED BY <1>4, <2>1, <2>3
<1>12. ASSUME ReviewDraft(w) PROVE Down
  <2> DEFINE f == Findings(ch.draft, ch.tokens)
             r == [id |-> ch.draft.id, version |-> ch.draft.version,
                   status |-> ReviewStatus(f, ch.attempts), findings |-> f]
             m == RouteFromReview(r, ch.attempts)
             c == [ch EXCEPT !.review = r]
  <2>1. /\ node' = [node EXCEPT ![w] = m] /\ channels' = [channels EXCEPT ![w] = c]
        /\ agents' = [agents EXCEPT ![w] = a] /\ n = "review"
      BY <1>2, <1>12 DEF ReviewDraft, Leave
  <2>2. m \in {"repair", "interrupt"} /\ (m = "repair" => ch.attempts = 0)
      BY <1>1 DEF RouteFromReview
  <2> HIDE DEF m, c
  <2>3. StepsLeft(m, c, a) < StepsLeft(n, ch, a)
      BY <1>1, <2>1, <2>2 DEF StepsLeft, NodesLeft
  <2> HIDE DEF n, ch, a, Down
  <2> QED BY <1>4, <2>1, <2>3
<1>13. ASSUME RepairDraft(w) PROVE Down
  <2> DEFINE c == AfterRepair(ch)
  <2>1. /\ node' = [node EXCEPT ![w] = "review"] /\ channels' = [channels EXCEPT ![w] = c]
        /\ agents' = [agents EXCEPT ![w] = a] /\ n = "repair"
      BY <1>2, <1>13 DEF RepairDraft, Leave
  <2>2. Drafted(ch, session[w]) /\ ch.attempts = 0 /\ ch.draft.evidence # "none"
      BY <2>1, RunFacts DEF RunOK
  <2>3. c.attempts = 1
      BY <1>1, <2>2, AfterRepairOK DEF Drafted
  <2> HIDE DEF c
  <2>4. StepsLeft("review", c, a) < StepsLeft(n, ch, a)
      BY <2>1, <2>3 DEF StepsLeft, NodesLeft
  <2> HIDE DEF n, ch, a, Down
  <2> QED BY <1>4, <2>1, <2>4
<1>14. ASSUME Commit(w) PROVE Down
  <2>1. /\ node' = [node EXCEPT ![w] = "idle"] /\ channels' = [channels EXCEPT ![w] = Fresh]
        /\ agents' = [agents EXCEPT ![w] = NoAgent] /\ n \in {"waiting", "done"}
      BY <1>14 DEF Commit, Forget, InMemory
  <2>2. StepsLeft("idle", Fresh, NoAgent) < StepsLeft(n, ch, a)
      BY <2>1 DEF StepsLeft, NodesLeft
  <2> HIDE DEF n, ch, a, Down
  <2> QED BY <1>4, <2>1, <2>2
<1>15. ~ Begin(w)
    BY DEF Begin
<1> HIDE DEF Down
<1>16. Down
    BY <1>5, <1>6, <1>7, <1>8, <1>10, <1>11, <1>12, <1>13, <1>14, <1>15 DEF GraphStep
<1> QED BY <1>16 DEF Down

(* The others' steps leave a run where it is, and a fault ends it.         *)
LEMMA NextGoesOn ==
    ASSUME GraphInv, [Next]_vars, NEW w \in Workers PROVE RunGoesOn(w)
<1> SUFFICES ASSUME node[w] # "idle"
             PROVE  RunLeft(w)' <= RunLeft(w) /\ (GraphStep(w) => RunLeft(w)' < RunLeft(w))
    BY DEF RunGoesOn
<1>1. RunLeft(w) \in 0..42 /\ RunLeft(w) # 0
    BY RunFacts, StepsLeftBound DEF RunLeft
<1>2. ASSUME NEW v \in Workers, GraphStep(v), node[v] # "idle"
      PROVE  RunLeft(v)' < RunLeft(v) /\ \A u \in Workers \ {v} : RunLeft(u)' = RunLeft(u)
    BY <1>2, AgentStepsLeft, NodeStepsLeft
<1>3. ASSUME UNCHANGED <<node, channels, agents>> PROVE RunLeft(w)' = RunLeft(w)
    BY <1>3 DEF RunLeft
<1>4. ASSUME NEW v \in Workers, GraphStep(v), node[v] = "idle" PROVE RunLeft(w)' = RunLeft(w)
  <2>1. agents[v].calls = 0 /\ v # w
    <3>1. RunOK(node[v], channels[v], agents[v], session[v]) /\ agents[v] \in Agents
        BY RunFacts
    <3>2. agents[v].calls \in 0..3
        BY <3>1 DEF Agents
    <3> QED BY <1>4, <3>1, <3>2 DEF RunOK
  <2>2. Begin(v)
      BY <1>4, <2>1 DEF GraphStep, ReceiveInput, CreatePlan, StartAgent, CallAgain, CollectOpinion,
         SynthesizeDecision, DispatchFromCouncil, AskUser, CreateDraft, ReviewDraft, RepairDraft,
         ProposeAction, RecordRun, Commit
  <2>3. node'[w] = node[w] /\ UNCHANGED <<channels, agents>>
      BY <2>1, <2>2 DEF Begin, GraphInv, RunsOK
  <2> QED BY <2>3 DEF RunLeft
<1>5. ASSUME NEW v \in Workers, AgentFails(v) \/ Crash(v) PROVE RunLeft(w)' <= RunLeft(w)
  <2>1. /\ node' = [node EXCEPT ![v] = "idle"] /\ channels' = [channels EXCEPT ![v] = Fresh]
        /\ agents' = [agents EXCEPT ![v] = NoAgent]
      BY <1>5 DEF AgentFails, Crash, Forget, InMemory
  <2>2. /\ RunLeft(v)' = StepsLeft("idle", Fresh, NoAgent)
        /\ \A u \in Workers \ {v} : RunLeft(u)' = RunLeft(u)
      BY <2>1, RunMoves
  <2>3. StepsLeft("idle", Fresh, NoAgent) = 0
      BY DEF StepsLeft, NodesLeft
  <2> QED BY <1>1, <2>2, <2>3
<1>6. RunLeft(w)' <= RunLeft(w)
  <2>1. ASSUME NEW v \in Workers, GraphStep(v) PROVE RunLeft(w)' <= RunLeft(w)
    <3>1. CASE node[v] = "idle"
        BY <1>1, <1>4, <2>1, <3>1
    <3>2. CASE node[v] # "idle" /\ v = w
      <4>1. RunLeft(w)' < RunLeft(w)
          BY <1>2, <2>1, <3>2
      <4>2. GraphInv'
          BY NextKeepsGraphInv
      <4>3. RunLeft(w)' \in 0..42
        <5>1. /\ node'[w] \in Nodes /\ agents'[w] \in Agents
              /\ RunOK(node'[w], channels'[w], agents'[w], session'[w])
            BY <4>2 DEF GraphInv, RunsOK
        <5> QED BY <5>1, StepsLeftBound DEF RunLeft
      <4> QED BY <1>1, <4>1, <4>3
    <3>3. CASE node[v] # "idle" /\ v # w
        BY <1>1, <1>2, <2>1, <3>3
    <3> QED BY <3>1, <3>2, <3>3
  <2>2. CASE ConfirmTask \/ UNCHANGED vars
      BY <1>1, <1>3, <2>2 DEF ConfirmTask, vars
  <2> QED BY <1>5, <2>1, <2>2 DEF Next
<1> QED BY <1>2, <1>6

(* The loops of the graph are bounded whatever the models answer: a run    *)
(* has at most 42 steps before it, none is left exactly when the worker is *)
(* idle, and no step, of whichever worker, makes them more.                *)
THEOREM GraphRunsAreFinite ==
    Spec => /\ []\A w \in Workers : /\ RunLeft(w) \in 0..42
                                    /\ node[w] = "idle" <=> RunLeft(w) = 0
            /\ [][\A w \in Workers : RunGoesOn(w)]_vars
<1> DEFINE Bounded == \A w \in Workers : /\ RunLeft(w) \in 0..42
                                         /\ node[w] = "idle" <=> RunLeft(w) = 0
           AllGoOn == \A w \in Workers : RunGoesOn(w)
<1>1. GraphInv => Bounded
    BY RunFacts, StepsLeftBound DEF RunLeft
<1>2. GraphInv /\ [Next]_vars => [AllGoOn]_vars
    BY NextGoesOn
<1> HIDE DEF Bounded, AllGoOn
<1>3. Spec => []Bounded /\ [][AllGoOn]_vars
    BY <1>1, <1>2, GraphInvariant, PTL DEF Spec
<1> QED BY <1>3 DEF Bounded, AllGoOn

=============================================================================
