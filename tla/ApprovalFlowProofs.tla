-------------------------- MODULE ApprovalFlowProofs --------------------------
(***************************************************************************)
(* Proofs about the approval flow, for any proposals, workers, concurrent  *)
(* requests and number of faults.                                          *)
(***************************************************************************)
EXTENDS ApprovalFlow, TLAPS

(* A row that is being run exists.                                         *)
RunsExist == \A w \in Workers : run[w] # NoItem => row[run[w]] # "absent"

(* A proposal is decided exactly when its resume row exists.               *)
DecidedHasRow == \A p \in Props : row[ResumeRow(p)] # "absent" <=> human[p] # NoAnswer

(* The answer in a checkpoint is the decision of its proposal.             *)
CpOK(c) ==
    c.at = "decided" => c.prop \in Props /\ human[c.prop] # NoAnswer /\ c.answer = human[c.prop]

(* So is the answer a worker is about to execute, and what an open         *)
(* transaction writes follows from it; a proposal about to be inserted is  *)
(* not there yet; a record is only made for an approved proposal.          *)
SessionOK(w, s) ==
    /\ s.step \in {"execute", "loaded"} =>
          s.prop \in Props /\ human[s.prop] # NoAnswer /\ s.answer = human[s.prop]
    /\ s.mark # "none" => s.step = "done" /\ s.prop \in Props
    /\ s.mark # "absent"
    /\ s.mark = "pending" => proposals[s.prop] = "absent"
    /\ s.mark = "approved" => human[s.prop] \in Approving /\ s.answer = human[s.prop]
    /\ s.mark = "rejected" => human[s.prop] = "reject"
    /\ \A p \in Props : s.step = "write" /\ run[w] = BitableRow(p) => proposals[p] = "approved"

CpAgrees == CpOK(cp)

SessionAgrees == \A w \in Workers : SessionOK(w, session[w])

(* The thread row serialises the transactions that write proposals.        *)
OneWriter ==
    \A v, w \in Workers : session[v].mark # "none" /\ session[w].mark # "none" => v = w

(* The queued write carries the decision, and so does the record.          *)
PayloadAgrees ==
    \A p \in Props :
        /\ payload[p] = IF row[BitableRow(p)] = "absent" THEN NoAnswer ELSE human[p]
        /\ records[p] # NoAnswer => proposals[p] = "approved" /\ records[p] = human[p]

FlowInv ==
    /\ TypeOK /\ RunsExist /\ DecidedHasRow /\ CpAgrees /\ SessionAgrees /\ OneWriter
    /\ DecisionHonoured /\ ApprovedIsQueued /\ PayloadAgrees

-----------------------------------------------------------------------------
(* The rows of different kinds and proposals are different rows.           *)
LEMMA RowFacts ==
    /\ DispatchRow \in Items /\ NoItem \notin Items
    /\ \A p \in Props :
          /\ ResumeRow(p) \in Items /\ BitableRow(p) \in Items
          /\ ResumeRow(p) # DispatchRow /\ BitableRow(p) # DispatchRow
          /\ \A q \in Props : /\ ResumeRow(p) # BitableRow(q)
                              /\ ResumeRow(p) = ResumeRow(q) => p = q
                              /\ BitableRow(p) = BitableRow(q) => p = q
BY NoItemAssumption DEF Items, DispatchRow, ResumeRow, BitableRow

(* The answers are not the absence of one, and rejecting is not approving. *)
LEMMA AnswerFacts ==
    /\ NoAnswer \notin Answers /\ NoAnswer \notin Approving /\ "reject" \notin Approving
    /\ Answers = Approving \cup {"reject"} /\ NoProp \notin Props
BY FlowAssumption DEF Answers, Approving

(* Before the task is confirmed nothing is queued, proposed or decided.    *)
LEMMA InitFlowInv == Init => FlowInv
BY RowFacts, AnswerFacts, FlowAssumption
   DEF Init, FlowInv, TypeOK, Queue!QueueTypeOK, Queue!RowStates, Queue!Init, RunsExist,
       DecidedHasRow, CpAgrees, CpOK, SessionAgrees, SessionOK, OneWriter, DecisionHonoured,
       ApprovedIsQueued, PayloadAgrees, Checkpoint, NoSession, Steps, ProposalStates, Sessions,
       Checkpoints

(* A step that leaves the queue and the tables alone and moves one session *)
(* and the checkpoint keeps the invariant when both agree with the tables. *)
LEMMA AdvanceKeeps ==
    ASSUME FlowInv, NEW w \in Workers, NEW s \in Sessions, NEW c \in Checkpoints,
           Advance(w, s, c), minted' \in SUBSET Props, run[w] # NoItem, s.step # "idle",
           SessionOK(w, s), CpOK(c), s.mark # "none" => ThreadUnlocked(w)
    PROVE  FlowInv'
<1> USE DEF Advance, queue
<1>1. session'[w] = s /\ \A v \in Workers \ {w} : session'[v] = session[v]
    BY DEF FlowInv, TypeOK
<1>2. TypeOK'
    BY <1>1 DEF FlowInv, TypeOK, Queue!QueueTypeOK
<1>3. RunsExist' /\ DecidedHasRow' /\ CpAgrees' /\ DecisionHonoured' /\ ApprovedIsQueued' /\ PayloadAgrees'
    BY DEF FlowInv, RunsExist, DecidedHasRow, CpAgrees, CpOK, DecisionHonoured, ApprovedIsQueued,
       PayloadAgrees
<1>4. SessionAgrees'
  <2> SUFFICES ASSUME NEW v \in Workers PROVE SessionOK(v, session[v])'
      BY DEF SessionAgrees
  <2>1. CASE v = w
      BY <1>1, <2>1 DEF SessionOK
  <2>2. CASE v # w
      BY <1>1, <2>2 DEF FlowInv, SessionAgrees, SessionOK
  <2> QED BY <2>1, <2>2
<1>5. OneWriter'
    BY <1>1 DEF FlowInv, OneWriter, ThreadUnlocked
<1> QED BY <1>2, <1>3, <1>4, <1>5 DEF FlowInv

-----------------------------------------------------------------------------
(* Every step keeps FlowInv; one step per action.                          *)
LEMMA NextFlowInv == FlowInv /\ [Next]_vars => FlowInv'
<1> SUFFICES ASSUME FlowInv, [Next]_vars PROVE FlowInv'
    OBVIOUS
<1> USE RowFacts, AnswerFacts, FlowAssumption
<1>0. /\ session \in [Workers -> Sessions] /\ human \in [Props -> Answers \cup {NoAnswer}]
      /\ \A w \in Workers : session[w].step # "idle" => run[w] \in Items /\ run[w] # NoItem
    BY DEF FlowInv, TypeOK, Queue!QueueTypeOK
<1>1. CASE ConfirmTask
    BY <1>1 DEF FlowInv, ConfirmTask, Queue!Enqueue, TypeOK, Queue!QueueTypeOK, Queue!RowStates,
       RunsExist, DecidedHasRow, CpAgrees, CpOK, SessionAgrees, SessionOK, OneWriter, DecisionHonoured,
       ApprovedIsQueued, PayloadAgrees
<1>2. ASSUME NEW c \in Callers, NEW p \in Props, NEW a \in Answers, ReadProposal(c, p, a)
      PROVE  FlowInv'
    BY <1>2 DEF FlowInv, ReadProposal, queue, TypeOK, Queue!QueueTypeOK, RunsExist, DecidedHasRow,
       CpAgrees, CpOK, SessionAgrees, SessionOK, OneWriter, DecisionHonoured, ApprovedIsQueued, PayloadAgrees
<1>3. ASSUME NEW c \in Callers, CommitDecision(c) PROVE FlowInv'
  <2>1. request[c] \in [prop : Props, answer : Answers]
      BY <1>3 DEF FlowInv, TypeOK, CommitDecision, Decided
  <2>2. PICK p \in Props, a \in Answers : p = request[c].prop /\ a = request[c].answer
      BY <2>1
  <2>3. /\ human[p] = NoAnswer /\ human' = [human EXCEPT ![p] = a]
        /\ row[ResumeRow(p)] = "absent" /\ row' = [row EXCEPT ![ResumeRow(p)] = "open"]
        /\ request' = [request EXCEPT ![c] = NoRequest]
        /\ run' = run /\ cp' = cp /\ proposals' = proposals /\ session' = session
        /\ payload' = payload /\ records' = records
        /\ minted' = minted /\ synced' = synced /\ faults' = faults
      BY <1>3, <2>2 DEF CommitDecision, Decided, Queue!Enqueue
  <2>4. TypeOK' /\ RunsExist' /\ DecidedHasRow' /\ CpAgrees' /\ OneWriter' /\ ApprovedIsQueued'
      BY <2>2, <2>3 DEF FlowInv, TypeOK, Queue!QueueTypeOK, Queue!RowStates, RunsExist,
         DecidedHasRow, CpAgrees, CpOK, OneWriter, ApprovedIsQueued
  <2>5. proposals[p] \notin {"approved", "rejected"} /\ row[BitableRow(p)] = "absent" /\ records[p] = NoAnswer
      BY <2>3 DEF FlowInv, DecisionHonoured, ApprovedIsQueued, PayloadAgrees, TypeOK, Queue!QueueTypeOK
  <2>6. DecisionHonoured' /\ PayloadAgrees'
      BY <1>0, <2>3, <2>5 DEF FlowInv, TypeOK, Queue!QueueTypeOK, DecisionHonoured, PayloadAgrees
  <2>7. SessionAgrees'
      BY <1>0, <2>3 DEF FlowInv, SessionAgrees, SessionOK
  <2> QED BY <2>4, <2>6, <2>7 DEF FlowInv
<1>4. ASSUME NEW c \in Callers, RefuseDecision(c) PROVE FlowInv'
    BY <1>4 DEF FlowInv, RefuseDecision, Decided, queue, TypeOK, Queue!QueueTypeOK, RunsExist, DecidedHasRow,
       CpAgrees, CpOK, SessionAgrees, SessionOK, OneWriter, DecisionHonoured, ApprovedIsQueued, PayloadAgrees
<1>5. ASSUME NEW w \in Workers, Begin(w) PROVE FlowInv'
  <2>1. PICK i \in Items : Queue!Start(w, i)
      BY <1>5 DEF Begin
  <2>2. session[w].mark = "none" /\ session[w].step = "idle"
      BY <1>0, <2>1 DEF FlowInv, TypeOK, SessionAgrees, SessionOK, Queue!Start
  <2>3. session' = [session EXCEPT ![w] = [session[w] EXCEPT !.step = "begun"]]
      BY <1>0, <1>5 DEF Begin
  <2>4. TypeOK'
    <3>0. session[w] \in Sessions
        BY <1>0
    <3>1. PICK t \in Sessions : t = [session[w] EXCEPT !.step = "begun"]
        BY <3>0 DEF Sessions, Steps
    <3>2. session' = [session EXCEPT ![w] = t] /\ t.step = "begun"
        BY <1>0, <2>3, <3>1 DEF Sessions
    <3> QED BY <1>5, <2>1, <3>2 DEF FlowInv, Begin, TypeOK, Queue!QueueTypeOK, Queue!Start
  <2>5. RunsExist' /\ DecidedHasRow' /\ CpAgrees' /\ OneWriter' /\ DecisionHonoured' /\ ApprovedIsQueued'
        /\ PayloadAgrees'
      BY <1>5, <1>0, <2>1, <2>2, <2>3 DEF FlowInv, Begin, TypeOK, Queue!QueueTypeOK, Queue!Start,
         RunsExist, DecidedHasRow, CpAgrees, CpOK, OneWriter, DecisionHonoured, ApprovedIsQueued, PayloadAgrees
  <2>6. SessionAgrees'
      BY <1>5, <1>0, <2>1, <2>2, <2>3 DEF FlowInv, Begin, Queue!Start, SessionAgrees, SessionOK, TypeOK, Queue!QueueTypeOK
  <2> QED BY <2>4, <2>5, <2>6 DEF FlowInv
<1>6. ASSUME NEW w \in Workers, EnterGraph(w) PROVE FlowInv'
  <2>1. /\ session[w] \in Sessions /\ run[w] # NoItem /\ minted' \in SUBSET Props
        /\ cp \in Checkpoints /\ CpOK(cp) /\ SessionOK(w, session[w])
      BY <1>0, <1>6 DEF FlowInv, TypeOK, CpAgrees, SessionAgrees, EnterGraph
  <2>7. PICK s \in Sessions : s = [session[w] EXCEPT !.step = "graph"]
      BY <2>1 DEF Sessions, Steps, ProposalStates
  <2>8. PICK c \in Checkpoints : c = Checkpoint("running", NoProp, NoAnswer)
      BY <2>1 DEF Checkpoint, Checkpoints, Sessions
  <2>9. SessionOK(w, s) /\ CpOK(c) /\ s.step # "idle" /\ (s.mark # "none" => ThreadUnlocked(w))
      BY <1>0, <1>6, <2>1, <2>7, <2>8 DEF EnterGraph, SessionOK, CpOK, Checkpoint, Sessions
  <2>10. Advance(w, s, c)
      BY <1>6, <2>7, <2>8 DEF EnterGraph
  <2> QED BY <2>1, <2>7, <2>8, <2>9, <2>10, AdvanceKeeps
<1>7. ASSUME NEW w \in Workers, EndWithoutProposal(w) PROVE FlowInv'
  <2>1. /\ session[w] \in Sessions /\ run[w] # NoItem /\ minted' \in SUBSET Props
        /\ cp \in Checkpoints /\ CpOK(cp) /\ SessionOK(w, session[w])
      BY <1>0, <1>7 DEF FlowInv, TypeOK, CpAgrees, SessionAgrees, EndWithoutProposal
  <2>7. PICK s \in Sessions : s = [session[w] EXCEPT !.step = "done"]
      BY <2>1 DEF Sessions, Steps, ProposalStates
  <2>8. PICK c \in Checkpoints : c = Checkpoint("end", NoProp, NoAnswer)
      BY <2>1 DEF Checkpoint, Checkpoints, Sessions
  <2>9. SessionOK(w, s) /\ CpOK(c) /\ s.step # "idle" /\ (s.mark # "none" => ThreadUnlocked(w))
      BY <1>0, <1>7, <2>1, <2>7, <2>8 DEF EndWithoutProposal, SessionOK, CpOK, Checkpoint, Sessions
  <2>10. Advance(w, s, c)
      BY <1>7, <2>7, <2>8 DEF EndWithoutProposal
  <2> QED BY <2>1, <2>7, <2>8, <2>9, <2>10, AdvanceKeeps
<1>8. ASSUME NEW w \in Workers, NEW p \in Props, Propose(w, p) PROVE FlowInv'
  <2>1. /\ session[w] \in Sessions /\ run[w] # NoItem /\ minted' \in SUBSET Props
        /\ cp \in Checkpoints /\ CpOK(cp) /\ SessionOK(w, session[w])
      BY <1>0, <1>8 DEF FlowInv, TypeOK, CpAgrees, SessionAgrees, Propose
  <2>7. PICK s \in Sessions : s = [session[w] EXCEPT !.step = "done", !.prop = p,
                               !.mark = IF proposals[p] = "absent" THEN "pending" ELSE "none"]
      BY <2>1 DEF Sessions, Steps, ProposalStates
  <2>8. PICK c \in Checkpoints : c = Checkpoint("interrupt", p, NoAnswer)
      BY <2>1 DEF Checkpoint, Checkpoints, Sessions
  <2>9. SessionOK(w, s) /\ CpOK(c) /\ s.step # "idle" /\ (s.mark # "none" => ThreadUnlocked(w))
      BY <1>0, <1>8, <2>1, <2>7, <2>8 DEF Propose, SessionOK, CpOK, Checkpoint, Sessions
  <2>10. Advance(w, s, c)
      BY <1>8, <2>7, <2>8 DEF Propose
  <2> QED BY <2>1, <2>7, <2>8, <2>9, <2>10, AdvanceKeeps
<1>9. ASSUME NEW w \in Workers, NEW p \in Props, ResumeAnswered(w, p) PROVE FlowInv'
  <2>1. /\ session[w] \in Sessions /\ run[w] # NoItem /\ minted' \in SUBSET Props
        /\ cp \in Checkpoints /\ CpOK(cp) /\ SessionOK(w, session[w])
      BY <1>0, <1>9 DEF FlowInv, TypeOK, CpAgrees, SessionAgrees, ResumeAnswered, HumanApproval
  <2>2. human[p] \in Answers
      BY <1>0, <1>9 DEF FlowInv, RunsExist, DecidedHasRow, ResumeAnswered, HumanApproval
  <2>7. PICK s \in Sessions : s = [session[w] EXCEPT !.step = "execute", !.prop = p, !.answer = human[p]]
      BY <2>1, <2>2 DEF Sessions, Steps, ProposalStates
  <2>8. PICK c \in Checkpoints : c = Checkpoint("decided", p, human[p])
      BY <2>1, <2>2 DEF Checkpoint, Checkpoints, Sessions
  <2>9. SessionOK(w, s) /\ CpOK(c) /\ s.step # "idle" /\ (s.mark # "none" => ThreadUnlocked(w))
      BY <1>0, <1>9, <2>1, <2>7, <2>8, <2>2 DEF ResumeAnswered, HumanApproval, SessionOK, CpOK, Checkpoint, Sessions
  <2>10. Advance(w, s, c)
      BY <1>9, <2>7, <2>8, <2>2 DEF ResumeAnswered, HumanApproval
  <2> QED BY <2>1, <2>7, <2>8, <2>9, <2>10, AdvanceKeeps
<1>10. ASSUME NEW w \in Workers, NEW p \in Props, ResumeElsewhere(w, p) PROVE FlowInv'
  <2>1. /\ session[w] \in Sessions /\ run[w] # NoItem /\ minted' \in SUBSET Props
        /\ cp \in Checkpoints /\ CpOK(cp) /\ SessionOK(w, session[w])
      BY <1>0, <1>10 DEF FlowInv, TypeOK, CpAgrees, SessionAgrees, ResumeElsewhere
  <2>2. PICK c \in Checkpoints : c = cp
      BY <2>1
  <2>0. \A st \in {"graph", "done"} : [session[w] EXCEPT !.step = st] \in Sessions
      BY <2>1 DEF Sessions, Steps
  <2>5. [session[w] EXCEPT !.step = "execute", !.prop = cp.prop, !.answer = cp.answer] \in Sessions
      BY <2>1 DEF Sessions, Steps, Checkpoints
  <2>6. \/ cp.at = "decided" /\ Advance(w, [session[w] EXCEPT !.step = "execute", !.prop = cp.prop,
                                                !.answer = cp.answer], c)
        \/ \E st \in {"graph", "done"} : Advance(w, [session[w] EXCEPT !.step = st], c)
      BY <1>10, <2>2 DEF ResumeElsewhere
  <2>3. PICK s \in Sessions :
           /\ Advance(w, s, c)
           /\ \/ /\ cp.at = "decided"
                 /\ s = [session[w] EXCEPT !.step = "execute", !.prop = cp.prop, !.answer = cp.answer]
              \/ \E st \in {"graph", "done"} : s = [session[w] EXCEPT !.step = st]
      BY <2>0, <2>5, <2>6
  <2>4. SessionOK(w, s) /\ CpOK(c) /\ s.step # "idle" /\ s.mark = "none"
    <3>1. session[w].mark = "none"
        BY <1>10, <2>1 DEF ResumeElsewhere, SessionOK
    <3>2. s.mark = "none" /\ s.step \in {"execute", "graph", "done"}
        BY <2>1, <2>3, <3>1 DEF Sessions
    <3>3. s.step = "execute" => s.prop \in Props /\ human[s.prop] # NoAnswer /\ s.answer = human[s.prop]
        BY <2>1, <2>3 DEF CpOK, Sessions
    <3> QED BY <2>1, <2>2, <3>2, <3>3 DEF SessionOK
  <2> QED BY <2>1, <2>3, <2>4, AdvanceKeeps
<1>11. ASSUME NEW w \in Workers, LoadProposal(w) PROVE FlowInv'
  <2>1. /\ session[w] \in Sessions /\ run[w] # NoItem /\ minted' \in SUBSET Props
        /\ cp \in Checkpoints /\ CpOK(cp) /\ SessionOK(w, session[w])
      BY <1>0, <1>11 DEF FlowInv, TypeOK, CpAgrees, SessionAgrees, LoadProposal
  <2>2. session[w].prop \in Props /\ proposals[session[w].prop] \in ProposalStates
      BY <1>11, <2>1 DEF FlowInv, TypeOK, SessionOK, LoadProposal
  <2>7. PICK s \in Sessions : s = [session[w] EXCEPT !.step = "loaded", !.view = proposals[session[w].prop]]
      BY <2>1, <2>2 DEF Sessions, Steps, ProposalStates
  <2>8. PICK c \in Checkpoints : c = cp
      BY <2>1, <2>2 DEF Checkpoint, Checkpoints, Sessions
  <2>9. SessionOK(w, s) /\ CpOK(c) /\ s.step # "idle" /\ (s.mark # "none" => ThreadUnlocked(w))
      BY <1>0, <1>11, <2>1, <2>7, <2>8, <2>2 DEF LoadProposal, SessionOK, CpOK, Checkpoint, Sessions
  <2>10. Advance(w, s, c)
      BY <1>11, <2>7, <2>8, <2>2 DEF LoadProposal
  <2> QED BY <2>1, <2>7, <2>8, <2>9, <2>10, AdvanceKeeps
<1>12. ASSUME NEW w \in Workers, Execute(w) PROVE FlowInv'
  <2>1. /\ session[w] \in Sessions /\ run[w] # NoItem /\ minted' \in SUBSET Props
        /\ cp \in Checkpoints /\ CpOK(cp) /\ SessionOK(w, session[w])
      BY <1>0, <1>12 DEF FlowInv, TypeOK, CpAgrees, SessionAgrees, Execute
  <2>2. /\ session[w].prop \in Props /\ human[session[w].prop] # NoAnswer
        /\ session[w].answer = human[session[w].prop]
      BY <1>12, <2>1 DEF SessionOK, Execute
  <2>3. PICK m : m = MarkFor(session[w].view, session[w].answer)
      OBVIOUS
  <2>4. /\ m \in {"none", "approved", "rejected"}
        /\ m = "approved" => human[session[w].prop] \in Approving
        /\ m = "rejected" => human[session[w].prop] = "reject"
      BY <1>0, <2>2, <2>3 DEF MarkFor
  <2>7. PICK s \in Sessions : s = [session[w] EXCEPT !.step = "done", !.mark = m]
      BY <2>1, <2>2, <2>3, <2>4 DEF Sessions, Steps, ProposalStates
  <2>8. PICK c \in Checkpoints : c = Checkpoint("end", session[w].prop, session[w].answer)
      BY <2>1, <2>2, <2>3, <2>4 DEF Checkpoint, Checkpoints, Sessions
  <2>9. SessionOK(w, s) /\ CpOK(c) /\ s.step # "idle" /\ (s.mark # "none" => ThreadUnlocked(w))
      BY <1>0, <1>12, <2>1, <2>7, <2>8, <2>2, <2>3, <2>4 DEF Execute, SessionOK, CpOK, Checkpoint, Sessions
  <2>10. Advance(w, s, c)
      BY <1>12, <2>7, <2>8, <2>2, <2>3, <2>4 DEF Execute
  <2> QED BY <2>1, <2>7, <2>8, <2>9, <2>10, AdvanceKeeps
<1>13. ASSUME NEW w \in Workers, NEW p \in Props, CheckApproved(w, p) PROVE FlowInv'
  <2>1. /\ session[w] \in Sessions /\ run[w] # NoItem /\ minted' \in SUBSET Props
        /\ cp \in Checkpoints /\ CpOK(cp) /\ SessionOK(w, session[w])
      BY <1>0, <1>13 DEF FlowInv, TypeOK, CpAgrees, SessionAgrees, CheckApproved
  <2>7. PICK s \in Sessions : s = [session[w] EXCEPT !.step = "write", !.prop = p]
      BY <2>1 DEF Sessions, Steps, ProposalStates
  <2>8. PICK c \in Checkpoints : c = cp
      BY <2>1 DEF Checkpoint, Checkpoints, Sessions
  <2>9. SessionOK(w, s) /\ CpOK(c) /\ s.step # "idle" /\ (s.mark # "none" => ThreadUnlocked(w))
      BY <1>0, <1>13, <2>1, <2>7, <2>8 DEF CheckApproved, SessionOK, CpOK, Checkpoint, Sessions
  <2>10. Advance(w, s, c)
      BY <1>13, <2>7, <2>8 DEF CheckApproved
  <2> QED BY <2>1, <2>7, <2>8, <2>9, <2>10, AdvanceKeeps
<1>14. ASSUME NEW w \in Workers, NEW p \in Props, BatchCreate(w, p) PROVE FlowInv'
  <2>1. session[w] \in Sessions /\ session[w].mark = "none" /\ proposals[p] = "approved"
      BY <1>0, <1>14 DEF FlowInv, SessionAgrees, SessionOK, BatchCreate
  <2>2. PICK s \in Sessions : s = [session[w] EXCEPT !.step = "done"]
      BY <2>1 DEF Sessions, Steps
  <2>3. session' = [session EXCEPT ![w] = s] /\ s.step = "done" /\ s.mark = "none"
      BY <1>0, <1>14, <2>1, <2>2 DEF BatchCreate, Sessions
  <2>4. payload[p] = human[p] /\ human[p] \in Approving
      BY <2>1 DEF FlowInv, PayloadAgrees, ApprovedIsQueued, DecisionHonoured
  <2>5. TypeOK'
      BY <1>0, <1>14, <2>3, <2>4 DEF FlowInv, TypeOK, Queue!QueueTypeOK, BatchCreate, queue
  <2>6. PayloadAgrees'
      BY <1>14, <2>1, <2>4 DEF FlowInv, TypeOK, PayloadAgrees, BatchCreate, queue
  <2>7. RunsExist' /\ DecidedHasRow' /\ CpAgrees' /\ DecisionHonoured' /\ ApprovedIsQueued'
      BY <1>14 DEF FlowInv, RunsExist, DecidedHasRow, CpAgrees, CpOK, DecisionHonoured,
         ApprovedIsQueued, BatchCreate, queue
  <2>8. SessionAgrees' /\ OneWriter'
      BY <1>0, <1>14, <2>3 DEF FlowInv, SessionAgrees, SessionOK, OneWriter, BatchCreate, queue
  <2> QED BY <2>5, <2>6, <2>7, <2>8 DEF FlowInv
<1>15. ASSUME NEW w \in Workers, HandlerRefuses(w) \/ Fault(w) PROVE FlowInv'
  <2>1. /\ session' = [session EXCEPT ![w] = NoSession] /\ run' = [run EXCEPT ![w] = NoItem]
        /\ cp' = cp /\ minted' = minted /\ proposals' = proposals /\ human' = human
        /\ payload' = payload /\ records' = records /\ synced' = synced /\ request' = request
        /\ faults' \in 0..MaxFaults
      BY <1>15 DEF FlowInv, TypeOK, HandlerRefuses, Fault, Queue!Settle, Queue!Abandon
  <2>2. run[w] \in Items /\ row[run[w]] # "absent"
      BY <1>15 DEF FlowInv, TypeOK, Queue!QueueTypeOK, RunsExist, HandlerRefuses, Fault,
         Queue!Settle, Queue!Abandon
  <2>3. /\ row' \in [Items -> Queue!RowStates]
        /\ \A i \in Items : row'[i] = "absent" <=> row[i] = "absent"
      BY <1>15, <2>2 DEF FlowInv, TypeOK, Queue!QueueTypeOK, Queue!RowStates, HandlerRefuses, Fault,
         Queue!Settle, Queue!Abandon
  <2>4. NoSession \in Sessions /\ NoSession.step = "idle" /\ NoSession.mark = "none"
      BY DEF NoSession, Sessions, Steps
  <2>5. TypeOK'
      BY <2>1, <2>3, <2>4 DEF FlowInv, TypeOK, Queue!QueueTypeOK
  <2>6. RunsExist' /\ DecidedHasRow' /\ CpAgrees' /\ DecisionHonoured' /\ ApprovedIsQueued' /\ PayloadAgrees'
      BY <2>1, <2>3 DEF FlowInv, TypeOK, Queue!QueueTypeOK, RunsExist, DecidedHasRow, CpAgrees, CpOK,
         DecisionHonoured, ApprovedIsQueued, PayloadAgrees
  <2>7. SessionAgrees' /\ OneWriter'
      BY <1>0, <2>1, <2>4 DEF FlowInv, TypeOK, Queue!QueueTypeOK, SessionAgrees, SessionOK, OneWriter
  <2> QED BY <2>5, <2>6, <2>7 DEF FlowInv
<1>16. ASSUME NEW w \in Workers, Commit(w) PROVE FlowInv'
  <2> DEFINE s   == session[w]
             new == IF s.mark = "approved" /\ row[BitableRow(s.prop)] = "absent"
                    THEN {BitableRow(s.prop)} ELSE {}
  <2>1. /\ session' = [session EXCEPT ![w] = NoSession] /\ run' = [run EXCEPT ![w] = NoItem]
        /\ cp' = cp /\ minted' = minted /\ human' = human /\ records' = records
        /\ request' = request /\ faults' = faults
        /\ proposals' = [p \in Props |-> IF s.mark # "none" /\ p = s.prop THEN s.mark ELSE proposals[p]]
        /\ payload' = [p \in Props |-> IF BitableRow(p) \in new THEN s.answer ELSE payload[p]]
        /\ synced' = [p \in Props |-> synced[p] \/ run[w] = BitableRow(p)]
        /\ row' = [i \in Items |-> IF i = run[w] THEN "succeeded"
                                   ELSE IF i \in new THEN "open" ELSE row[i]]
        /\ s \in Sessions /\ SessionOK(w, s) /\ run[w] \in Items /\ row[run[w]] # "absent"
      BY <1>0, <1>16 DEF FlowInv, TypeOK, Queue!QueueTypeOK, RunsExist, SessionAgrees, Commit, Queue!Settle
  <2>2. /\ row' \in [Items -> Queue!RowStates]
        /\ \A i \in Items \ new : row'[i] = "absent" <=> row[i] = "absent"
        /\ \A i \in new : row'[i] # "absent"
      BY <2>1 DEF FlowInv, TypeOK, Queue!QueueTypeOK, Queue!RowStates, SessionOK
  <2>3. NoSession \in Sessions /\ NoSession.step = "idle" /\ NoSession.mark = "none"
      BY DEF NoSession, Sessions, Steps
  <2>4. TypeOK'
    <3>1. proposals' \in [Props -> ProposalStates] /\ payload' \in [Props -> Answers \cup {NoAnswer}]
          /\ synced' \in [Props -> BOOLEAN]
        BY <2>1 DEF FlowInv, TypeOK, Sessions, SessionOK
    <3> QED BY <2>1, <2>2, <2>3, <3>1 DEF FlowInv, TypeOK, Queue!QueueTypeOK
  <2>5. RunsExist'
    <3>1. \A i \in Items : row[i] # "absent" => row'[i] # "absent"
        BY <2>2
    <3> QED BY <2>1, <3>1 DEF FlowInv, TypeOK, Queue!QueueTypeOK, RunsExist
  <2>6. DecidedHasRow' /\ CpAgrees'
      BY <2>1, <2>2 DEF FlowInv, DecidedHasRow, CpAgrees, CpOK, SessionOK
  <2>7. DecisionHonoured'
      BY <2>1 DEF FlowInv, DecisionHonoured, SessionOK
  <2>8. ApprovedIsQueued'
    <3> SUFFICES ASSUME NEW p \in Props
                 PROVE  proposals'[p] = "approved" <=> row'[BitableRow(p)] # "absent"
        BY DEF ApprovedIsQueued
    <3>1. CASE s.mark # "none" /\ p = s.prop
        BY <2>1, <2>2, <3>1 DEF FlowInv, ApprovedIsQueued, DecisionHonoured, SessionOK, TypeOK,
           Sessions, ProposalStates
    <3>2. CASE ~(s.mark # "none" /\ p = s.prop)
        BY <2>1, <2>2, <3>2 DEF FlowInv, ApprovedIsQueued, SessionOK
    <3> QED BY <3>1, <3>2
  <2>9. PayloadAgrees'
    <3> SUFFICES ASSUME NEW p \in Props
                 PROVE  /\ payload'[p] = IF row'[BitableRow(p)] = "absent" THEN NoAnswer ELSE human[p]
                        /\ records[p] # NoAnswer => proposals'[p] = "approved" /\ records[p] = human[p]
        BY <2>1 DEF PayloadAgrees
    <3>1. payload'[p] = IF row'[BitableRow(p)] = "absent" THEN NoAnswer ELSE human[p]
        BY <2>1, <2>2 DEF FlowInv, PayloadAgrees, SessionOK
    <3>2. records[p] # NoAnswer => proposals'[p] = "approved" /\ records[p] = human[p]
        BY <2>1 DEF FlowInv, PayloadAgrees, DecisionHonoured, SessionOK, TypeOK, Sessions, ProposalStates
    <3> QED BY <3>1, <3>2
  <2>10. OneWriter'
      BY <1>0, <2>1, <2>3 DEF FlowInv, OneWriter
  <2>11. SessionAgrees'
    <3> SUFFICES ASSUME NEW v \in Workers PROVE SessionOK(v, session[v])'
        BY DEF SessionAgrees
    <3>1. CASE v = w
        BY <1>0, <2>1, <2>3, <3>1 DEF SessionOK, FlowInv, TypeOK, Queue!QueueTypeOK
    <3>2. CASE v # w
      <4>1. session'[v] = session[v] /\ run'[v] = run[v] /\ SessionOK(v, session[v])
            /\ (s.mark # "none" => session[v].mark = "none")
          BY <1>0, <2>1, <3>2 DEF FlowInv, SessionAgrees, OneWriter, TypeOK, Queue!QueueTypeOK
      <4>2. \A p \in Props : proposals[p] = "approved" => proposals'[p] = "approved"
          BY <2>1 DEF FlowInv, DecisionHonoured, SessionOK, TypeOK, Sessions, ProposalStates
      <4>3. s.mark = "none" => proposals' = proposals
          BY <2>1 DEF FlowInv, TypeOK
      <4> QED BY <2>1, <4>1, <4>2, <4>3 DEF SessionOK
    <3> QED BY <3>1, <3>2
  <2> QED BY <2>4, <2>5, <2>6, <2>7, <2>8, <2>9, <2>10, <2>11 DEF FlowInv
<1>17. CASE UNCHANGED vars
    BY <1>17 DEF vars, FlowInv, TypeOK, Queue!QueueTypeOK, RunsExist, DecidedHasRow, CpAgrees, CpOK,
       SessionAgrees, SessionOK, OneWriter, DecisionHonoured, ApprovedIsQueued, PayloadAgrees
<1>18. ASSUME NEW w \in Workers, ReachNode(w) PROVE FlowInv'
  <2>1. /\ session[w] \in Sessions /\ run[w] # NoItem /\ minted' \in SUBSET Props
        /\ cp \in Checkpoints /\ CpOK(cp) /\ SessionOK(w, session[w])
      BY <1>0, <1>18 DEF FlowInv, TypeOK, CpAgrees, SessionAgrees, ReachNode
  <2>8. PICK c \in Checkpoints : c = Checkpoint("running", NoProp, NoAnswer)
      BY <2>1 DEF Checkpoint, Checkpoints, Sessions
  <2>9. CpOK(c) /\ session[w].step # "idle" /\ (session[w].mark # "none" => ThreadUnlocked(w))
      BY <1>0, <1>18, <2>1, <2>8 DEF ReachNode, SessionOK, CpOK, Checkpoint, Sessions
  <2>10. Advance(w, session[w], c)
      BY <1>18, <2>8 DEF ReachNode
  <2> QED BY <2>1, <2>8, <2>9, <2>10, AdvanceKeeps
<1> QED
    BY <1>1, <1>2, <1>3, <1>4, <1>5, <1>6, <1>7, <1>8, <1>9, <1>10, <1>11, <1>12, <1>13, <1>14,
       <1>15, <1>16, <1>17, <1>18 DEF Next, EndDecision, HandlerStep

(* FlowInv is an invariant of the flow.                                    *)
LEMMA FlowInvariant == Spec => []FlowInv
BY InitFlowInv, NextFlowInv, PTL DEF Spec

(* The state of the flow stays within its types.                           *)
THEOREM FlowTypeOK == Spec => []TypeOK
<1>1. FlowInv => TypeOK
    BY DEF FlowInv
<1> QED BY FlowInvariant, <1>1, PTL

(* No record in Bitable without an approving human decision, and none that *)
(* differs from it, over retries, crashes, stale workers and competing     *)
(* decisions.                                                              *)
THEOREM FlowWrittenAsDecided == Spec => []WrittenAsDecided
<1>1. FlowInv => WrittenAsDecided
    BY DEF FlowInv, PayloadAgrees, DecisionHonoured, WrittenAsDecided
<1> QED BY FlowInvariant, <1>1, PTL

(* A proposal is approved or rejected only as the human decided.           *)
THEOREM FlowDecisionHonoured == Spec => []DecisionHonoured
<1>1. FlowInv => DecisionHonoured
    BY DEF FlowInv
<1> QED BY FlowInvariant, <1>1, PTL

(* Approval and the queued write are never seen one without the other.     *)
THEOREM FlowApprovedIsQueued == Spec => []ApprovedIsQueued
<1>1. FlowInv => ApprovedIsQueued
    BY DEF FlowInv
<1> QED BY FlowInvariant, <1>1, PTL

(* Decisions, outcomes and records are final.                              *)
THEOREM FlowDecisionIsFinal == Spec => DecisionIsFinal
<1>1. ASSUME FlowInv, [Next]_vars, NEW p \in Props
      PROVE  /\ human[p] # NoAnswer => human'[p] = human[p]
             /\ proposals[p] \in {"approved", "rejected"} => proposals'[p] = proposals[p]
             /\ records[p] # NoAnswer => records'[p] = records[p]
  <2> USE <1>1, RowFacts, AnswerFacts
  <2>1. ASSUME NEW c \in Callers, CommitDecision(c) PROVE human[p] # NoAnswer => human'[p] = human[p]
      BY <2>1 DEF FlowInv, TypeOK, CommitDecision, Decided
  <2>2. ASSUME NEW w \in Workers, Commit(w)
        PROVE  proposals[p] \in {"approved", "rejected"} => proposals'[p] = proposals[p]
    <3>1. session[w] \in Sessions /\ SessionOK(w, session[w])
        BY DEF FlowInv, TypeOK, SessionAgrees
    <3> QED BY <2>2, <3>1 DEF FlowInv, DecisionHonoured, SessionOK, Commit, Sessions, ProposalStates
  <2>3. ASSUME NEW w \in Workers, NEW q \in Props, BatchCreate(w, q)
        PROVE  records[p] # NoAnswer => records'[p] = records[p]
      BY <2>3 DEF FlowInv, TypeOK, BatchCreate
  <2>4. ASSUME NEW w \in Workers, NEW q \in Props,
               \/ EnterGraph(w) \/ ReachNode(w) \/ EndWithoutProposal(w) \/ Propose(w, q) \/ ResumeAnswered(w, q)
               \/ ResumeElsewhere(w, q) \/ LoadProposal(w) \/ Execute(w) \/ CheckApproved(w, q)
        PROVE  UNCHANGED <<human, proposals, records>>
    <3>1. \E s, c : Advance(w, s, c)
        BY <2>4 DEF EnterGraph, ReachNode, EndWithoutProposal, Propose, ResumeAnswered, HumanApproval, ResumeElsewhere,
           LoadProposal, Execute, CheckApproved
    <3> QED BY <3>1 DEF Advance
  <2>5. ASSUME NEW w \in Workers, Begin(w) \/ HandlerRefuses(w) \/ Fault(w)
        PROVE  UNCHANGED <<human, proposals, records>>
      BY <2>5 DEF Begin, HandlerRefuses, Fault
  <2>6. ASSUME NEW w \in Workers, Commit(w) PROVE UNCHANGED <<human, records>>
      BY <2>6 DEF Commit
  <2>7. ASSUME NEW w \in Workers, NEW q \in Props, BatchCreate(w, q) PROVE UNCHANGED <<human, proposals>>
      BY <2>7 DEF BatchCreate
  <2>8. ASSUME NEW c \in Callers, CommitDecision(c) PROVE UNCHANGED <<proposals, records>>
      BY <2>8 DEF CommitDecision, Decided
  <2>9. ASSUME \/ ConfirmTask
               \/ \E c \in Callers : \/ \E q \in Props, a \in Answers : ReadProposal(c, q, a)
                                     \/ RefuseDecision(c)
        PROVE  UNCHANGED <<human, proposals, records>>
      BY <2>9 DEF ConfirmTask, ReadProposal, RefuseDecision
  <2>10. ASSUME NEW w \in Workers, HandlerStep(w)
         PROVE  \/ UNCHANGED <<human, proposals, records>>
                \/ Commit(w)
                \/ \E q \in Props : BatchCreate(w, q)
      BY <2>4, <2>5, <2>10, FlowAssumption DEF HandlerStep
  <2> QED BY <2>1, <2>2, <2>3, <2>5, <2>6, <2>7, <2>8, <2>9, <2>10 DEF Next, EndDecision, vars
<1>2. FlowInv /\ [Next]_vars
        => [\A p \in Props :
               /\ human[p] # NoAnswer => human'[p] = human[p]
               /\ proposals[p] \in {"approved", "rejected"} => proposals'[p] = proposals[p]
               /\ records[p] # NoAnswer => records'[p] = records[p]]_vars
    BY <1>1
<1> QED BY <1>2, FlowInvariant, PTL DEF Spec, DecisionIsFinal

-----------------------------------------------------------------------------
(* A run that ends is a step of the queue, whatever it settles its row as. *)
LEMMA SettleIsQueueStep ==
    ASSUME NEW w \in Workers, NEW outcome \in Queue!RowStates \ {"absent"},
           NEW new \in SUBSET Items, Queue!Settle(w, outcome, new)
    PROVE  Queue!Next
BY DEF Queue!Next

(* A decision's two inserts, a claim and the ends of a run are the flow's  *)
(* only queue steps; graph nodes, checkpoints and reads are invisible.     *)
LEMMA NextIsQueueStep == FlowInv /\ [Next]_vars => [Queue!Next]_(Queue!queueVars)
<1> SUFFICES ASSUME FlowInv, [Next]_vars PROVE [Queue!Next]_(Queue!queueVars)
    OBVIOUS
<1>1. ASSUME UNCHANGED queue PROVE UNCHANGED Queue!queueVars
    BY <1>1 DEF queue, Queue!queueVars
<1>2. /\ "succeeded" \in Queue!RowStates \ {"absent"} /\ "open" \in Queue!RowStates \ {"absent"}
      /\ "dead_letter" \in Queue!RowStates \ {"absent"}
    BY DEF Queue!RowStates
<1>3. ASSUME ConfirmTask PROVE Queue!Next
    BY <1>3, RowFacts DEF ConfirmTask, Queue!Next, Queue!Enqueue
<1>4. ASSUME NEW c \in Callers, CommitDecision(c) PROVE Queue!Next
  <2>1. PICK i \in Items : i = ResumeRow(request[c].prop)
      BY <1>4, RowFacts DEF FlowInv, TypeOK, CommitDecision
  <2>2. Queue!Enqueue(i)
      BY <1>4, <2>1 DEF CommitDecision, Queue!Enqueue
  <2> QED BY <2>2 DEF Queue!Next
<1>5. ASSUME NEW w \in Workers, Begin(w) PROVE Queue!Next
    BY <1>5 DEF Begin, Queue!Next
<1>6. ASSUME NEW w \in Workers, Commit(w) PROVE Queue!Next
  <2> DEFINE s == session[w]
  <2>1. s.mark = "approved" => s.prop \in Props
      BY DEF FlowInv, SessionAgrees, SessionOK
  <2>2. PICK new \in SUBSET Items :
            new = IF s.mark = "approved" /\ row[BitableRow(s.prop)] = "absent"
                  THEN {BitableRow(s.prop)} ELSE {}
      BY <2>1, RowFacts
  <2>3. Queue!Settle(w, "succeeded", new)
      BY <1>6, <2>2 DEF Commit, Queue!Settle
  <2> QED BY <1>2, <2>3, SettleIsQueueStep
<1>7. ASSUME NEW w \in Workers, HandlerRefuses(w) PROVE Queue!Next
    BY <1>2, <1>7, SettleIsQueueStep DEF HandlerRefuses
<1>8. ASSUME NEW w \in Workers, Fault(w) PROVE Queue!Next
  <2>1. ASSUME Queue!Settle(w, "open", {}) PROVE Queue!Next
      BY <1>2, <2>1, SettleIsQueueStep
  <2>2. ASSUME Queue!Abandon(w) PROVE Queue!Next
      BY <2>2 DEF Queue!Next
  <2> QED BY <1>8, <2>1, <2>2 DEF Fault
<1>9. ASSUME NEW c \in Callers, RefuseDecision(c) \/ \E p \in Props, a \in Answers : ReadProposal(c, p, a)
      PROVE  UNCHANGED queue
    BY <1>9 DEF RefuseDecision, ReadProposal, queue
<1>10. ASSUME NEW w \in Workers, NEW p \in Props,
              \/ EnterGraph(w) \/ ReachNode(w) \/ EndWithoutProposal(w) \/ LoadProposal(w) \/ Execute(w)
              \/ Propose(w, p) \/ ResumeAnswered(w, p) \/ ResumeElsewhere(w, p) \/ CheckApproved(w, p)
              \/ BatchCreate(w, p)
       PROVE  UNCHANGED queue
    BY <1>10 DEF EnterGraph, ReachNode, EndWithoutProposal, LoadProposal, Execute, Propose, ResumeAnswered,
       ResumeElsewhere, CheckApproved, BatchCreate, Advance, queue
<1>11. ASSUME UNCHANGED vars PROVE UNCHANGED queue
    BY <1>11 DEF vars, queue
<1>12. \E p \in Props : TRUE
    BY FlowAssumption
<1> QED BY <1>1, <1>3, <1>4, <1>5, <1>6, <1>7, <1>8, <1>9, <1>10, <1>11, <1>12
        DEF Next, EndDecision, HandlerStep

(* The approval flow asks of the outbox only what the durable queue        *)
(* offers, so that OutboxImplementsQueue and the theorems above are about  *)
(* one system.                                                             *)
THEOREM FlowUsesQueue == Spec => Queue!Spec
<1>1. Init => Queue!Init
    BY DEF Init
<1> QED BY <1>1, FlowInvariant, NextIsQueueStep, PTL DEF Spec, Queue!Spec

=============================================================================
