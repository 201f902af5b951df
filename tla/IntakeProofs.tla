----------------------------- MODULE IntakeProofs -----------------------------
(***************************************************************************)
(* Proofs about the Feishu intake, for any messages, deliveries, profiles, *)
(* workers and number of faults.                                           *)
(***************************************************************************)
EXTENDS Intake, TLAPS

(* A row that is being run exists and is not a graph_dispatch row.         *)
RunsExist ==
    \A w \in Workers : run[w] # NoItem => row[run[w]] # "absent" /\ run[w][1] # "graph_dispatch"

(* A worker is in a handler exactly while it runs a row, and only the      *)
(* handler of a preparation has a model's answer.                          *)
SessionOK ==
    \A w \in Workers :
        /\ session[w].step = "idle" <=> run[w] = NoItem
        /\ session[w].step = "parsed" => IsPrepare(run[w])

(* Nothing is queued for a message that was not received.                  *)
RowsHaveEvent == \A i \in Items : row[i] # "absent" => event[i[2]] # NoEvent

EventHasRow == \A m \in Messages : event[m] # NoEvent => row[EventRow(m)] # "absent"

(* Shown cards come from card rows; a form is only sent from a shown card. *)
SentExist == \A i \in sent : row[i] # "absent" /\ ~ IsPrepare(i)

ClickOK == \A c \in Callers : click[c] # NoClick => EventRow(click[c].msg) \in sent

(* The profile of a setup exists, so no later setup makes it again.        *)
SetupUsed == \A m \in Messages : setup[m] # NoProfile => profile[setup[m]] # "unused"

(* The stored task is what the confirmation card shows.                    *)
CardsOK ==
    \A m \in Messages :
        /\ card[m] = task[m]
        /\ task[m] # NoTask <=> row[ConfirmCard(m)] # "absent"

(* The approved messages are the authorized ones and the dispatched ones.  *)
DecisionOK ==
    \A m \in Messages :
        /\ row[DispatchRow(m)] # "absent" <=> decision[m] = "approve"
        /\ thread[m] = "authorized" <=> decision[m] = "approve"
        /\ decision[m] # "none" => ConfirmCard(m) \in sent
        /\ decision[m] = "approve" => dispatched[m] = task[m]

IntakeInv ==
    /\ TypeOK /\ RunsExist /\ SessionOK /\ RowsHaveEvent /\ EventHasRow /\ SentExist /\ ClickOK
    /\ OnePreparation /\ SetupUsed /\ CardsOK /\ DecisionOK

-----------------------------------------------------------------------------
(* A row is a kind and a message, and determines both.                     *)
LEMMA RowFacts ==
    /\ NoItem \notin Items
    /\ \A i \in Items : i[2] \in Messages
    /\ \A i \in Items : i = EventRow(i[2]) \/ i = SetupPrepareRow(i[2]) \/ i = ConfirmCard(i[2])
                        \/ i = FailedCard(i[2]) \/ i = DispatchRow(i[2])
    /\ \A m \in Messages :
          /\ EventRow(m) \in Items /\ EventRow(m)[1] = "event" /\ EventRow(m)[2] = m
          /\ SetupPrepareRow(m) \in Items /\ SetupPrepareRow(m)[1] = "prepare_after_setup"
          /\ SetupPrepareRow(m)[2] = m
          /\ ConfirmCard(m) \in Items /\ ConfirmCard(m)[1] = "confirmation_card" /\ ConfirmCard(m)[2] = m
          /\ FailedCard(m) \in Items /\ FailedCard(m)[1] = "parse_failed_card" /\ FailedCard(m)[2] = m
          /\ DispatchRow(m) \in Items /\ DispatchRow(m)[1] = "graph_dispatch" /\ DispatchRow(m)[2] = m
BY NoItemAssumption DEF Items, EventRow, SetupPrepareRow, ConfirmCard, FailedCard, DispatchRow

(* Nothing is queued, received or decided at the start.                    *)
LEMMA InitIntakeInv == Init => IntakeInv
BY RowFacts, IntakeAssumption
   DEF Init, Decisions, Sessions, IntakeInv, TypeOK, Queue!QueueTypeOK, Queue!RowStates, Queue!Init, RunsExist, SessionOK,
       RowsHaveEvent, EventHasRow, SentExist, ClickOK, OnePreparation, SetupUsed, CardsOK, DecisionOK,
       MaybeProfile, Idle

(* What a settled run does to the rows: no row disappears, and the new     *)
(* ones are those the handler queued.                                      *)
LEMMA SettleFacts ==
    ASSUME IntakeInv, NEW w \in Workers, NEW outcome \in {"succeeded", "open", "dead_letter"},
           NEW new \in SUBSET Items, Queue!Settle(w, outcome, new)
    PROVE  /\ run[w] \in Items /\ row[run[w]] # "absent" /\ Queue!QueueTypeOK'
           /\ \A i \in Items : row'[i] # "absent" <=> row[i] # "absent" \/ i \in new
           /\ run'[w] = NoItem /\ \A v \in Workers : v # w => run'[v] = run[v]
BY DEF IntakeInv, TypeOK, Queue!QueueTypeOK, Queue!RowStates, Queue!Settle, RunsExist

(* A run that ends and changes nothing but its row and the count of faults *)
(* keeps the invariant.                                                    *)
LEMMA EndKeeps ==
    ASSUME IntakeInv, NEW w \in Workers, Queue!QueueTypeOK', faults' \in 0..MaxFaults,
           \A i \in Items : row'[i] # "absent" <=> row[i] # "absent",
           run'[w] = NoItem, \A v \in Workers : v # w => run'[v] = run[v],
           session' = [session EXCEPT ![w] = Idle],
           UNCHANGED <<profiles, intake, forms, cards, sent, confirm>>
    PROVE  IntakeInv'
<1> USE DEF profiles, intake, forms, cards, confirm
<1>1. session'[w] = Idle /\ \A v \in Workers : v # w => session'[v] = session[v]
    BY DEF IntakeInv, TypeOK
<1>2. TypeOK'
    BY DEF IntakeInv, TypeOK, Idle, Sessions
<1>3. RunsExist'
    BY DEF IntakeInv, TypeOK, Queue!QueueTypeOK, RunsExist
<1>4. SessionOK'
  <2> SUFFICES ASSUME NEW v \in Workers
               PROVE  /\ session'[v].step = "idle" <=> run'[v] = NoItem
                      /\ session'[v].step = "parsed" => IsPrepare(run[v])'
      BY DEF SessionOK
  <2>1. CASE v = w
      BY <1>1, <2>1 DEF Idle
  <2>2. CASE v # w
      BY <1>1, <2>2 DEF IntakeInv, SessionOK, IsPrepare
  <2> QED BY <2>1, <2>2
<1>5. RowsHaveEvent' /\ EventHasRow' /\ ClickOK' /\ SetupUsed'
    BY RowFacts DEF IntakeInv, RowsHaveEvent, EventHasRow, ClickOK, SetupUsed
<1>6. SentExist'
    BY DEF IntakeInv, TypeOK, SentExist, IsPrepare
<1>7. OnePreparation' /\ CardsOK' /\ DecisionOK'
    BY RowFacts DEF IntakeInv, OnePreparation, CardsOK, DecisionOK
<1> QED BY <1>2, <1>3, <1>4, <1>5, <1>6, <1>7 DEF IntakeInv

(* A preparation that is being run has a message and a profile.            *)
LEMMA PreparedProfile ==
    ASSUME IntakeInv, NEW w \in Workers, run[w] # NoItem, IsPrepare(run[w])
    PROVE  /\ run[w] \in Items /\ run[w][2] \in Messages
           /\ event[run[w][2]] # NoEvent
           /\ PreparedWith(run[w][2]) \in Profiles
<1>1. run[w] \in Items /\ run[w][2] \in Messages /\ row[run[w]] # "absent"
    BY RowFacts DEF IntakeInv, TypeOK, Queue!QueueTypeOK, RunsExist
<1>2. event[run[w][2]] # NoEvent
    BY <1>1 DEF IntakeInv, RowsHaveEvent
<1>3. event[run[w][2]].prof \in MaybeProfile /\ setup[run[w][2]] \in MaybeProfile
    BY <1>1, <1>2 DEF IntakeInv, TypeOK
<1>4. CASE run[w] = EventRow(run[w][2])
    BY <1>1, <1>2, <1>3, <1>4, RowFacts DEF IsPrepare, PreparedWith, MaybeProfile
<1>5. CASE run[w] = SetupPrepareRow(run[w][2])
    BY <1>1, <1>2, <1>3, <1>5, RowFacts DEF IntakeInv, OnePreparation, PreparedWith, MaybeProfile
<1>6. CASE run[w] \in {ConfirmCard(run[w][2]), FailedCard(run[w][2]), DispatchRow(run[w][2])}
    BY <1>1, <1>6, RowFacts DEF IsPrepare
<1> QED BY <1>1, <1>2, <1>4, <1>5, <1>6, RowFacts

-----------------------------------------------------------------------------
(* Every step keeps IntakeInv; one step per action.                        *)
LEMMA NextIntakeInv == IntakeInv /\ [Next]_vars => IntakeInv'
<1> SUFFICES ASSUME IntakeInv, [Next]_vars PROVE IntakeInv'
    OBVIOUS
<1> USE RowFacts, IntakeAssumption
<1> USE DEF queue, profiles, intake, forms, cards, confirm
<1>1. ASSUME NEW d \in Deliveries, NEW m \in Messages, NEW b \in Bodies, ReadDefault(d, m, b)
      PROVE  IntakeInv'
  <2>1. TypeOK'
      BY <1>1 DEF IntakeInv, ReadDefault, TypeOK, Received, Queue!QueueTypeOK
  <2>2. RunsExist' /\ SessionOK' /\ RowsHaveEvent' /\ EventHasRow' /\ SentExist' /\ ClickOK'
        /\ OnePreparation' /\ SetupUsed' /\ CardsOK' /\ DecisionOK'
      BY <1>1 DEF IntakeInv, ReadDefault, RunsExist, SessionOK, IsPrepare, RowsHaveEvent, EventHasRow,
         SentExist, ClickOK, OnePreparation, SetupUsed, CardsOK, DecisionOK
  <2> QED BY <2>1, <2>2 DEF IntakeInv
<1>2. ASSUME NEW d \in Deliveries, AcceptEvent(d) PROVE IntakeInv'
  <2>1. PICK m \in Messages, b \in Bodies, p \in MaybeProfile :
            m = delivery[d].msg /\ b = delivery[d].body /\ p = delivery[d].prof
      BY <1>2 DEF IntakeInv, TypeOK, AcceptEvent, NotSent, Received
  <2>2. /\ event[m] = NoEvent /\ event' = [event EXCEPT ![m] = [body |-> b, prof |-> p]]
        /\ thread' = [thread EXCEPT ![m] = PendingStatus(p)]
        /\ row[EventRow(m)] = "absent" /\ row' = [row EXCEPT ![EventRow(m)] = "open"]
        /\ delivery' = [delivery EXCEPT ![d].step = "queued"]
        /\ UNCHANGED <<run, profiles, forms, cards, sent, confirm, session, faults>>
      BY <1>2, <2>1 DEF AcceptEvent, Queue!Enqueue
  <2>3. event'[m] # NoEvent /\ \A n \in Messages : n # m => event'[n] = event[n]
      BY <2>1, <2>2 DEF IntakeInv, TypeOK, MaybeProfile
  <2>4. \A i \in Items : i[2] = m => row[i] = "absent"
      BY <2>2 DEF IntakeInv, RowsHaveEvent
  <2>5. decision[m] # "approve" /\ setup[m] = NoProfile
      BY <2>4 DEF IntakeInv, DecisionOK, OnePreparation
  <2>6. TypeOK'
    <3>1. delivery[d] \in Received
        BY <1>2 DEF IntakeInv, TypeOK, AcceptEvent, NotSent
    <3>2. [delivery[d] EXCEPT !.step = "queued"] \in Received
        BY <3>1 DEF Received
    <3>3. delivery' = [delivery EXCEPT ![d] = [delivery[d] EXCEPT !.step = "queued"]]
        BY <2>2 DEF IntakeInv, TypeOK
    <3>4. delivery' \in [Deliveries -> Received \cup {NotSent}]
        BY <3>2, <3>3 DEF IntakeInv, TypeOK
    <3>6. thread' \in [Messages -> {"absent", "pending_model_profile", "pending_task_parse", "authorized"}]
        BY <2>2 DEF IntakeInv, TypeOK, PendingStatus
    <3>7. event' \in [Messages -> [body : Bodies, prof : MaybeProfile] \cup {NoEvent}]
        BY <2>1, <2>2 DEF IntakeInv, TypeOK
    <3> QED BY <2>2, <3>4, <3>6, <3>7 DEF IntakeInv, TypeOK, Queue!QueueTypeOK, Queue!RowStates
  <2>7. \A i \in Items : row'[i] # "absent" <=> row[i] # "absent" \/ i = EventRow(m)
      BY <2>2 DEF IntakeInv, TypeOK, Queue!QueueTypeOK
  <2>8. RunsExist' /\ RowsHaveEvent' /\ EventHasRow' /\ ClickOK' /\ SetupUsed' /\ CardsOK'
    <3>1. RunsExist' /\ ClickOK' /\ SetupUsed'
        BY <2>2, <2>7 DEF IntakeInv, TypeOK, Queue!QueueTypeOK, RunsExist, ClickOK, SetupUsed
    <3>2. RowsHaveEvent' /\ EventHasRow'
        BY <2>3, <2>7 DEF IntakeInv, RowsHaveEvent, EventHasRow
    <3>3. CardsOK'
        BY <2>2, <2>7 DEF IntakeInv, CardsOK
    <3> QED BY <3>1, <3>2, <3>3
  <2>9. \A i \in Items : row[i] # "absent" => IsPrepare(i)' = IsPrepare(i)
      BY <2>3, <2>4 DEF IsPrepare
  <2>10. SessionOK' /\ SentExist'
      BY <2>2, <2>7, <2>9 DEF IntakeInv, TypeOK, Queue!QueueTypeOK, RunsExist, SessionOK, SentExist
  <2>11. OnePreparation'
      BY <2>2, <2>3, <2>5, <2>7 DEF IntakeInv, OnePreparation
  <2>12. DecisionOK'
      BY <2>2, <2>5, <2>7 DEF IntakeInv, TypeOK, DecisionOK, PendingStatus
  <2> QED BY <2>6, <2>8, <2>10, <2>11, <2>12 DEF IntakeInv
<1>3. ASSUME NEW d \in Deliveries, RefuseEvent(d) PROVE IntakeInv'
  <2>1. TypeOK'
    <3>1. delivery[d] \in Received
        BY <1>3 DEF IntakeInv, TypeOK, RefuseEvent, NotSent
    <3>2. PICK reply \in {"error", "duplicate"} :
              delivery' = [delivery EXCEPT ![d] = [delivery[d] EXCEPT !.step = reply]]
        BY <1>3 DEF IntakeInv, TypeOK, RefuseEvent
    <3>3. [delivery[d] EXCEPT !.step = reply] \in Received
        BY <3>1 DEF Received
    <3>4. delivery' \in [Deliveries -> Received \cup {NotSent}]
        BY <3>2, <3>3 DEF IntakeInv, TypeOK
    <3> QED BY <1>3, <3>4 DEF IntakeInv, RefuseEvent, TypeOK, Queue!QueueTypeOK
  <2>2. RunsExist' /\ SessionOK' /\ RowsHaveEvent' /\ EventHasRow' /\ SentExist' /\ ClickOK'
        /\ OnePreparation' /\ SetupUsed' /\ CardsOK' /\ DecisionOK'
      BY <1>3 DEF IntakeInv, RefuseEvent, RunsExist, SessionOK, IsPrepare, RowsHaveEvent, EventHasRow,
         SentExist, ClickOK, OnePreparation, SetupUsed, CardsOK, DecisionOK
  <2> QED BY <2>1, <2>2 DEF IntakeInv
<1>4. ASSUME NEW c \in Callers, NEW m \in Messages, SubmitSetup(c, m) PROVE IntakeInv'
  <2>1. TypeOK' /\ ClickOK'
      BY <1>4 DEF IntakeInv, SubmitSetup, SetupTaken, TypeOK, Queue!QueueTypeOK, ClickOK
  <2>2. RunsExist' /\ SessionOK' /\ RowsHaveEvent' /\ EventHasRow' /\ SentExist'
        /\ OnePreparation' /\ SetupUsed' /\ CardsOK' /\ DecisionOK'
      BY <1>4 DEF IntakeInv, SubmitSetup, SetupTaken, RunsExist, SessionOK, IsPrepare, RowsHaveEvent, EventHasRow,
         SentExist, OnePreparation, SetupUsed, CardsOK, DecisionOK
  <2> QED BY <2>1, <2>2 DEF IntakeInv
<1>5. ASSUME NEW c \in Callers, NEW p \in Profiles, NEW makeDefault \in BOOLEAN,
             CommitSetup(c, p, makeDefault)
      PROVE  IntakeInv'
  <2>1. PICK m \in Messages : m = click[c].msg
      BY <1>5 DEF IntakeInv, TypeOK, CommitSetup, SetupTaken
  <2>2. /\ setup[m] = NoProfile /\ setup' = [setup EXCEPT ![m] = p]
        /\ profile[p] = "unused" /\ profile' = [profile EXCEPT ![p] = "active"]
        /\ default' \in {p, default} /\ EventRow(m) \in sent
        /\ row[SetupPrepareRow(m)] = "absent" /\ row' = [row EXCEPT ![SetupPrepareRow(m)] = "open"]
        /\ click' = [click EXCEPT ![c] = NoClick]
        /\ UNCHANGED <<run, intake, cards, sent, confirm, session, faults>>
      BY <1>5, <2>1 DEF CommitSetup, SetupTaken, NewDefault, Queue!Enqueue, IntakeInv, ClickOK
  <2>3. \A i \in Items : row'[i] # "absent" <=> row[i] # "absent" \/ i = SetupPrepareRow(m)
      BY <2>2 DEF IntakeInv, TypeOK, Queue!QueueTypeOK
  <2>4. event[m] # NoEvent /\ event[m].prof = NoProfile
      BY <2>2 DEF IntakeInv, SentExist, RowsHaveEvent, IsPrepare
  <2>5. TypeOK'
      BY <2>2 DEF IntakeInv, TypeOK, Queue!QueueTypeOK, Queue!RowStates, MaybeProfile
  <2>6. RunsExist' /\ SessionOK' /\ RowsHaveEvent' /\ EventHasRow' /\ SentExist' /\ ClickOK'
        /\ CardsOK' /\ DecisionOK'
      BY <2>2, <2>3, <2>4 DEF IntakeInv, TypeOK, Queue!QueueTypeOK, RunsExist, SessionOK, IsPrepare,
         RowsHaveEvent, EventHasRow, SentExist, ClickOK, CardsOK, DecisionOK
  <2>7. p # NoProfile /\ \A n \in Messages : setup[n] # p
      BY <2>2 DEF IntakeInv, SetupUsed
  <2>8. OnePreparation' /\ SetupUsed'
      BY <2>2, <2>3, <2>4, <2>7 DEF IntakeInv, TypeOK, OnePreparation, SetupUsed, MaybeProfile
  <2> QED BY <2>5, <2>6, <2>8 DEF IntakeInv
<1>6. ASSUME NEW c \in Callers, RefuseSetup(c) PROVE IntakeInv'
  <2>1. TypeOK' /\ ClickOK'
      BY <1>6 DEF IntakeInv, RefuseSetup, TypeOK, Queue!QueueTypeOK, ClickOK
  <2>2. RunsExist' /\ SessionOK' /\ RowsHaveEvent' /\ EventHasRow' /\ SentExist'
        /\ OnePreparation' /\ SetupUsed' /\ CardsOK' /\ DecisionOK'
      BY <1>6 DEF IntakeInv, RefuseSetup, RunsExist, SessionOK, IsPrepare, RowsHaveEvent, EventHasRow,
         SentExist, OnePreparation, SetupUsed, CardsOK, DecisionOK
  <2> QED BY <2>1, <2>2 DEF IntakeInv
<1>7. ASSUME NEW p \in Profiles, RevokeProfile(p) PROVE IntakeInv'
  <2>1. TypeOK' /\ SetupUsed'
      BY <1>7 DEF IntakeInv, RevokeProfile, TypeOK, Queue!QueueTypeOK, SetupUsed, MaybeProfile
  <2>2. RunsExist' /\ SessionOK' /\ RowsHaveEvent' /\ EventHasRow' /\ SentExist' /\ ClickOK'
        /\ OnePreparation' /\ CardsOK' /\ DecisionOK'
      BY <1>7 DEF IntakeInv, RevokeProfile, RunsExist, SessionOK, IsPrepare, RowsHaveEvent, EventHasRow,
         SentExist, ClickOK, OnePreparation, CardsOK, DecisionOK
  <2> QED BY <2>1, <2>2 DEF IntakeInv
<1>8. ASSUME NEW m \in Messages, RejectTask(m) PROVE IntakeInv'
  <2>1. decision[m] = "none" /\ decision' = [decision EXCEPT ![m] = "reject"] /\ ConfirmCard(m) \in sent
      BY <1>8 DEF RejectTask
  <2>2. TypeOK' /\ DecisionOK'
      BY <1>8, <2>1 DEF IntakeInv, RejectTask, TypeOK, Decisions, Queue!QueueTypeOK, DecisionOK
  <2>3. RunsExist' /\ SessionOK' /\ RowsHaveEvent' /\ EventHasRow' /\ SentExist' /\ ClickOK'
        /\ OnePreparation' /\ SetupUsed' /\ CardsOK'
      BY <1>8 DEF IntakeInv, RejectTask, RunsExist, SessionOK, IsPrepare, RowsHaveEvent, EventHasRow,
         SentExist, ClickOK, OnePreparation, SetupUsed, CardsOK
  <2> QED BY <2>2, <2>3 DEF IntakeInv
<1>9. ASSUME NEW m \in Messages, ApproveTask(m) PROVE IntakeInv'
  <2>1. /\ ConfirmCard(m) \in sent /\ decision[m] = "none"
        /\ decision' = [decision EXCEPT ![m] = "approve"]
        /\ thread' = [thread EXCEPT ![m] = "authorized"]
        /\ dispatched' = [dispatched EXCEPT ![m] = task[m]]
        /\ row[DispatchRow(m)] = "absent" /\ row' = [row EXCEPT ![DispatchRow(m)] = "open"]
        /\ UNCHANGED <<run, profiles, event, delivery, forms, cards, sent, session, faults>>
      BY <1>9 DEF ApproveTask, AuthorizeThread, Queue!Enqueue
  <2>2. \A i \in Items : row'[i] # "absent" <=> row[i] # "absent" \/ i = DispatchRow(m)
      BY <2>1 DEF IntakeInv, TypeOK, Queue!QueueTypeOK
  <2>3. event[m] # NoEvent
      BY <2>1 DEF IntakeInv, SentExist, RowsHaveEvent
  <2>4. TypeOK'
      BY <2>1 DEF IntakeInv, TypeOK, Decisions, Queue!QueueTypeOK, Queue!RowStates
  <2>5. RunsExist' /\ SessionOK' /\ RowsHaveEvent' /\ EventHasRow' /\ SentExist' /\ ClickOK'
        /\ SetupUsed' /\ CardsOK' /\ OnePreparation'
    <3>1. RunsExist' /\ SessionOK' /\ SentExist' /\ ClickOK' /\ SetupUsed'
        BY <2>1, <2>2 DEF IntakeInv, TypeOK, Queue!QueueTypeOK, RunsExist, SessionOK, IsPrepare,
           SentExist, ClickOK, SetupUsed
    <3>2. RowsHaveEvent' /\ EventHasRow'
        BY <2>1, <2>2, <2>3 DEF IntakeInv, RowsHaveEvent, EventHasRow
    <3>3. CardsOK' /\ OnePreparation'
        BY <2>1, <2>2 DEF IntakeInv, CardsOK, OnePreparation
    <3> QED BY <3>1, <3>2, <3>3
  <2>6. DecisionOK'
      BY <2>1, <2>2 DEF IntakeInv, TypeOK, DecisionOK
  <2> QED BY <2>4, <2>5, <2>6 DEF IntakeInv
<1>10. ASSUME NEW w \in Workers, Begin(w) PROVE IntakeInv'
  <2>1. PICK i \in Items : i[1] # "graph_dispatch" /\ Queue!Start(w, i)
      BY <1>10 DEF Begin
  <2>2. /\ run[w] = NoItem /\ row[i] # "absent" /\ run' = [run EXCEPT ![w] = i] /\ row' = row
        /\ session' = [session EXCEPT ![w].step = "begun"]
        /\ UNCHANGED <<profiles, intake, forms, cards, sent, confirm, faults>>
      BY <1>10, <2>1 DEF Begin, Queue!Start
  <2>3. TypeOK'
    <3>1. session[w] \in Sessions
        BY DEF IntakeInv, TypeOK
    <3>2. [session[w] EXCEPT !.step = "begun"] \in Sessions
        BY <3>1 DEF Sessions
    <3>3. session' = [session EXCEPT ![w] = [session[w] EXCEPT !.step = "begun"]]
        BY <2>2 DEF IntakeInv, TypeOK
    <3> QED BY <2>2, <3>2, <3>3 DEF IntakeInv, TypeOK, Queue!QueueTypeOK
  <2>4. RunsExist' /\ SessionOK'
      BY <2>1, <2>2 DEF IntakeInv, TypeOK, Queue!QueueTypeOK, RunsExist, SessionOK, IsPrepare
  <2>5. RowsHaveEvent' /\ EventHasRow' /\ SentExist' /\ ClickOK' /\ OnePreparation' /\ SetupUsed'
        /\ CardsOK' /\ DecisionOK'
      BY <2>2 DEF IntakeInv, IsPrepare, RowsHaveEvent, EventHasRow,
         SentExist, ClickOK, OnePreparation, SetupUsed, CardsOK, DecisionOK
  <2> QED BY <2>3, <2>4, <2>5 DEF IntakeInv
<1>11. ASSUME NEW w \in Workers, NEW r \in Parses \cup Errors, ParseMessage(w, r) PROVE IntakeInv'
  <2>1. TypeOK'
      BY <1>11 DEF IntakeInv, ParseMessage, TypeOK, Sessions, Queue!QueueTypeOK
  <2>2. SessionOK'
      BY <1>11 DEF IntakeInv, ParseMessage, TypeOK, SessionOK, IsPrepare
  <2>3. RunsExist' /\ RowsHaveEvent' /\ EventHasRow' /\ SentExist' /\ ClickOK' /\ OnePreparation'
        /\ SetupUsed' /\ CardsOK' /\ DecisionOK'
      BY <1>11 DEF IntakeInv, ParseMessage, RunsExist, IsPrepare, RowsHaveEvent, EventHasRow,
         SentExist, ClickOK, OnePreparation, SetupUsed, CardsOK, DecisionOK
  <2> QED BY <2>1, <2>2, <2>3 DEF IntakeInv
<1>12. ASSUME NEW w \in Workers, PrepareCard(w) PROVE IntakeInv'
  <2>0. session[w].step = "parsed" /\ session[w] \in Sessions /\ session[w].result \in Parses
      BY <1>12 DEF PrepareCard, IntakeInv, TypeOK
  <2>1. /\ run[w] # NoItem /\ run[w] \in Items /\ event[run[w][2]] # NoEvent
        /\ PreparedWith(run[w][2]) \in Profiles
      BY <2>0, PreparedProfile DEF IntakeInv, SessionOK
  <2>2. PICK m \in Messages, new \in Tasks :
            m = run[w][2] /\ new = <<session[w].result, PreparedWith(m)>>
      BY <2>0, <2>1 DEF Tasks
  <2>3. PICK add \in SUBSET Items :
            add = IF row[ConfirmCard(m)] = "absent" THEN {ConfirmCard(m)} ELSE {}
    <3>1. ConfirmCard(m) \in Items
        BY <2>2
    <3>2. CASE row[ConfirmCard(m)] = "absent"
        BY <3>1, <3>2, {ConfirmCard(m)} \in SUBSET Items
    <3>3. CASE row[ConfirmCard(m)] # "absent"
        BY <3>3, {} \in SUBSET Items
    <3> QED BY <3>2, <3>3
  <2>4. /\ task[m] \in {NoTask, new} /\ task' = [task EXCEPT ![m] = new]
        /\ card' = [card EXCEPT ![m] = IF card[m] = NoTask THEN new ELSE card[m]]
        /\ session' = [session EXCEPT ![w] = Idle] /\ Queue!Settle(w, "succeeded", add)
        /\ UNCHANGED <<profiles, intake, forms, failure, sent, confirm, faults>>
      BY <1>12, <2>2, <2>3 DEF PrepareCard, StoreTask
  <2>5. /\ Queue!QueueTypeOK'
        /\ \A i \in Items : row'[i] # "absent" <=> row[i] # "absent" \/ i \in add
        /\ run'[w] = NoItem /\ \A v \in Workers : v # w => run'[v] = run[v]
      BY <2>4, SettleFacts
  <2>6. new # NoTask /\ \A n \in Messages : n # m => task'[n] = task[n] /\ card'[n] = card[n]
    <3>1. new # NoTask
        BY <2>2
    <3>2. task \in [Messages -> Tasks \cup {NoTask}] /\ card \in [Messages -> Tasks \cup {NoTask}]
        BY DEF IntakeInv, TypeOK
    <3> QED BY <2>4, <3>1, <3>2
  <2>7. task'[m] = new /\ card'[m] = new
      BY <2>4 DEF IntakeInv, TypeOK, CardsOK
  <2>8. TypeOK'
      BY <2>4, <2>5, <2>7 DEF IntakeInv, TypeOK, Idle, Sessions
  <2>9. RunsExist' /\ SessionOK'
    <3>1. session'[w] = Idle /\ \A v \in Workers : v # w => session'[v] = session[v]
        BY <2>4 DEF IntakeInv, TypeOK
    <3>2. \A i \in Items : IsPrepare(i)' <=> IsPrepare(i)
        BY <2>4 DEF IsPrepare
    <3>3. RunsExist'
        BY <2>5 DEF IntakeInv, TypeOK, Queue!QueueTypeOK, RunsExist
    <3>4. SessionOK'
        BY <2>5, <3>1, <3>2 DEF IntakeInv, TypeOK, Queue!QueueTypeOK, SessionOK, Idle
    <3> QED BY <3>3, <3>4
  <2>10. RowsHaveEvent' /\ EventHasRow' /\ SentExist' /\ ClickOK' /\ SetupUsed'
    <3>1. RowsHaveEvent' /\ EventHasRow'
        BY <2>1, <2>2, <2>3, <2>4, <2>5 DEF IntakeInv, RowsHaveEvent, EventHasRow
    <3>2. SentExist' /\ ClickOK' /\ SetupUsed'
        BY <2>4, <2>5 DEF IntakeInv, TypeOK, SentExist, IsPrepare, ClickOK, SetupUsed
    <3> QED BY <3>1, <3>2
  <2>11. CardsOK' /\ OnePreparation'
    <3>1. CardsOK'
        BY <2>3, <2>5, <2>6, <2>7 DEF IntakeInv, CardsOK
    <3>2. OnePreparation'
        BY <2>3, <2>4, <2>5 DEF IntakeInv, OnePreparation
    <3> QED BY <3>1, <3>2
  <2>12. DecisionOK'
    <3>1. \A n \in Messages : row'[DispatchRow(n)] # "absent" <=> row[DispatchRow(n)] # "absent"
        BY <2>3, <2>5
    <3>2. decision[m] = "approve" => task[m] = new
        BY <2>4 DEF IntakeInv, DecisionOK, SentExist, CardsOK
    <3> QED BY <2>4, <2>6, <2>7, <3>1, <3>2 DEF IntakeInv, DecisionOK
  <2> QED BY <2>8, <2>9, <2>10, <2>11, <2>12 DEF IntakeInv
<1>13. ASSUME NEW w \in Workers, FailPreparation(w) PROVE IntakeInv'
  <2>0. session[w].step = "parsed" /\ session[w] \in Sessions
      BY <1>13 DEF FailPreparation, IntakeInv, TypeOK
  <2>1. run[w] # NoItem /\ run[w] \in Items /\ event[run[w][2]] # NoEvent
      BY <2>0, PreparedProfile DEF IntakeInv, SessionOK
  <2>2. PICK m \in Messages : m = run[w][2]
      BY <2>1
  <2>3. PICK e \in Errors : e = PrepareError(w)
      BY <1>13 DEF FailPreparation, PrepareError
  <2>4. PICK add \in SUBSET Items :
            add = IF row[FailedCard(m)] = "absent" THEN {FailedCard(m)} ELSE {}
    <3>1. FailedCard(m) \in Items
        BY <2>2
    <3>2. CASE row[FailedCard(m)] = "absent"
        BY <3>1, <3>2, {FailedCard(m)} \in SUBSET Items
    <3>3. CASE row[FailedCard(m)] # "absent"
        BY <3>3, {} \in SUBSET Items
    <3> QED BY <3>2, <3>3
  <2>5. /\ failure' = [failure EXCEPT ![m] = e] /\ Queue!Settle(w, "succeeded", add)
        /\ session' = [session EXCEPT ![w] = Idle]
        /\ UNCHANGED <<profiles, intake, forms, task, card, sent, confirm, faults>>
      BY <1>13, <2>2, <2>3, <2>4 DEF FailPreparation
  <2>6. /\ Queue!QueueTypeOK'
        /\ \A i \in Items : row'[i] # "absent" <=> row[i] # "absent" \/ i \in add
        /\ run'[w] = NoItem /\ \A v \in Workers : v # w => run'[v] = run[v]
      BY <2>5, SettleFacts
  <2>7. TypeOK'
      BY <2>5, <2>6 DEF IntakeInv, TypeOK, Idle, Sessions
  <2>8. RunsExist' /\ SessionOK'
    <3>1. session'[w] = Idle /\ \A v \in Workers : v # w => session'[v] = session[v]
        BY <2>5 DEF IntakeInv, TypeOK
    <3>3. RunsExist'
        BY <2>6 DEF IntakeInv, TypeOK, Queue!QueueTypeOK, RunsExist
    <3>4. \A v \in Workers : v # w =>
              /\ session'[v].step = "idle" <=> run'[v] = NoItem
              /\ session'[v].step = "parsed" => IsPrepare(run[v])'
        BY <2>5, <2>6, <3>1 DEF IntakeInv, SessionOK, IsPrepare
    <3>5. SessionOK'
        BY <2>6, <3>1, <3>4 DEF SessionOK, Idle
    <3> QED BY <3>3, <3>5
  <2>9. RowsHaveEvent' /\ EventHasRow'
      BY <2>1, <2>2, <2>4, <2>5, <2>6 DEF IntakeInv, RowsHaveEvent, EventHasRow
  <2>10. SentExist' /\ ClickOK' /\ SetupUsed'
      BY <2>5, <2>6 DEF IntakeInv, TypeOK, SentExist, IsPrepare, ClickOK, SetupUsed
  <2>11. CardsOK' /\ OnePreparation' /\ DecisionOK'
      BY <2>4, <2>5, <2>6 DEF IntakeInv, CardsOK, OnePreparation, DecisionOK
  <2> QED BY <2>7, <2>8, <2>9, <2>10, <2>11 DEF IntakeInv
<1>14. ASSUME NEW w \in Workers, FailPreparationAgain(w) \/ CommitSent(w) PROVE IntakeInv'
  <2>1. PICK outcome \in {"succeeded", "open", "dead_letter"} : Queue!Settle(w, outcome, {})
      BY <1>14 DEF FailPreparationAgain, CommitSent
  <2>2. /\ session' = [session EXCEPT ![w] = Idle] /\ faults' = faults
        /\ UNCHANGED <<profiles, intake, forms, cards, sent, confirm>>
      BY <1>14 DEF FailPreparationAgain, CommitSent
  <2>3. faults' \in 0..MaxFaults
      BY <2>2 DEF IntakeInv, TypeOK
  <2>4. /\ Queue!QueueTypeOK' /\ \A i \in Items : row'[i] # "absent" <=> row[i] # "absent"
        /\ run'[w] = NoItem /\ \A v \in Workers : v # w => run'[v] = run[v]
    <3>1. {} \in SUBSET Items
        OBVIOUS
    <3> QED BY <2>1, <3>1, SettleFacts
  <2> QED BY <2>2, <2>3, <2>4, EndKeeps
<1>15. ASSUME NEW w \in Workers, SendCard(w) PROVE IntakeInv'
  <2>1. /\ sent' = sent \cup {run[w]} /\ session' = [session EXCEPT ![w].step = "sent"]
        /\ session[w].step = "begun" /\ ~ IsPrepare(run[w])
        /\ UNCHANGED <<queue, profiles, intake, forms, cards, confirm, faults>>
      BY <1>15 DEF SendCard
  <2>2. run[w] \in Items /\ row[run[w]] # "absent" /\ session[w] \in Sessions
      BY <2>1 DEF IntakeInv, TypeOK, Queue!QueueTypeOK, SessionOK, RunsExist
  <2>3. TypeOK'
    <3>1. [session[w] EXCEPT !.step = "sent"] \in Sessions
        BY <2>2 DEF Sessions
    <3>2. session' = [session EXCEPT ![w] = [session[w] EXCEPT !.step = "sent"]]
        BY <2>1 DEF IntakeInv, TypeOK
    <3> QED BY <2>1, <2>2, <3>1, <3>2 DEF IntakeInv, TypeOK, Queue!QueueTypeOK
  <2>4. RunsExist' /\ SessionOK' /\ SentExist' /\ ClickOK'
      BY <2>1, <2>2 DEF IntakeInv, TypeOK, RunsExist, SessionOK, SentExist, ClickOK, IsPrepare, Sessions
  <2>5. RowsHaveEvent' /\ EventHasRow' /\ OnePreparation' /\ SetupUsed' /\ CardsOK' /\ DecisionOK'
      BY <2>1 DEF IntakeInv, RowsHaveEvent, EventHasRow, OnePreparation, SetupUsed, CardsOK, DecisionOK
  <2> QED BY <2>3, <2>4, <2>5 DEF IntakeInv
<1>16. ASSUME NEW w \in Workers, Fault(w) PROVE IntakeInv'
  <2>1. /\ session' = [session EXCEPT ![w] = Idle]
        /\ UNCHANGED <<profiles, intake, forms, cards, sent, confirm>>
      BY <1>16 DEF Fault
  <2>2. faults' \in 0..MaxFaults
      BY <1>16 DEF Fault, IntakeInv, TypeOK
  <2>3. CASE Queue!Abandon(w)
    <3>1. /\ Queue!QueueTypeOK' /\ row' = row
          /\ run'[w] = NoItem /\ \A v \in Workers : v # w => run'[v] = run[v]
        BY <2>3 DEF Queue!Abandon, IntakeInv, TypeOK, Queue!QueueTypeOK
    <3> QED BY <2>1, <2>2, <3>1, EndKeeps
  <2>4. CASE Queue!Settle(w, "open", {})
    <3>1. {} \in SUBSET Items
        OBVIOUS
    <3>2. /\ Queue!QueueTypeOK' /\ \A i \in Items : row'[i] # "absent" <=> row[i] # "absent"
          /\ run'[w] = NoItem /\ \A v \in Workers : v # w => run'[v] = run[v]
        BY <2>4, <3>1, SettleFacts
    <3> QED BY <2>1, <2>2, <3>2, EndKeeps
  <2> QED BY <1>16, <2>3, <2>4 DEF Fault
<1>17. CASE UNCHANGED vars
  <2>1. TypeOK'
      BY <1>17 DEF vars, IntakeInv, TypeOK, Queue!QueueTypeOK
  <2>2. RunsExist' /\ SessionOK' /\ RowsHaveEvent' /\ EventHasRow' /\ SentExist' /\ ClickOK'
        /\ OnePreparation' /\ SetupUsed' /\ CardsOK' /\ DecisionOK'
      BY <1>17 DEF vars, IntakeInv, RunsExist, SessionOK, IsPrepare, RowsHaveEvent, EventHasRow,
         SentExist, ClickOK, OnePreparation, SetupUsed, CardsOK, DecisionOK
  <2> QED BY <2>1, <2>2 DEF IntakeInv
<1> QED
    BY <1>1, <1>2, <1>3, <1>4, <1>5, <1>6, <1>7, <1>8, <1>9, <1>10, <1>11, <1>12, <1>13, <1>14,
       <1>15, <1>16, <1>17 DEF Next, SetupForms, EventStep, HandlerStep

(* IntakeInv is an invariant of the intake.                                *)
LEMMA IntakeInvariant == Spec => []IntakeInv
BY InitIntakeInv, NextIntakeInv, PTL DEF Spec

-----------------------------------------------------------------------------
(* The tables, requests and workers of the intake keep their types.        *)
THEOREM IntakeTypeOK == Spec => []TypeOK
<1>1. IntakeInv => TypeOK
    BY DEF IntakeInv
<1> QED BY <1>1, IntakeInvariant, PTL

(* Redelivered events, repeated forms and revoked profiles never prepare a *)
(* message twice.                                                          *)
THEOREM IntakeOnePreparation == Spec => []OnePreparation
<1>1. IntakeInv => OnePreparation
    BY DEF IntakeInv
<1> QED BY <1>1, IntakeInvariant, PTL

(* A graph is dispatched for approved messages only, on the task that was  *)
(* shown to the user who approved it.                                      *)
THEOREM IntakeDispatchedAsShown == Spec => []DispatchedAsShown
<1>1. ASSUME IntakeInv PROVE DispatchedAsShown
    BY <1>1, RowFacts DEF IntakeInv, DispatchedAsShown, DecisionOK, CardsOK, SentExist
<1> QED BY <1>1, IntakeInvariant, PTL

(* No step takes an authorization or a decision back.                      *)
THEOREM IntakeAuthorizationKept == Spec => AuthorizationKept
<1> DEFINE Kept ==
      \A m \in Messages :
          /\ thread[m] = "authorized" => thread'[m] = "authorized"
          /\ decision[m] # "none" => decision'[m] = decision[m]
<1>1. ASSUME IntakeInv, [Next]_vars PROVE [Kept]_vars
  <2> USE DEF queue, profiles, intake, forms, cards, confirm
  <2>1. ASSUME NEW d \in Deliveries, AcceptEvent(d) PROVE Kept
    <3>1. \A m \in Messages : thread[m] = "authorized" => event[m] # NoEvent
        BY <1>1, RowFacts DEF IntakeInv, DecisionOK, RowsHaveEvent
    <3> QED BY <1>1, <2>1, <3>1 DEF IntakeInv, TypeOK, AcceptEvent
  <2>2. ASSUME NEW m \in Messages, RejectTask(m) \/ ApproveTask(m) PROVE Kept
      BY <1>1, <2>2 DEF IntakeInv, TypeOK, RejectTask, ApproveTask, AuthorizeThread
  <2>3. ASSUME NEW d \in Deliveries, NEW m \in Messages, NEW b \in Bodies, ReadDefault(d, m, b)
        PROVE  Kept
      BY <2>3 DEF ReadDefault
  <2>4. ASSUME NEW d \in Deliveries, RefuseEvent(d) PROVE Kept
      BY <2>4 DEF RefuseEvent
  <2>5. ASSUME NEW c \in Callers, NEW m \in Messages, SubmitSetup(c, m) PROVE Kept
      BY <2>5 DEF SubmitSetup, SetupTaken
  <2>6. ASSUME NEW c \in Callers, NEW p \in Profiles, NEW makeDefault \in BOOLEAN,
               CommitSetup(c, p, makeDefault)
        PROVE  Kept
      BY <2>6 DEF CommitSetup, SetupTaken
  <2>7. ASSUME NEW c \in Callers, RefuseSetup(c) PROVE Kept
      BY <2>7 DEF RefuseSetup
  <2>8. ASSUME NEW p \in Profiles, RevokeProfile(p) PROVE Kept
      BY <2>8 DEF RevokeProfile
  <2>9. ASSUME NEW w \in Workers, HandlerStep(w) \/ Fault(w) PROVE Kept
      BY <2>9 DEF HandlerStep, Fault, Begin, ParseMessage, PrepareCard, FailPreparation,
         FailPreparationAgain, SendCard, CommitSent
  <2> QED
      BY <1>1, <2>1, <2>2, <2>3, <2>4, <2>5, <2>6, <2>7, <2>8, <2>9 DEF Next, SetupForms, EventStep
<1> QED BY <1>1, IntakeInvariant, PTL DEF Spec, AuthorizationKept

-----------------------------------------------------------------------------
(* A run that ends is a step of the queue, whatever it settles its row as. *)
LEMMA SettleIsQueueStep ==
    ASSUME NEW w \in Workers, NEW outcome \in Queue!RowStates \ {"absent"},
           NEW new \in SUBSET Items, Queue!Settle(w, outcome, new)
    PROVE  Queue!Next
BY DEF Queue!Next

(* A received message, a form, an approval, a claim and the ends of a run  *)
(* are the intake's only queue steps.  A row is inserted under its key     *)
(* once, and a handler inserts rows of its own message only.               *)
LEMMA NextIsQueueStep == IntakeInv /\ [Next]_vars => [Queue!Next]_(Queue!queueVars)
<1> SUFFICES ASSUME IntakeInv, [Next]_vars PROVE [Queue!Next]_(Queue!queueVars)
    OBVIOUS
<1>1. ASSUME UNCHANGED queue PROVE UNCHANGED Queue!queueVars
    BY <1>1 DEF queue, Queue!queueVars
<1>2. /\ "succeeded" \in Queue!RowStates \ {"absent"} /\ "open" \in Queue!RowStates \ {"absent"}
      /\ "dead_letter" \in Queue!RowStates \ {"absent"}
    BY DEF Queue!RowStates
<1>3. ASSUME NEW i \in Items, Queue!Enqueue(i) PROVE Queue!Next
    BY <1>3 DEF Queue!Next
<1>4. ASSUME NEW d \in Deliveries, AcceptEvent(d) PROVE Queue!Next
  <2>1. PICK i \in Items : i = EventRow(delivery[d].msg)
    <3>1. delivery[d].msg \in Messages
        BY <1>4 DEF IntakeInv, TypeOK, AcceptEvent, Received, NotSent
    <3> QED BY <3>1, RowFacts
  <2>2. Queue!Enqueue(i)
      BY <1>4, <2>1 DEF AcceptEvent, Queue!Enqueue
  <2> QED BY <1>3, <2>2
<1>5. ASSUME NEW c \in Callers, NEW p, NEW b, CommitSetup(c, p, b) PROVE Queue!Next
  <2>1. PICK i \in Items : i = SetupPrepareRow(click[c].msg)
      BY <1>5, RowFacts DEF IntakeInv, TypeOK, CommitSetup
  <2>2. Queue!Enqueue(i)
      BY <1>5, <2>1 DEF CommitSetup, Queue!Enqueue
  <2> QED BY <1>3, <2>2
<1>6. ASSUME NEW m \in Messages, ApproveTask(m) PROVE Queue!Next
  <2>1. DispatchRow(m) \in Items
      BY RowFacts
  <2> QED BY <1>3, <1>6, <2>1 DEF ApproveTask
<1>7. ASSUME NEW w \in Workers, Begin(w) PROVE Queue!Next
    BY <1>7 DEF Begin, Queue!Next
<1>8. ASSUME NEW w \in Workers, session[w].step = "parsed" PROVE run[w][2] \in Messages
  <2>1. run[w] \in Items
      BY <1>8 DEF IntakeInv, TypeOK, Queue!QueueTypeOK, SessionOK
  <2> QED BY <2>1, RowFacts
<1>9. ASSUME NEW w \in Workers, PrepareCard(w) PROVE Queue!Next
  <2>1. PICK new \in SUBSET Items :
            new = IF row[ConfirmCard(run[w][2])] = "absent" THEN {ConfirmCard(run[w][2])} ELSE {}
    <3>1. run[w][2] \in Messages
        BY <1>8, <1>9 DEF PrepareCard
    <3> QED BY <3>1, RowFacts
  <2>2. Queue!Settle(w, "succeeded", new)
      BY <1>9, <2>1 DEF PrepareCard, Queue!Settle
  <2> QED BY <1>2, <2>2, SettleIsQueueStep
<1>10. ASSUME NEW w \in Workers, FailPreparation(w) PROVE Queue!Next
  <2>1. PICK new \in SUBSET Items :
            new = IF row[FailedCard(run[w][2])] = "absent" THEN {FailedCard(run[w][2])} ELSE {}
    <3>1. run[w][2] \in Messages
        BY <1>8, <1>10 DEF FailPreparation
    <3> QED BY <3>1, RowFacts
  <2>2. Queue!Settle(w, "succeeded", new)
      BY <1>10, <2>1 DEF FailPreparation, Queue!Settle
  <2> QED BY <1>2, <2>2, SettleIsQueueStep
<1>11. ASSUME NEW w \in Workers, FailPreparationAgain(w) \/ CommitSent(w) PROVE Queue!Next
    BY <1>2, <1>11, SettleIsQueueStep DEF FailPreparationAgain, CommitSent
<1>12. ASSUME NEW w \in Workers, Fault(w) PROVE Queue!Next
  <2>1. ASSUME Queue!Settle(w, "open", {}) PROVE Queue!Next
      BY <1>2, <2>1, SettleIsQueueStep
  <2>2. ASSUME Queue!Abandon(w) PROVE Queue!Next
      BY <2>2 DEF Queue!Next
  <2> QED BY <1>12, <2>1, <2>2 DEF Fault
<1>13. ASSUME NEW d \in Deliveries,
              RefuseEvent(d) \/ \E m \in Messages, b \in Bodies : ReadDefault(d, m, b)
       PROVE  UNCHANGED queue
    BY <1>13 DEF RefuseEvent, ReadDefault, queue
<1>14. ASSUME NEW c \in Callers, RefuseSetup(c) \/ \E m \in Messages : SubmitSetup(c, m)
       PROVE  UNCHANGED queue
    BY <1>14 DEF RefuseSetup, SubmitSetup, queue
<1>15. ASSUME (\E p \in Profiles : RevokeProfile(p)) \/ (\E m \in Messages : RejectTask(m))
       PROVE  UNCHANGED queue
    BY <1>15 DEF RevokeProfile, RejectTask, queue
<1>16. ASSUME NEW w \in Workers, SendCard(w) \/ \E r \in Parses \cup Errors : ParseMessage(w, r)
       PROVE  UNCHANGED queue
    BY <1>16 DEF SendCard, ParseMessage, queue
<1>17. ASSUME UNCHANGED vars PROVE UNCHANGED queue
    BY <1>17 DEF vars, queue
<1> QED BY <1>1, <1>4, <1>5, <1>6, <1>7, <1>9, <1>10, <1>11, <1>12, <1>13, <1>14, <1>15, <1>16, <1>17
        DEF Next, EventStep, HandlerStep

(* The intake asks of the outbox only what the durable queue offers, so    *)
(* that OutboxImplementsQueue and the theorems above are about one system. *)
THEOREM IntakeUsesQueue == Spec => Queue!Spec
<1>1. Init => Queue!Init
    BY DEF Init
<1> QED BY <1>1, IntakeInvariant, NextIsQueueStep, PTL DEF Spec, Queue!Spec

=============================================================================
