-------------------------------- MODULE Intake --------------------------------
(***************************************************************************)
(* From a Feishu message to a queued task: the event callback              *)
(* (FeishuCallbackService.enqueue_event), the model-setup form             *)
(* (_enqueue_model_profile_setup), the handler that has a model parse the  *)
(* message and prepares the confirmation card                              *)
(* (TaskConfirmationPrepareHandler), and the click on that card            *)
(* (_enqueue_task_confirmation).  Handlers run on the durable queue,       *)
(* several runs of one row at once included.                               *)
(*                                                                         *)
(* source_ref, thread, task and every idempotency key are functions of the *)
(* message, so a message stands for all of them.  All messages are of one  *)
(* owner in one chat, the scope of a default model profile.  A callback is *)
(* one transaction that is arbitrated by unique keys; it is split where it *)
(* reads what another transaction may change before it commits.            *)
(*                                                                         *)
(* Left out: signatures and parsing of callbacks, the copy of the raw body *)
(* (its reference is its hash), the card update after a setup, and clicks  *)
(* that are answered without a write (unknown card, operator not the       *)
(* owner, decision already recorded).                                      *)
(***************************************************************************)
EXTENDS Naturals, FiniteSets

CONSTANTS
    Messages,          \* the messages users send to the bot
    Deliveries,        \* event callbacks: Feishu may deliver a message repeatedly
    Bodies,            \* raw bodies of those callbacks, told apart by payload_hash
    Profiles,          \* the owner's model profiles, existing or to be created
    Parses,            \* what the model may make of a message
    Errors,            \* error summaries a parse-failed card may show
    Revoked, Conflict, \* of these: profile not found, payload conflict; else the model's
    Workers,           \* the outbox worker processes
    Callers,           \* concurrent submissions of model-setup forms
    NoItem, NoProfile, NoEvent, NoTask, NoError,
    MaxFaults          \* bound: worker deaths and retryable handler errors

(* graph payloads: what was parsed and the profile the task will run with. *)
Tasks == Parses \X Profiles

(* What a click on a confirmation card and a submitted setup form carry.   *)
Decisions  == {"approve", "reject"}
SetupForms == [prof : Profiles, makeDefault : BOOLEAN]

ASSUME IntakeAssumption ==
    /\ {Revoked, Conflict} \subseteq Errors
    /\ Parses \cap Errors = {}
    /\ NoProfile \notin Profiles
    /\ NoEvent \notin [body : Bodies, prof : Profiles \cup {NoProfile}]
    /\ NoTask \notin Tasks
    /\ NoError \notin Errors \cup Parses
    /\ MaxFaults \in Nat

(* The rows of feishu_outbox, by kind and idempotency key.  The event row  *)
(* carries the model-setup card or, when there is a default profile, the   *)
(* preparation.  The keys of the two cards also name the profile of the    *)
(* preparation; OnePreparation says why the message determines it.         *)
EventRow(m)        == <<"event", m>>
SetupPrepareRow(m) == <<"prepare_after_setup", m>>
ConfirmCard(m)     == <<"confirmation_card", m>>
FailedCard(m)      == <<"parse_failed_card", m>>
DispatchRow(m)     == <<"graph_dispatch", m>>
Items == {"event", "prepare_after_setup", "confirmation_card", "parse_failed_card",
          "graph_dispatch"} \X Messages

ASSUME NoItemAssumption == NoItem \notin Items

VARIABLES
    row, run,    \* the durable queue
    profile,     \* UserModelProfile.status
    default,     \* the active profile with is_default
    delivery,    \* each event callback: what it has read, how it was answered
    event,       \* FeishuEventLog by dedupe_key: body and profile of the event row
    thread,      \* GraphThread.state_summary.authorization_status
    click,       \* each setup form being processed: message and default it has seen
    setup,       \* the profile made by a message's setup form (FeishuCardAction)
    task,        \* the graph payload stored under the task's content_ref
    card,        \* the graph payload the confirmation card shows
    failure,     \* the error the parse-failed card shows
    sent,        \* rows whose card Feishu has shown
    decision,    \* the decision recorded for the task confirmation
    dispatched,  \* the graph payload of the graph_dispatch row
    session,     \* each worker's place in its handler, and the model's answer
    faults       \* history: worker deaths and retryable errors so far

Queue == INSTANCE DurableQueue

queue    == <<row, run>>
profiles == <<profile, default>>
intake   == <<event, thread, delivery>>
forms    == <<click, setup>>
cards    == <<task, card, failure>>
confirm  == <<decision, dispatched>>
vars     == <<queue, profiles, intake, forms, cards, sent, confirm, session, faults>>

MaybeProfile == Profiles \cup {NoProfile}
Idle      == [step |-> "idle", result |-> NoError]
NotSent   == [step |-> "unsent", msg |-> NoItem, body |-> NoItem, prof |-> NoProfile]
NoClick   == [msg |-> NoItem, seen |-> NoProfile]
Received  == [step : {"read", "queued", "duplicate", "error"}, msg : Messages, body : Bodies,
              prof : MaybeProfile]
Sessions  == [step : {"idle", "begun", "parsed", "sent"}, result : Parses \cup Errors \cup {NoError}]

TypeOK ==
    /\ Queue!QueueTypeOK
    /\ profile \in [Profiles -> {"unused", "active", "revoked"}]
    /\ default \in MaybeProfile
    /\ delivery \in [Deliveries -> Received \cup {NotSent}]
    /\ event \in [Messages -> [body : Bodies, prof : MaybeProfile] \cup {NoEvent}]
    /\ thread \in [Messages -> {"absent", "pending_model_profile", "pending_task_parse",
                                "authorized"}]
    /\ click \in [Callers -> [msg : Messages, seen : MaybeProfile] \cup {NoClick}]
    /\ setup \in [Messages -> MaybeProfile]
    /\ task \in [Messages -> Tasks \cup {NoTask}]
    /\ card \in [Messages -> Tasks \cup {NoTask}]
    /\ failure \in [Messages -> Errors \cup {NoError}]
    /\ sent \in SUBSET Items
    /\ decision \in [Messages -> {"none"} \cup Decisions]
    /\ dispatched \in [Messages -> Tasks \cup {NoTask}]
    /\ session \in [Workers -> Sessions]
    /\ faults \in 0..MaxFaults

(* The owner has a default profile from before, or none.                   *)
Init ==
    /\ Queue!Init
    /\ default \in MaybeProfile
    /\ profile = [p \in Profiles |-> IF p = default THEN "active" ELSE "unused"]
    /\ delivery = [d \in Deliveries |-> NotSent]
    /\ event = [m \in Messages |-> NoEvent]
    /\ thread = [m \in Messages |-> "absent"]
    /\ click = [c \in Callers |-> NoClick]
    /\ setup = [m \in Messages |-> NoProfile]
    /\ task = [m \in Messages |-> NoTask]
    /\ card = [m \in Messages |-> NoTask]
    /\ failure = [m \in Messages |-> NoError]
    /\ sent = {}
    /\ decision = [m \in Messages |-> "none"]
    /\ dispatched = [m \in Messages |-> NoTask]
    /\ session = [w \in Workers |-> Idle]
    /\ faults = 0

-----------------------------------------------------------------------------
(* enqueue_event up to _default_model_profile.                             *)
ReadDefault(d, m, b) ==
    /\ delivery[d] = NotSent
    /\ delivery' = [delivery EXCEPT ![d] = [step |-> "read", msg |-> m, body |-> b,
                                            prof |-> default]]
    /\ UNCHANGED <<queue, profiles, event, thread, forms, cards, sent, confirm, session, faults>>

PendingStatus(p) == IF p = NoProfile THEN "pending_model_profile" ELSE "pending_task_parse"

(* Variant: deliveries are told apart by their event ids only.             *)
AcceptEventAgain(d) ==
    LET m == delivery[d].msg
        p == delivery[d].prof
    IN  /\ delivery[d].step = "read"
        /\ event' = [event EXCEPT ![m] = [body |-> delivery[d].body, prof |-> p]]
        /\ thread' = [thread EXCEPT ![m] = PendingStatus(p)]
        /\ row' = [row EXCEPT ![EventRow(m)] = "open"]
        /\ delivery' = [delivery EXCEPT ![d].step = "queued"]
        /\ UNCHANGED <<run, profiles, forms, cards, sent, confirm, session, faults>>

(* enqueue_event, the first delivery of a message: the pending thread, the *)
(* event and its row commit together.                                      *)
AcceptEvent(d) ==
    LET m == delivery[d].msg
        p == delivery[d].prof
    IN  /\ delivery[d].step = "read"
        /\ event[m] = NoEvent
        /\ event' = [event EXCEPT ![m] = [body |-> delivery[d].body, prof |-> p]]
        /\ thread' = [thread EXCEPT ![m] = PendingStatus(p)]
        /\ Queue!Enqueue(EventRow(m))
        /\ delivery' = [delivery EXCEPT ![d].step = "queued"]
        /\ UNCHANGED <<profiles, forms, cards, sent, confirm, session, faults>>

(* The profile that the preparation of a message was queued with.          *)
PreparedWith(m) == IF event[m].prof # NoProfile THEN event[m].prof ELSE setup[m]

(* store_json_payload: the card or the preparation that the delivery would *)
(* queue is stored already, with a reference to another raw body.          *)
PayloadConflict(d) ==
    LET m == delivery[d].msg
        p == delivery[d].prof
    IN  /\ delivery[d].body # event[m].body
        /\ IF p = NoProfile THEN event[m].prof = NoProfile ELSE PreparedWith(m) = p

(* Variant: the thread is written in a transaction of its own.             *)
RefuseEventKeepsThread(d) ==
    /\ delivery[d].step = "read"
    /\ event[delivery[d].msg] # NoEvent
    /\ delivery' = [delivery EXCEPT ![d].step = "duplicate"]
    /\ thread' = [thread EXCEPT ![delivery[d].msg] = PendingStatus(delivery[d].prof)]
    /\ UNCHANGED <<queue, profiles, event, forms, cards, sent, confirm, session, faults>>

(* enqueue_event, a later delivery: DuplicateEventError is acknowledged,   *)
(* OutboxPayloadConflictError is raised before it and not caught.  Both    *)
(* roll the transaction back, the upsert of the thread included.           *)
RefuseEvent(d) ==
    /\ delivery[d].step = "read"
    /\ event[delivery[d].msg] # NoEvent
    /\ delivery' = [delivery EXCEPT ![d].step = IF PayloadConflict(d) THEN "error"
                                                ELSE "duplicate"]
    /\ UNCHANGED <<queue, profiles, event, thread, forms, cards, sent, confirm, session, faults>>

-----------------------------------------------------------------------------
(* A setup form of the message has been recorded; the key is unique.       *)
SetupTaken(m) == setup[m] # NoProfile

(* _enqueue_model_profile_setup up to _clear_default: the card is there,   *)
(* the setup is no duplicate, and the owner's default has been looked up.  *)
SubmitSetup(c, m) ==
    /\ click[c] = NoClick
    /\ EventRow(m) \in sent
    /\ ~ SetupTaken(m)
    /\ click' = [click EXCEPT ![c] = [msg |-> m, seen |-> default]]
    /\ UNCHANGED <<queue, profiles, intake, setup, cards, sent, confirm, session, faults>>

(* create_profile: a first active profile becomes the default whatever the *)
(* form says.                                                              *)
NewDefault(p, makeDefault) ==
    IF makeDefault \/ \A q \in Profiles : profile[q] # "active" THEN p ELSE default

(* The rest of it: the new profile, the card action that is unique per     *)
(* message, and the preparation of the message.  The partial unique index  *)
(* refuses a second default when another form has committed one since the  *)
(* old default was cleared.                                                *)
CommitSetup(c, p, makeDefault) ==
    LET m == click[c].msg
    IN  /\ click[c] # NoClick
        /\ ~ SetupTaken(m)
        /\ profile[p] = "unused"
        /\ NewDefault(p, makeDefault) = p => default \in {click[c].seen, NoProfile}
        /\ profile' = [profile EXCEPT ![p] = "active"]
        /\ default' = NewDefault(p, makeDefault)
        /\ setup' = [setup EXCEPT ![m] = p]
        /\ Queue!Enqueue(SetupPrepareRow(m))
        /\ click' = [click EXCEPT ![c] = NoClick]
        /\ UNCHANGED <<intake, cards, sent, confirm, session, faults>>

(* A duplicate, or create_profile raises (name or default taken, provider  *)
(* not allowed): rolled back, the form may be sent again.                  *)
RefuseSetup(c) ==
    /\ click[c] # NoClick
    /\ click' = [click EXCEPT ![c] = NoClick]
    /\ UNCHANGED <<queue, profiles, intake, setup, cards, sent, confirm, session, faults>>

(* ModelProfileRepository.revoke, at any time.                             *)
RevokeProfile(p) ==
    /\ profile[p] = "active"
    /\ profile' = [profile EXCEPT ![p] = "revoked"]
    /\ default' = IF default = p THEN NoProfile ELSE default
    /\ UNCHANGED <<queue, intake, forms, cards, sent, confirm, session, faults>>

-----------------------------------------------------------------------------
(* The row's kind is task_confirmation_prepare, not card_send.             *)
IsPrepare(i) ==
    \/ i[1] = "prepare_after_setup"
    \/ i[1] = "event" /\ event[i[2]].prof # NoProfile

(* dispatch_once calls the handler of a row; graph_dispatch rows are       *)
(* ApprovalFlow's.                                                         *)
Begin(w) ==
    /\ \E i \in Items : i[1] # "graph_dispatch" /\ Queue!Start(w, i)
    /\ session' = [session EXCEPT ![w].step = "begun"]
    /\ UNCHANGED <<profiles, intake, forms, cards, sent, confirm, faults>>

(* parse_task_intake_with_llm: the model, or after it the rules, make      *)
(* something of the message or fail; another call may answer otherwise.    *)
ModelResults == Parses \cup (Errors \ {Revoked, Conflict})

(* _parse_with_user_model: the profile has to be active.                   *)
ParseMessage(w, r) ==
    /\ session[w].step = "begun"
    /\ IsPrepare(run[w])
    /\ IF profile[PreparedWith(run[w][2])] = "active"
       THEN r \in ModelResults ELSE r = Revoked
    /\ session' = [session EXCEPT ![w] = [step |-> "parsed", result |-> r]]
    /\ UNCHANGED <<queue, profiles, intake, forms, cards, sent, confirm, faults>>

(* Variant: a later preparation replaces the stored task.                  *)
StoreTaskOverwrites(old, new) == new

(* store_json_payload keeps the first payload of a content_ref.            *)
StoreTask(old, new) == IF old = NoTask THEN new ELSE old

(* _enqueue_task_confirmation_card: the task is stored and its card is     *)
(* queued, or both are there already, the same.                            *)
PrepareCard(w) ==
    LET m   == run[w][2]
        new == <<session[w].result, PreparedWith(m)>>
        add == IF row[ConfirmCard(m)] = "absent" THEN {ConfirmCard(m)} ELSE {}
    IN  /\ session[w].step = "parsed"
        /\ session[w].result \in Parses
        /\ StoreTask(task[m], new) = new
        /\ task' = [task EXCEPT ![m] = new]
        /\ card' = [card EXCEPT ![m] = IF @ = NoTask THEN new ELSE @]
        /\ Queue!Settle(w, "succeeded", add)
        /\ session' = [session EXCEPT ![w] = Idle]
        /\ UNCHANGED <<profiles, intake, forms, failure, sent, confirm, faults>>

(* Variant: the conflict is reported with the task itself.                 *)
PrepareErrorUnclassified(w) ==
    LET m == run[w][2]
        r == session[w].result
    IN  IF r \in Errors \/ StoreTask(task[m], <<r, PreparedWith(m)>>) # <<r, PreparedWith(m)>>
        THEN r ELSE NoError

(* The error prepare_task_confirmation ends with: the model's, or that     *)
(* another run of the row has stored another task.                         *)
PrepareError(w) ==
    LET m == run[w][2]
        r == session[w].result
    IN  IF r \in Errors THEN r
        ELSE IF StoreTask(task[m], <<r, PreparedWith(m)>>) # <<r, PreparedWith(m)>> THEN Conflict
        ELSE NoError

(* Variant: the exception is swallowed.                                    *)
FailPreparationSilently(w) ==
    /\ session[w].step = "parsed"
    /\ PrepareError(w) # NoError
    /\ Queue!Settle(w, "succeeded", {})
    /\ session' = [session EXCEPT ![w] = Idle]
    /\ UNCHANGED <<profiles, intake, forms, cards, sent, confirm, faults>>

(* _enqueue_parse_failed_card: the first error is queued for the user, the *)
(* same error again changes nothing.                                       *)
FailPreparation(w) ==
    LET m   == run[w][2]
        e   == PrepareError(w)
        add == IF row[FailedCard(m)] = "absent" THEN {FailedCard(m)} ELSE {}
    IN  /\ session[w].step = "parsed"
        /\ e # NoError
        /\ failure[m] \in {e, NoError}
        /\ failure' = [failure EXCEPT ![m] = e]
        /\ Queue!Settle(w, "succeeded", add)
        /\ session' = [session EXCEPT ![w] = Idle]
        /\ UNCHANGED <<profiles, intake, forms, task, card, sent, confirm, faults>>

(* A parse-failed card with another error is queued: enqueue_json raises   *)
(* out of the handler, and the dispatcher retries the row or gives it up.  *)
FailPreparationAgain(w) ==
    /\ session[w].step = "parsed"
    /\ PrepareError(w) # NoError
    /\ failure[run[w][2]] \notin {PrepareError(w), NoError}
    /\ \E outcome \in {"open", "dead_letter"} : Queue!Settle(w, outcome, {})
    /\ session' = [session EXCEPT ![w] = Idle]
    /\ UNCHANGED <<profiles, intake, forms, cards, sent, confirm, faults>>

(* _send_card: Feishu shows the card; a repeated send has the same uuid.   *)
SendCard(w) ==
    /\ session[w].step = "begun"
    /\ ~ IsPrepare(run[w])
    /\ sent' = sent \cup {run[w]}
    /\ session' = [session EXCEPT ![w].step = "sent"]
    /\ UNCHANGED <<queue, profiles, intake, forms, cards, confirm, faults>>

CommitSent(w) ==
    /\ session[w].step = "sent"
    /\ Queue!Settle(w, "succeeded", {})
    /\ session' = [session EXCEPT ![w] = Idle]
    /\ UNCHANGED <<profiles, intake, forms, cards, sent, confirm, faults>>

(* The worker dies, or the model or Feishu answers with a retryable error. *)
Fault(w) ==
    /\ session[w].step # "idle"
    /\ faults < MaxFaults
    /\ faults' = faults + 1
    /\ Queue!Abandon(w) \/ Queue!Settle(w, "open", {})
    /\ session' = [session EXCEPT ![w] = Idle]
    /\ UNCHANGED <<profiles, intake, forms, cards, sent, confirm>>

-----------------------------------------------------------------------------
(* _enqueue_task_confirmation: the buttons of one card share an            *)
(* idempotency key, so the first click is recorded and later ones are      *)
(* duplicates.  A rejection leaves everything else as it is.               *)
RejectTask(m) ==
    /\ ConfirmCard(m) \in sent
    /\ decision[m] = "none"
    /\ decision' = [decision EXCEPT ![m] = "reject"]
    /\ UNCHANGED <<queue, profiles, intake, forms, cards, sent, dispatched, session, faults>>

(* _upsert_graph_thread of the approved payload.                           *)
AuthorizeThread(m) == thread' = [thread EXCEPT ![m] = "authorized"]

(* An approval authorizes the thread and queues the stored task.           *)
ApproveTask(m) ==
    /\ ConfirmCard(m) \in sent
    /\ decision[m] = "none"
    /\ decision' = [decision EXCEPT ![m] = "approve"]
    /\ AuthorizeThread(m)
    /\ dispatched' = [dispatched EXCEPT ![m] = task[m]]
    /\ Queue!Enqueue(DispatchRow(m))
    /\ UNCHANGED <<profiles, event, delivery, forms, cards, sent, session, faults>>

-----------------------------------------------------------------------------
HandlerStep(w) ==
    \/ Begin(w)
    \/ \E r \in Parses \cup Errors : ParseMessage(w, r)
    \/ PrepareCard(w) \/ FailPreparation(w) \/ FailPreparationAgain(w)
    \/ SendCard(w) \/ CommitSent(w)

EventStep(d) == AcceptEvent(d) \/ RefuseEvent(d)

Next ==
    \/ \E d \in Deliveries :
          \/ \E m \in Messages, b \in Bodies : ReadDefault(d, m, b)
          \/ EventStep(d)
    \/ \E c \in Callers :
          \/ \E m \in Messages : SubmitSetup(c, m)
          \/ \E f \in SetupForms : CommitSetup(c, f.prof, f.makeDefault)
          \/ RefuseSetup(c)
    \/ \E p \in Profiles : RevokeProfile(p)
    \/ \E m \in Messages : RejectTask(m) \/ ApproveTask(m)
    \/ \E w \in Workers : HandlerStep(w) \/ Fault(w)

Spec == Init /\ [][Next]_vars

(* Callbacks end and workers go on; no user is obliged to click.           *)
FairSpec ==
    /\ Spec
    /\ \A d \in Deliveries : WF_vars(EventStep(d))
    /\ \A w \in Workers : WF_vars(HandlerStep(w))

-----------------------------------------------------------------------------
(* A message is prepared once, with one profile: either its event found a  *)
(* default profile or a setup form was sent for it, whatever is delivered  *)
(* or submitted again; and no two messages share a setup's profile.        *)
OnePreparation ==
    /\ \A m \in Messages :
          /\ row[SetupPrepareRow(m)] # "absent" <=> setup[m] # NoProfile
          /\ setup[m] # NoProfile => event[m] # NoEvent /\ event[m].prof = NoProfile
    /\ \A m, n \in Messages : setup[m] = setup[n] => m = n \/ setup[m] = NoProfile

(* The graph runs for approved messages only, on the task that the         *)
(* confirmation card showed, although preparations may overlap.            *)
DispatchedAsShown ==
    \A m \in Messages :
        /\ row[DispatchRow(m)] # "absent" <=> decision[m] = "approve"
        /\ decision[m] = "approve" =>
              ConfirmCard(m) \in sent /\ dispatched[m] # NoTask /\ dispatched[m] = card[m]

(* An authorized thread stays authorized and a decision stands: neither a  *)
(* redelivered event nor a second click takes it back.                     *)
AuthorizationKept ==
    [][\A m \in Messages :
          /\ thread[m] = "authorized" => thread'[m] = "authorized"
          /\ decision[m] # "none" => decision'[m] = decision[m]]_vars

(* A user who wrote to the bot gets a card: the setup form, the            *)
(* confirmation or the reason why there is none; and again after a setup.  *)
MessageAnswered ==
    \A m \in Messages :
        /\ event[m] # NoEvent ~> {EventRow(m), ConfirmCard(m), FailedCard(m)} \cap sent # {}
        /\ setup[m] # NoProfile ~> {ConfirmCard(m), FailedCard(m)} \cap sent # {}

=============================================================================
