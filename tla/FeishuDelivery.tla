---------------------------- MODULE FeishuDelivery ----------------------------
(***************************************************************************)
(* What a worker's call to Feishu leaves behind: the cards and the Bitable *)
(* records of the outbox rows (app/feishu/outbox_handlers.py), made        *)
(* through the HTTP gateways with their tenant token and its one forced    *)
(* refresh (app/feishu/gateways.py), and the write-chunk and record-map    *)
(* rows that remember them (BitableSyncRepository,                         *)
(* app/storage/repositories.py).  The handlers run on the durable queue,   *)
(* several runs of one row at once included.                               *)
(*                                                                         *)
(* A run builds its own gateways (app/runtime/worker.py), so its token     *)
(* cache starts empty and nobody shares it.  Feishu is external: it        *)
(* remembers what it made under a row's idempotency token (client_token,   *)
(* or the uuid of a message) for a time longer than any run.               *)
(*                                                                         *)
(* Left out: the approval check before a Bitable write (ApprovalFlow), the *)
(* clock of the token cache (a run is shorter than the refresh window) and *)
(* the waiting times between attempts (Outbox).                            *)
(***************************************************************************)
EXTENDS Naturals

CONSTANTS
    Sends,        \* card_send rows
    Updates,      \* card_update rows
    Writes,       \* bitable_write rows
    Workers,      \* the outbox worker processes
    NoItem,       \* "this worker runs nothing"
    MaxAttempts,  \* the dispatcher's max_attempts
    MaxFaults,    \* bound: crashes, failed calls and expired leases
    MaxRotations, \* bound: how often Feishu replaces the tenant token
    MaxForgets    \* bound: how often Feishu forgets an idempotency token

Items == Sends \cup Updates \cup Writes

ASSUME DeliveryAssumption ==
    /\ Sends \cap Updates = {} /\ Sends \cap Writes = {} /\ Updates \cap Writes = {}
    /\ NoItem \notin Items
    /\ MaxAttempts \in Nat \ {0}
    /\ MaxFaults \in Nat /\ MaxRotations \in Nat /\ MaxForgets \in Nat

VARIABLES
    row, run,    \* the durable queue
    attempts,    \* FeishuOutbox.attempt_count
    epoch,       \* the tenant token Feishu accepts
    step,        \* step[w]: how far worker w is in its handler
    token,       \* token[w]: the tenant token in the run's cache, 0 when empty
    got,         \* got[w]: the record or message id of the answer, 0 before it
    made,        \* made[i]: ids that Feishu has given out for row i, 1..made[i]
    remembered,  \* remembered[i]: the id Feishu answers for i's token, 0 for none
    forgets,     \* history: how often Feishu forgot row i's token
    chunk,       \* chunk[i]: the id in i's succeeded write chunk, 0 for none
    recordMap,   \* recordMap[i]: the record mapped to the entity of row i
    faults       \* history: crashes, failed calls and expired leases

Queue == INSTANCE DurableQueue

local == <<step, token, got>>
feishu == <<made, remembered, forgets>>
tables == <<chunk, recordMap>>
vars == <<row, run, attempts, epoch, local, feishu, tables, faults>>

Steps == {"idle", "begun", "call", "refused", "again", "answered", "checked"}
Ids   == 0..(MaxForgets + 1)

TypeOK ==
    /\ Queue!QueueTypeOK
    /\ attempts \in [Items -> Nat]
    /\ epoch \in 1..(MaxRotations + 1)
    /\ step \in [Workers -> Steps]
    /\ token \in [Workers -> 0..(MaxRotations + 1)]
    /\ got \in [Workers -> Ids]
    /\ made \in [Items -> Ids] /\ remembered \in [Items -> Ids]
    /\ forgets \in [Items -> 0..MaxForgets]
    /\ chunk \in [Writes -> Ids] /\ recordMap \in [Writes -> Ids]
    /\ faults \in 0..MaxFaults
    /\ \A w \in Workers : step[w] = "idle" <=> run[w] = NoItem

Init ==
    /\ Queue!Init
    /\ attempts = [i \in Items |-> 0]
    /\ epoch = 1
    /\ step = [w \in Workers |-> "idle"]
    /\ token = [w \in Workers |-> 0]
    /\ got = [w \in Workers |-> 0]
    /\ made = [i \in Items |-> 0] /\ remembered = [i \in Items |-> 0]
    /\ forgets = [i \in Items |-> 0]
    /\ chunk = [i \in Writes |-> 0] /\ recordMap = [i \in Writes |-> 0]
    /\ faults = 0

-----------------------------------------------------------------------------
(* Producers and Feishu.                                                   *)

Enqueue(i) ==
    /\ Queue!Enqueue(i)
    /\ UNCHANGED <<attempts, epoch, local, feishu, tables, faults>>

(* Feishu replaces the tenant token before its announced end.              *)
Rotate ==
    /\ epoch <= MaxRotations
    /\ epoch' = epoch + 1
    /\ UNCHANGED <<row, run, attempts, local, feishu, tables, faults>>

(* The idempotency token lapses, never within a run that has used it.      *)
Forget(i) ==
    /\ remembered[i] # 0
    /\ forgets[i] < MaxForgets
    /\ \A w \in Workers : run[w] = i => step[w] \notin {"answered", "checked"}
    /\ remembered' = [remembered EXCEPT ![i] = 0]
    /\ forgets' = [forgets EXCEPT ![i] = @ + 1]
    /\ UNCHANGED <<row, run, attempts, epoch, local, made, tables, faults>>

-----------------------------------------------------------------------------
(* The run of a handler.                                                   *)

Advance(w, s, t, id) ==
    /\ step' = [step EXCEPT ![w] = s]
    /\ token' = [token EXCEPT ![w] = t]
    /\ got' = [got EXCEPT ![w] = id]

(* A claim counts an attempt; a row that another worker still runs is      *)
(* claimed only when that worker's lease has expired.                      *)
Begin(w, i) ==
    /\ Queue!Start(w, i)
    /\ attempts' = [attempts EXCEPT ![i] = @ + 1]
    /\ IF \E v \in Workers : run[v] = i
       THEN faults < MaxFaults /\ faults' = faults + 1
       ELSE faults' = faults
    /\ Advance(w, "begun", 0, 0)
    /\ UNCHANGED <<epoch, feishu, tables>>

(* Variant: the cached token is used again instead of a forced refresh.    *)
FetchTokenCached(w) ==
    /\ \/ step[w] = "begun" /\ Advance(w, "call", epoch, 0)
       \/ step[w] = "refused" /\ Advance(w, "again", token[w], 0)
    /\ UNCHANGED <<row, run, attempts, epoch, feishu, tables, faults>>

(* get_tenant_access_token: the cache is empty, or the refresh is forced;  *)
(* either way the token of now is fetched and kept.                        *)
FetchToken(w) ==
    /\ \/ step[w] = "begun" /\ Advance(w, "call", epoch, 0)
       \/ step[w] = "refused" /\ Advance(w, "again", epoch, 0)
    /\ UNCHANGED <<row, run, attempts, epoch, feishu, tables, faults>>

(* Variant: every call makes a client token of its own.                    *)
AnswerFresh(i) == IF i \in Updates THEN 1 ELSE made[i] + 1

(* Feishu serves an accepted request: what it remembers under the row's    *)
(* idempotency token, or something new.  A card update has no id of its    *)
(* own and changes the message it names.                                   *)
Answer(i) ==
    IF i \in Updates THEN 1
    ELSE IF remembered[i] # 0 THEN remembered[i] ELSE made[i] + 1

Serve(i, id) ==
    /\ made' = [made EXCEPT ![i] = IF id > @ THEN id ELSE @]
    /\ remembered' = [remembered EXCEPT ![i] = IF i \in Updates THEN 0 ELSE id]
    /\ forgets' = forgets

(* A call with a live token is served and answered.                        *)
CallServed(w) ==
    /\ step[w] \in {"call", "again"}
    /\ token[w] = epoch
    /\ LET id == Answer(run[w]) IN Serve(run[w], id) /\ Advance(w, "answered", token[w], id)
    /\ UNCHANGED <<row, run, attempts, epoch, tables, faults>>

(* A call with a replaced token is refused; the first refusal forces a     *)
(* refresh.                                                                *)
CallRefused(w) ==
    /\ step[w] = "call"
    /\ token[w] # epoch
    /\ Advance(w, "refused", token[w], 0)
    /\ UNCHANGED <<row, run, attempts, epoch, feishu, tables, faults>>

(* Variant: the chunk row is not compared.                                 *)
ConflictNever(w) == FALSE

(* _client_token_conflict_reason reads the committed chunk: ids other than *)
(* the answered ones are a conflict.                                       *)
Conflict(w) ==
    /\ run[w] \in Writes
    /\ chunk[run[w]] \notin {0, got[w]}

CheckChunk(w) ==
    /\ step[w] = "answered"
    /\ ~Conflict(w)
    /\ Advance(w, "checked", token[w], got[w])
    /\ UNCHANGED <<row, run, attempts, epoch, feishu, tables, faults>>

(* An upsert of the run's answer into one of the two tables.               *)
Upserted(table, w) == [i \in Writes |-> IF i = run[w] THEN got[w] ELSE table[i]]

(* Variant: success is recorded without the record map.                    *)
CommitUnmapped(w) ==
    /\ step[w] = "checked"
    /\ Queue!Settle(w, "succeeded", {})
    /\ chunk' = Upserted(chunk, w)
    /\ Advance(w, "idle", 0, 0)
    /\ UNCHANGED <<attempts, epoch, feishu, recordMap, faults>>

(* record_chunk_success upserts the chunk and the record map, and the row  *)
(* succeeds in the same transaction.  A card's row succeeds alone.         *)
Commit(w) ==
    /\ step[w] = "checked"
    /\ Queue!Settle(w, "succeeded", {})
    /\ chunk' = Upserted(chunk, w)
    /\ recordMap' = Upserted(recordMap, w)
    /\ Advance(w, "idle", 0, 0)
    /\ UNCHANGED <<attempts, epoch, feishu, faults>>

(* Variant: the last attempt is never made.                                *)
GiveUpEarly(w) ==
    /\ Queue!Settle(w, IF attempts[run[w]] >= MaxAttempts - 1 THEN "dead_letter" ELSE "open", {})
    /\ Advance(w, "idle", 0, 0)

(* The handler raises: its transaction is rolled back and the row waits    *)
(* for a retry, or is a dead letter once its attempts are used up.         *)
GiveUp(w) ==
    /\ Queue!Settle(w, IF attempts[run[w]] >= MaxAttempts THEN "dead_letter" ELSE "open", {})
    /\ Advance(w, "idle", 0, 0)

(* The second refusal is raised.                                           *)
CallRefusedAgain(w) ==
    /\ step[w] = "again"
    /\ token[w] # epoch
    /\ GiveUp(w)
    /\ UNCHANGED <<attempts, epoch, feishu, tables, faults>>

(* The conflict is raised; the conflict row written for it is part of the  *)
(* transaction that the exception rolls back.                              *)
RaiseConflict(w) ==
    /\ step[w] = "answered"
    /\ Conflict(w)
    /\ GiveUp(w)
    /\ UNCHANGED <<attempts, epoch, feishu, tables, faults>>

(* A token request or call fails: rate limit, error code, or no answer to  *)
(* a request that Feishu has served all the same.                          *)
CallFails(w) ==
    /\ step[w] \in {"begun", "call", "refused", "again"}
    /\ faults < MaxFaults /\ faults' = faults + 1
    /\ \/ UNCHANGED feishu
       \/ /\ step[w] \in {"call", "again"}
          /\ token[w] = epoch
          /\ Serve(run[w], Answer(run[w]))
    /\ GiveUp(w)
    /\ UNCHANGED <<attempts, epoch, tables>>

(* The worker dies; what Feishu has done stays done.                       *)
Crash(w) ==
    /\ Queue!Abandon(w)
    /\ faults < MaxFaults /\ faults' = faults + 1
    /\ Advance(w, "idle", 0, 0)
    /\ UNCHANGED <<attempts, epoch, feishu, tables>>

HandlerStep(w) ==
    \/ FetchToken(w) \/ CallServed(w) \/ CallRefused(w) \/ CallRefusedAgain(w)
    \/ CheckChunk(w) \/ RaiseConflict(w) \/ Commit(w)

Next ==
    \/ Rotate
    \/ \E i \in Items : Enqueue(i) \/ Forget(i) \/ \E w \in Workers : Begin(w, i)
    \/ \E w \in Workers : HandlerStep(w) \/ CallFails(w) \/ Crash(w)

Spec == Init /\ [][Next]_vars

(* Workers keep polling and a call returns or times out.                   *)
FairSpec ==
    /\ Spec
    /\ \A w \in Workers : WF_vars(HandlerStep(w))
    /\ \A i \in Items : WF_vars(\E w \in Workers : Begin(w, i))

-----------------------------------------------------------------------------
(* A row's message or record is made twice only if Feishu forgot the row's *)
(* idempotency token in between: not because of a retry, a lost answer, a  *)
(* forced token refresh or a second worker (batch_create, send_card).      *)
DuplicatesExplained == \A i \in Items : made[i] <= 1 + forgets[i]

(* The chunk row and the record map name one record, and one that Feishu   *)
(* has made for this row, whichever run wrote them (record_chunk_success,  *)
(* _upsert_record_maps).                                                   *)
MapNamesARecord ==
    \A i \in Writes : recordMap[i] = chunk[i] /\ chunk[i] <= made[i]

(* Once recorded, the record of a row is never replaced by a duplicate,    *)
(* although the comparison and the upsert are two steps and a stale worker *)
(* may call Feishu after the row has succeeded.                            *)
FirstRecordKept ==
    [][\A i \in Writes : chunk[i] # 0 => chunk'[i] = chunk[i]]_vars

(* A succeeded row has had its effect at Feishu, and a dead letter has     *)
(* used up its attempts.                                                   *)
SettledIsEarned ==
    \A i \in Items :
        /\ row[i] = "succeeded" => made[i] > 0 /\ (i \in Writes => chunk[i] # 0)
        /\ row[i] = "dead_letter" => attempts[i] >= MaxAttempts

Delivered(i) == made[i] > 0 /\ (i \in Writes => chunk[i] # 0)

(* With fewer faults and pairs of token rotations than attempts,           *)
(* everything enqueued is delivered, however they fall: a handler forces   *)
(* one refresh (_needs_token_refresh) and the dispatcher retries.          *)
DeliveredDespiteFaults ==
    \A i \in Items : row[i] = "open" ~> Delivered(i)

=============================================================================
