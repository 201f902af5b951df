------------------------- MODULE FeishuDeliveryProofs -------------------------
(***************************************************************************)
(* Proofs about the calls to Feishu, for any rows, workers, attempt limit  *)
(* and any bounds on faults, token rotations and lapsed idempotency        *)
(* tokens.                                                                 *)
(***************************************************************************)
EXTENDS FeishuDelivery, TLAPS

(* Feishu's memory: the id it remembers is the last one it made, and every *)
(* id but the remembered one was forgotten.                                *)
FeishuOK ==
    \A i \in Items :
        /\ i \in Updates => remembered[i] = 0 /\ made[i] <= 1
        /\ i \notin Updates =>
              /\ remembered[i] # 0 => remembered[i] = made[i] /\ made[i] <= forgets[i] + 1
              /\ remembered[i] = 0 => made[i] <= forgets[i]

(* The answer a run holds is what Feishu still remembers, so two runs of a *)
(* row hold the same; a checked one does not contradict the chunk.         *)
AnswersOK ==
    \A w \in Workers : step[w] \in {"answered", "checked"} =>
        /\ got[w] # 0 /\ got[w] <= made[run[w]]
        /\ run[w] \notin Updates => got[w] = remembered[run[w]]
        /\ step[w] = "checked" /\ run[w] \in Writes => chunk[run[w]] \in {0, got[w]}

DeliveryInv == TypeOK /\ FeishuOK /\ AnswersOK /\ MapNamesARecord /\ SettledIsEarned

-----------------------------------------------------------------------------
LEMMA InitDeliveryInv == Init => DeliveryInv
BY DeliveryAssumption
   DEF Init, DeliveryInv, TypeOK, Queue!QueueTypeOK, Queue!RowStates, Queue!Init, Steps, Ids, Items,
       FeishuOK, AnswersOK, MapNamesARecord, SettledIsEarned

(* Feishu serves a request: its memory stays as it should be, nothing made *)
(* is unmade, and an id that it remembers stays.                           *)
LEMMA ServeFacts ==
    ASSUME DeliveryInv, NEW i \in Items, Serve(i, Answer(i))
    PROVE  /\ made' \in [Items -> Ids] /\ remembered' \in [Items -> Ids]
           /\ forgets' \in [Items -> 0..MaxForgets]
           /\ FeishuOK'
           /\ \A j \in Items : made[j] <= made'[j]
           /\ \A j \in Items \ Updates : remembered[j] # 0 => remembered'[j] = remembered[j]
           /\ Answer(i) \in Ids /\ Answer(i) # 0 /\ Answer(i) <= made'[i]
           /\ i \notin Updates => Answer(i) = remembered'[i]
<1> USE DeliveryAssumption
<1>1. /\ made \in [Items -> Ids] /\ remembered \in [Items -> Ids]
      /\ forgets \in [Items -> 0..MaxForgets] /\ FeishuOK
    BY DEF DeliveryInv, TypeOK
<1>2. Answer(i) \in Ids /\ Answer(i) # 0
  <2>1. CASE i \in Updates
      BY <2>1 DEF Answer, Ids
  <2>2. CASE i \notin Updates /\ remembered[i] # 0
      BY <1>1, <2>2 DEF Answer, Ids
  <2>3. CASE i \notin Updates /\ remembered[i] = 0
    <3>1. Answer(i) = made[i] + 1 /\ made[i] <= forgets[i]
        BY <1>1, <2>3 DEF Answer, FeishuOK
    <3> QED BY <1>1, <3>1 DEF Ids
  <2> QED BY <2>1, <2>2, <2>3
<1>3. /\ made'[i] = (IF Answer(i) > made[i] THEN Answer(i) ELSE made[i])
      /\ remembered'[i] = (IF i \in Updates THEN 0 ELSE Answer(i))
      /\ \A j \in Items \ {i} : made'[j] = made[j] /\ remembered'[j] = remembered[j]
      /\ forgets' = forgets
    BY <1>1 DEF Serve
<1>4. /\ i \in Updates => Answer(i) = 1
      /\ i \notin Updates /\ remembered[i] # 0 => Answer(i) = remembered[i]
      /\ i \notin Updates /\ remembered[i] = 0 => Answer(i) = made[i] + 1
    BY DEF Answer
<1>5. made' \in [Items -> Ids] /\ remembered' \in [Items -> Ids] /\ forgets' \in [Items -> 0..MaxForgets]
    BY <1>1, <1>2 DEF Serve, Ids
<1>6. Answer(i) <= made'[i] /\ \A j \in Items : made[j] <= made'[j]
    BY <1>1, <1>2, <1>3 DEF Ids
<1>7. FeishuOK'
  <2> SUFFICES ASSUME NEW j \in Items
               PROVE  /\ j \in Updates => remembered'[j] = 0 /\ made'[j] <= 1
                      /\ j \notin Updates =>
                            /\ remembered'[j] # 0 =>
                                  remembered'[j] = made'[j] /\ made'[j] <= forgets'[j] + 1
                            /\ remembered'[j] = 0 => made'[j] <= forgets'[j]
      BY DEF FeishuOK
  <2>1. CASE j # i
      BY <1>1, <1>3, <2>1 DEF FeishuOK
  <2>2. CASE j = i
      BY <1>1, <1>2, <1>3, <1>4, <2>2 DEF FeishuOK, Ids
  <2> QED BY <2>1, <2>2
<1> QED BY <1>2, <1>3, <1>4, <1>5, <1>6, <1>7

(* What Advance does to the run's memory.                                  *)
LEMMA AdvanceFacts ==
    ASSUME DeliveryInv, NEW w \in Workers, NEW s \in Steps, NEW t \in 0..(MaxRotations + 1),
           NEW id \in Ids, Advance(w, s, t, id)
    PROVE  /\ step' \in [Workers -> Steps] /\ token' \in [Workers -> 0..(MaxRotations + 1)]
           /\ got' \in [Workers -> Ids]
           /\ step'[w] = s /\ got'[w] = id
           /\ \A v \in Workers \ {w} : step'[v] = step[v] /\ got'[v] = got[v]
BY DEF DeliveryInv, TypeOK, Advance

(* The answers of other runs stay good while Feishu forgets nothing that   *)
(* they hold.                                                              *)
LEMMA OthersKeep ==
    ASSUME DeliveryInv, NEW w \in Workers, NEW v \in Workers, v # w,
           step'[v] = step[v], got'[v] = got[v], run'[v] = run[v], step[v] \in {"answered", "checked"},
           \A j \in Items : made[j] <= made'[j],
           made' \in [Items -> Ids],
           \A j \in Items \ Updates : remembered[j] # 0 => remembered'[j] = remembered[j]
    PROVE  /\ run[v] \in Items
           /\ got'[v] # 0 /\ got'[v] <= made'[run'[v]]
           /\ run'[v] \notin Updates => got'[v] = remembered'[run'[v]]
<1> USE DeliveryAssumption
<1>1. run[v] \in Items /\ got[v] \in Ids /\ made \in [Items -> Ids] /\ remembered \in [Items -> Ids]
    BY DEF DeliveryInv, TypeOK, Queue!QueueTypeOK
<1>2. got[v] # 0 /\ got[v] <= made[run[v]] /\ (run[v] \notin Updates => got[v] = remembered[run[v]])
    BY DEF DeliveryInv, AnswersOK
<1> QED BY <1>1, <1>2 DEF Ids

(* A run that ends without success leaves the tables alone.                *)
LEMMA EndKeeps ==
    ASSUME DeliveryInv, NEW w \in Workers,
           GiveUp(w) \/ (Queue!Abandon(w) /\ Advance(w, "idle", 0, 0)),
           \/ UNCHANGED feishu
           \/ run[w] \in Items /\ Serve(run[w], Answer(run[w])),
           faults' \in 0..MaxFaults, UNCHANGED <<attempts, epoch, tables>>
    PROVE  DeliveryInv'
<1> USE DeliveryAssumption
<1>1. /\ made' \in [Items -> Ids] /\ remembered' \in [Items -> Ids]
      /\ forgets' \in [Items -> 0..MaxForgets] /\ FeishuOK'
      /\ \A j \in Items : made[j] <= made'[j]
      /\ \A j \in Items \ Updates : remembered[j] # 0 => remembered'[j] = remembered[j]
  <2>1. CASE UNCHANGED feishu
      BY <2>1 DEF DeliveryInv, TypeOK, FeishuOK, feishu, Ids
  <2>2. CASE run[w] \in Items /\ Serve(run[w], Answer(run[w]))
      BY <2>2, ServeFacts
  <2> QED BY <2>1, <2>2
<1>2. Advance(w, "idle", 0, 0) /\ "idle" \in Steps /\ 0 \in 0..(MaxRotations + 1) /\ 0 \in Ids
    BY DEF GiveUp, Steps, Ids
<1>3. /\ step' \in [Workers -> Steps] /\ token' \in [Workers -> 0..(MaxRotations + 1)]
      /\ got' \in [Workers -> Ids] /\ step'[w] = "idle"
      /\ \A v \in Workers \ {w} : step'[v] = step[v] /\ got'[v] = got[v]
    BY <1>2, AdvanceFacts
<1>4. /\ run \in [Workers -> Items \cup {NoItem}] /\ row \in [Items -> Queue!RowStates]
      /\ run' = [run EXCEPT ![w] = NoItem] /\ run[w] # NoItem
    BY DEF GiveUp, Queue!Settle, Queue!Abandon, DeliveryInv, TypeOK, Queue!QueueTypeOK
<1>5. /\ row' \in [Items -> Queue!RowStates]
      /\ \A i \in Items : row'[i] = row[i] \/ row'[i] = "open"
                          \/ (row'[i] = "dead_letter" /\ attempts[i] >= MaxAttempts)
    BY <1>4 DEF GiveUp, Queue!Settle, Queue!Abandon, Queue!RowStates
<1>6. TypeOK'
    BY <1>1, <1>3, <1>4, <1>5 DEF DeliveryInv, TypeOK, Queue!QueueTypeOK, tables
<1>7. AnswersOK'
  <2> SUFFICES ASSUME NEW v \in Workers, step'[v] \in {"answered", "checked"}
               PROVE  /\ got'[v] # 0 /\ got'[v] <= made'[run'[v]]
                      /\ run'[v] \notin Updates => got'[v] = remembered'[run'[v]]
                      /\ step'[v] = "checked" /\ run'[v] \in Writes => chunk'[run'[v]] \in {0, got'[v]}
      BY DEF AnswersOK
  <2>1. v # w /\ step'[v] = step[v] /\ got'[v] = got[v] /\ run'[v] = run[v]
      BY <1>3, <1>4
  <2>2. step'[v] = "checked" /\ run'[v] \in Writes => chunk'[run'[v]] \in {0, got'[v]}
      BY <2>1 DEF DeliveryInv, AnswersOK, tables
  <2> QED BY <1>1, <2>1, <2>2, OthersKeep
<1>8. MapNamesARecord'
    BY <1>1 DEF DeliveryInv, TypeOK, MapNamesARecord, tables, Items, Ids
<1>9. SettledIsEarned'
    BY <1>1, <1>5 DEF DeliveryInv, TypeOK, SettledIsEarned, tables, Items, Ids
<1> QED BY <1>1, <1>6, <1>7, <1>8, <1>9 DEF DeliveryInv

(* A step of a handler on the way: its own answer has to be good.          *)
LEMMA AdvanceKeeps ==
    ASSUME DeliveryInv, NEW w \in Workers, NEW s \in Steps \ {"idle"}, NEW t \in 0..(MaxRotations + 1),
           NEW id \in Ids, run[w] \in Items, Advance(w, s, t, id),
           \/ UNCHANGED feishu
           \/ Serve(run[w], Answer(run[w])),
           s \in {"answered", "checked"} =>
              /\ id # 0 /\ id <= made'[run[w]]
              /\ run[w] \notin Updates => id = remembered'[run[w]]
              /\ s = "checked" /\ run[w] \in Writes => chunk[run[w]] \in {0, id},
           UNCHANGED <<row, run, attempts, epoch, tables, faults>>
    PROVE  DeliveryInv'
<1> USE DeliveryAssumption
<1>1. /\ made' \in [Items -> Ids] /\ remembered' \in [Items -> Ids]
      /\ forgets' \in [Items -> 0..MaxForgets] /\ FeishuOK'
      /\ \A j \in Items : made[j] <= made'[j]
      /\ \A j \in Items \ Updates : remembered[j] # 0 => remembered'[j] = remembered[j]
  <2>1. CASE UNCHANGED feishu
      BY <2>1 DEF DeliveryInv, TypeOK, FeishuOK, feishu, Ids
  <2>2. CASE Serve(run[w], Answer(run[w]))
      BY <2>2, ServeFacts
  <2> QED BY <2>1, <2>2
<1>2. /\ step' \in [Workers -> Steps] /\ token' \in [Workers -> 0..(MaxRotations + 1)]
      /\ got' \in [Workers -> Ids] /\ step'[w] = s /\ got'[w] = id
      /\ \A v \in Workers \ {w} : step'[v] = step[v] /\ got'[v] = got[v]
    BY AdvanceFacts
<1>3. TypeOK'
    BY <1>1, <1>2 DEF DeliveryInv, TypeOK, Queue!QueueTypeOK, tables
<1>4. AnswersOK'
  <2> SUFFICES ASSUME NEW v \in Workers, step'[v] \in {"answered", "checked"}
               PROVE  /\ got'[v] # 0 /\ got'[v] <= made'[run'[v]]
                      /\ run'[v] \notin Updates => got'[v] = remembered'[run'[v]]
                      /\ step'[v] = "checked" /\ run'[v] \in Writes => chunk'[run'[v]] \in {0, got'[v]}
      BY DEF AnswersOK
  <2>1. CASE v = w
      BY <1>2, <2>1 DEF tables
  <2>2. CASE v # w
    <3>1. step'[v] = step[v] /\ got'[v] = got[v] /\ run'[v] = run[v]
        BY <1>2, <2>2
    <3>2. step'[v] = "checked" /\ run'[v] \in Writes => chunk'[run'[v]] \in {0, got'[v]}
        BY <3>1 DEF DeliveryInv, AnswersOK, tables
    <3> QED BY <1>1, <2>2, <3>1, <3>2, OthersKeep
  <2> QED BY <2>1, <2>2
<1>5. MapNamesARecord'
    BY <1>1 DEF DeliveryInv, TypeOK, MapNamesARecord, tables, Items, Ids
<1>6. SettledIsEarned'
    BY <1>1 DEF DeliveryInv, TypeOK, SettledIsEarned, tables, Items, Ids
<1> QED BY <1>1, <1>3, <1>4, <1>5, <1>6 DEF DeliveryInv

(* A worker in a handler runs a row.                                       *)
LEMMA Busy ==
    ASSUME DeliveryInv, NEW w \in Workers, step[w] # "idle" PROVE run[w] \in Items
BY DEF DeliveryInv, TypeOK, Queue!QueueTypeOK

LEMMA CommitKeeps ==
    ASSUME DeliveryInv, NEW w \in Workers, Commit(w)
    PROVE  DeliveryInv' /\ \A i \in Writes : chunk[i] # 0 => chunk'[i] = chunk[i]
<1> USE DeliveryAssumption
<1>1. run[w] \in Items /\ got[w] \in Ids /\ got[w] # 0 /\ got[w] <= made[run[w]]
    BY Busy DEF Commit, DeliveryInv, TypeOK, AnswersOK
<1>2. "idle" \in Steps /\ 0 \in 0..(MaxRotations + 1) /\ 0 \in Ids
    BY DEF Steps, Ids
<1>3. /\ step' \in [Workers -> Steps] /\ token' \in [Workers -> 0..(MaxRotations + 1)]
      /\ got' \in [Workers -> Ids] /\ step'[w] = "idle"
      /\ \A v \in Workers \ {w} : step'[v] = step[v] /\ got'[v] = got[v]
    BY <1>2, AdvanceFacts DEF Commit
<1>4. /\ run \in [Workers -> Items \cup {NoItem}] /\ row \in [Items -> Queue!RowStates]
      /\ run' = [run EXCEPT ![w] = NoItem]
    BY DEF Commit, Queue!Settle, DeliveryInv, TypeOK, Queue!QueueTypeOK
<1>5. /\ row' \in [Items -> Queue!RowStates]
      /\ \A i \in Items : row'[i] = IF i = run[w] THEN "succeeded" ELSE row[i]
    BY <1>4 DEF Commit, Queue!Settle, Queue!RowStates
<1>6. /\ chunk' \in [Writes -> Ids] /\ recordMap' \in [Writes -> Ids]
      /\ \A i \in Writes : /\ chunk'[i] = IF i = run[w] THEN got[w] ELSE chunk[i]
                           /\ recordMap'[i] = IF i = run[w] THEN got[w] ELSE recordMap[i]
    BY <1>1 DEF Commit, Upserted, DeliveryInv, TypeOK
<1>7. UNCHANGED <<attempts, epoch, made, remembered, forgets, faults>>
    BY DEF Commit, feishu
<1>8. TypeOK'
    BY <1>3, <1>4, <1>5, <1>6, <1>7 DEF DeliveryInv, TypeOK, Queue!QueueTypeOK
<1>9. AnswersOK'
  <2> SUFFICES ASSUME NEW v \in Workers, step'[v] \in {"answered", "checked"}
               PROVE  /\ got'[v] # 0 /\ got'[v] <= made'[run'[v]]
                      /\ run'[v] \notin Updates => got'[v] = remembered'[run'[v]]
                      /\ step'[v] = "checked" /\ run'[v] \in Writes => chunk'[run'[v]] \in {0, got'[v]}
      BY DEF AnswersOK
  <2>1. v # w /\ step'[v] = step[v] /\ got'[v] = got[v] /\ run'[v] = run[v]
      BY <1>3, <1>4
  <2>2. /\ got[v] # 0 /\ got[v] <= made[run[v]]
        /\ run[v] \notin Updates => got[v] = remembered[run[v]]
        /\ step[v] = "checked" /\ run[v] \in Writes => chunk[run[v]] \in {0, got[v]}
      BY <2>1 DEF DeliveryInv, AnswersOK
  <2>3. run[w] \notin Updates => got[w] = remembered[run[w]]
      BY DEF DeliveryInv, AnswersOK, Commit
  <2> QED BY <1>6, <1>7, <2>1, <2>2, <2>3
<1>10. MapNamesARecord'
    BY <1>1, <1>6, <1>7 DEF DeliveryInv, MapNamesARecord
<1>11. SettledIsEarned'
  <2>1. 0 < made[run[w]]
      BY <1>1 DEF DeliveryInv, TypeOK, Ids
  <2> QED BY <1>1, <1>5, <1>6, <1>7, <2>1 DEF DeliveryInv, SettledIsEarned
<1>12. FeishuOK'
    BY <1>7 DEF DeliveryInv, FeishuOK
<1>13. \A i \in Writes : chunk[i] # 0 => chunk'[i] = chunk[i]
    BY <1>6 DEF Commit, DeliveryInv, AnswersOK
<1> QED BY <1>8, <1>9, <1>10, <1>11, <1>12, <1>13 DEF DeliveryInv

(* The forgotten token is in nobody's hands.                               *)
LEMMA ForgetKeeps ==
    ASSUME DeliveryInv, NEW i \in Items, Forget(i) PROVE DeliveryInv'
<1> USE DeliveryAssumption
<1>1. /\ remembered'[i] = 0 /\ forgets'[i] = forgets[i] + 1
      /\ \A j \in Items \ {i} : remembered'[j] = remembered[j] /\ forgets'[j] = forgets[j]
      /\ UNCHANGED <<row, run, attempts, epoch, step, token, got, made, chunk, recordMap, faults>>
    BY DEF Forget, DeliveryInv, TypeOK, local, tables
<1>2. TypeOK'
    BY <1>1 DEF Forget, DeliveryInv, TypeOK, Queue!QueueTypeOK, Ids
<1>3. FeishuOK'
    BY <1>1 DEF Forget, DeliveryInv, TypeOK, FeishuOK, Ids
<1>4. AnswersOK'
  <2>1. \A w \in Workers : step[w] \in {"answered", "checked"} => run[w] \in Items /\ run[w] # i
      BY Busy DEF Forget
  <2> QED BY <1>1, <2>1 DEF DeliveryInv, AnswersOK
<1> QED BY <1>1, <1>2, <1>3, <1>4 DEF DeliveryInv, MapNamesARecord, SettledIsEarned

LEMMA BeginKeeps ==
    ASSUME DeliveryInv, NEW w \in Workers, NEW i \in Items, Begin(w, i) PROVE DeliveryInv'
<1> USE DeliveryAssumption
<1>1. "begun" \in Steps /\ 0 \in 0..(MaxRotations + 1) /\ 0 \in Ids /\ i # NoItem
    BY DEF Steps, Ids
<1>2. /\ step' \in [Workers -> Steps] /\ token' \in [Workers -> 0..(MaxRotations + 1)]
      /\ got' \in [Workers -> Ids] /\ step'[w] = "begun"
      /\ \A v \in Workers \ {w} : step'[v] = step[v] /\ got'[v] = got[v]
    BY <1>1, AdvanceFacts DEF Begin
<1>3. /\ run' \in [Workers -> Items \cup {NoItem}] /\ run'[w] = i /\ row' = row
      /\ \A v \in Workers \ {w} : run'[v] = run[v]
    BY DEF Begin, Queue!Start, DeliveryInv, TypeOK, Queue!QueueTypeOK
<1>4. attempts' \in [Items -> Nat] /\ \A j \in Items : attempts[j] <= attempts'[j]
    BY DEF Begin, DeliveryInv, TypeOK
<1>5. faults' \in 0..MaxFaults
    BY DEF Begin, DeliveryInv, TypeOK
<1>6. UNCHANGED <<epoch, made, remembered, forgets, chunk, recordMap>>
    BY DEF Begin, feishu, tables
<1>7. TypeOK'
    BY <1>1, <1>2, <1>3, <1>4, <1>5, <1>6 DEF DeliveryInv, TypeOK, Queue!QueueTypeOK
<1>8. AnswersOK'
    BY <1>2, <1>3, <1>6 DEF DeliveryInv, AnswersOK
<1>9. SettledIsEarned'
    BY <1>3, <1>4, <1>6 DEF DeliveryInv, TypeOK, SettledIsEarned
<1> QED BY <1>6, <1>7, <1>8, <1>9 DEF DeliveryInv, FeishuOK, MapNamesARecord

LEMMA HandlerKeeps ==
    ASSUME DeliveryInv, NEW w \in Workers,
           \/ FetchToken(w) \/ CallServed(w) \/ CallRefused(w) \/ CheckChunk(w)
    PROVE  DeliveryInv'
<1> USE DeliveryAssumption
<1>1. run[w] \in Items /\ token[w] \in 0..(MaxRotations + 1) /\ epoch \in 0..(MaxRotations + 1)
      /\ got[w] \in Ids /\ 0 \in Ids
    BY Busy DEF FetchToken, CallServed, CallRefused, CheckChunk, DeliveryInv, TypeOK, Ids
<1>2. {"call", "refused", "again", "answered", "checked"} \subseteq Steps \ {"idle"}
    BY DEF Steps
<1>3. CASE FetchToken(w)
  <2>1. \E s \in {"call", "again"} : Advance(w, s, epoch, 0)
      BY <1>3 DEF FetchToken
  <2> QED BY <1>1, <1>2, <1>3, <2>1, AdvanceKeeps DEF FetchToken
<1>4. CASE CallServed(w)
  <2>1. Serve(run[w], Answer(run[w])) /\ Advance(w, "answered", token[w], Answer(run[w]))
      BY <1>4 DEF CallServed
  <2>2. /\ Answer(run[w]) \in Ids /\ Answer(run[w]) # 0 /\ Answer(run[w]) <= made'[run[w]]
        /\ run[w] \notin Updates => Answer(run[w]) = remembered'[run[w]]
      BY <1>1, <2>1, ServeFacts
  <2> QED BY <1>1, <1>2, <1>4, <2>1, <2>2, AdvanceKeeps DEF CallServed
<1>5. CASE CallRefused(w)
    BY <1>1, <1>2, <1>5, AdvanceKeeps DEF CallRefused
<1>6. CASE CheckChunk(w)
  <2>1. /\ got[w] # 0 /\ got[w] <= made'[run[w]]
        /\ run[w] \notin Updates => got[w] = remembered'[run[w]]
        /\ run[w] \in Writes => chunk[run[w]] \in {0, got[w]}
      BY <1>6 DEF CheckChunk, Conflict, DeliveryInv, AnswersOK, feishu
  <2> QED BY <1>1, <1>2, <1>6, <2>1, AdvanceKeeps DEF CheckChunk
<1> QED BY <1>3, <1>4, <1>5, <1>6

LEMMA FailureKeeps ==
    ASSUME DeliveryInv, NEW w \in Workers,
           \/ CallRefusedAgain(w) \/ RaiseConflict(w) \/ CallFails(w) \/ Crash(w)
    PROVE  DeliveryInv'
<1> USE DeliveryAssumption
<1>1. CASE CallRefusedAgain(w)
    BY <1>1, EndKeeps DEF CallRefusedAgain, DeliveryInv, TypeOK
<1>2. CASE RaiseConflict(w)
    BY <1>2, EndKeeps DEF RaiseConflict, DeliveryInv, TypeOK
<1>3. CASE CallFails(w)
  <2>1. run[w] \in Items
      BY <1>3, Busy DEF CallFails
  <2>2. faults' \in 0..MaxFaults
      BY <1>3 DEF CallFails, DeliveryInv, TypeOK
  <2> QED BY <1>3, <2>1, <2>2, EndKeeps DEF CallFails
<1>4. CASE Crash(w)
  <2>1. faults' \in 0..MaxFaults
      BY <1>4 DEF Crash, DeliveryInv, TypeOK
  <2> QED BY <1>4, <2>1, EndKeeps DEF Crash
<1> QED BY <1>1, <1>2, <1>3, <1>4

LEMMA NextKeepsInv == ASSUME DeliveryInv, [Next]_vars PROVE DeliveryInv'
<1> USE DeliveryAssumption
<1>1. CASE UNCHANGED vars
    BY <1>1 DEF vars, local, feishu, tables, DeliveryInv, TypeOK, Queue!QueueTypeOK, FeishuOK, AnswersOK,
                MapNamesARecord, SettledIsEarned
<1>2. CASE Rotate
  <2>1. epoch' \in 1..(MaxRotations + 1)
      BY <1>2 DEF Rotate, DeliveryInv, TypeOK
  <2> QED BY <1>2, <2>1
          DEF Rotate, local, feishu, tables, DeliveryInv, TypeOK, Queue!QueueTypeOK, FeishuOK, AnswersOK,
              MapNamesARecord, SettledIsEarned
<1>3. ASSUME NEW i \in Items, Enqueue(i) PROVE DeliveryInv'
  <2>1. Queue!QueueTypeOK' /\ run' = run /\ \A j \in Items : row'[j] = row[j] \/ row'[j] = "open"
      BY <1>3 DEF Enqueue, Queue!Enqueue, DeliveryInv, TypeOK, Queue!QueueTypeOK, Queue!RowStates
  <2>2. UNCHANGED <<attempts, epoch, step, token, got, made, remembered, forgets, chunk, recordMap, faults>>
      BY <1>3 DEF Enqueue, local, feishu, tables
  <2> QED BY <2>1, <2>2 DEF DeliveryInv, TypeOK, FeishuOK, AnswersOK, MapNamesARecord, SettledIsEarned
<1> QED BY <1>1, <1>2, <1>3, BeginKeeps, ForgetKeeps, HandlerKeeps, FailureKeeps, CommitKeeps
        DEF Next, HandlerStep

LEMMA DeliveryInvariant == Spec => []DeliveryInv
BY InitDeliveryInv, NextKeepsInv, PTL DEF Spec

(* The state of deliveries keeps its types.                                *)
THEOREM DeliveryTypeOK == Spec => []TypeOK
<1>1. DeliveryInv => TypeOK
    BY DEF DeliveryInv
<1> QED BY <1>1, DeliveryInvariant, PTL

(* A duplicate message or record has a lapsed idempotency token behind it  *)
(* (send_card, batch_create).                                              *)
THEOREM DeliveryDuplicatesExplained == Spec => []DuplicatesExplained
<1>1. DeliveryInv => DuplicatesExplained
    BY DEF DeliveryInv, TypeOK, FeishuOK, DuplicatesExplained, Ids
<1> QED BY <1>1, DeliveryInvariant, PTL

(* Chunk and record map agree and name a record of the row                 *)
(* (record_chunk_success).                                                 *)
THEOREM DeliveryMapNamesARecord == Spec => []MapNamesARecord
<1>1. DeliveryInv => MapNamesARecord
    BY DEF DeliveryInv
<1> QED BY <1>1, DeliveryInvariant, PTL

(* Success has its effect behind it and a dead letter its attempts.        *)
THEOREM DeliverySettledIsEarned == Spec => []SettledIsEarned
<1>1. DeliveryInv => SettledIsEarned
    BY DEF DeliveryInv
<1> QED BY <1>1, DeliveryInvariant, PTL

(* The first recorded record stays (_client_token_conflict_reason).        *)
THEOREM DeliveryFirstRecordKept == Spec => FirstRecordKept
<1>1. ASSUME DeliveryInv, [Next]_vars
      PROVE  [\A i \in Writes : chunk[i] # 0 => chunk'[i] = chunk[i]]_vars
  <2>1. ASSUME chunk' # chunk PROVE \E w \in Workers : Commit(w)
      BY <1>1, <2>1 DEF Next, HandlerStep, vars, Rotate, Enqueue, Forget, Begin, FetchToken, CallServed,
         CallRefused, CallRefusedAgain, CheckChunk, RaiseConflict, CallFails, Crash, tables
  <2> QED BY <1>1, <2>1, CommitKeeps
<1> QED BY <1>1, DeliveryInvariant, PTL DEF Spec, FirstRecordKept

-----------------------------------------------------------------------------
(* A run that ends is a step of the queue, whatever it settles its row as. *)
LEMMA SettleIsQueueStep ==
    ASSUME NEW w \in Workers, NEW outcome \in Queue!RowStates \ {"absent"},
           NEW new \in SUBSET Items, Queue!Settle(w, outcome, new)
    PROVE  Queue!Next
BY DEF Queue!Next

(* The outcome of a run that raises is one the queue knows.                *)
LEMMA GiveUpIsQueueStep ==
    ASSUME NEW w \in Workers, GiveUp(w)
    PROVE  Queue!Next
<1>1. PICK outcome \in Queue!RowStates \ {"absent"} :
          outcome = IF attempts[run[w]] >= MaxAttempts THEN "dead_letter" ELSE "open"
    BY DEF Queue!RowStates
<1>2. Queue!Settle(w, outcome, {})
    BY <1>1 DEF GiveUp, Queue!Settle
<1> QED BY <1>2, SettleIsQueueStep

(* Tokens, calls and Feishu's own steps are invisible to the queue; a      *)
(* delivery touches its row only by starting and ending a run.             *)
LEMMA NextIsQueueStep == [Next]_vars => [Queue!Next]_(Queue!queueVars)
<1> SUFFICES ASSUME [Next]_vars PROVE [Queue!Next]_(Queue!queueVars)
    OBVIOUS
<1>1. ASSUME UNCHANGED <<row, run>> PROVE UNCHANGED Queue!queueVars
    BY <1>1 DEF Queue!queueVars
<1>2. ASSUME NEW i \in Items, Enqueue(i) PROVE Queue!Next
    BY <1>2 DEF Enqueue, Queue!Next
<1>3. ASSUME NEW i \in Items, NEW w \in Workers, Begin(w, i) PROVE Queue!Next
    BY <1>3 DEF Begin, Queue!Next
<1>4. ASSUME NEW w \in Workers, Commit(w) PROVE Queue!Next
  <2>1. Queue!Settle(w, "succeeded", {}) /\ "succeeded" \in Queue!RowStates \ {"absent"}
      BY <1>4 DEF Commit, Queue!RowStates
  <2> QED BY <2>1, SettleIsQueueStep
<1>5. ASSUME NEW w \in Workers, CallRefusedAgain(w) \/ RaiseConflict(w) \/ CallFails(w)
      PROVE  Queue!Next
    BY <1>5, GiveUpIsQueueStep DEF CallRefusedAgain, RaiseConflict, CallFails
<1>6. ASSUME NEW w \in Workers, Crash(w) PROVE Queue!Next
    BY <1>6 DEF Crash, Queue!Next
<1>7. ASSUME NEW w \in Workers, FetchToken(w) \/ CallServed(w) \/ CallRefused(w) \/ CheckChunk(w)
      PROVE  UNCHANGED <<row, run>>
    BY <1>7 DEF FetchToken, CallServed, CallRefused, CheckChunk
<1>8. ASSUME Rotate \/ (\E i \in Items : Forget(i)) \/ UNCHANGED vars PROVE UNCHANGED <<row, run>>
    BY <1>8 DEF Rotate, Forget, vars
<1> QED BY <1>1, <1>2, <1>3, <1>4, <1>5, <1>6, <1>7, <1>8 DEF Next, HandlerStep

(* Deliveries ask of the outbox only what the durable queue offers, so     *)
(* that OutboxImplementsQueue and the theorems above are about one system. *)
THEOREM DeliveryUsesQueue == Spec => Queue!Spec
<1>1. Init => Queue!Init
    BY DEF Init
<1> QED BY <1>1, NextIsQueueStep, PTL DEF Spec, Queue!Spec

=============================================================================
