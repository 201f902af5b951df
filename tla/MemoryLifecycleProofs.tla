------------------------ MODULE MemoryLifecycleProofs ------------------------
(***************************************************************************)
(* Proofs about the memory lifecycle, for any memories, drafts, sessions   *)
(* and retention periods, and about retrieval, for any finite table, any   *)
(* requests and any orders of similarity.                                  *)
(***************************************************************************)
EXTENDS MemoryLifecycle, FiniteSetTheorems, WellFoundedInduction, TLAPS

(* A stored row holds two drafts and the time of its creation, proposal    *)
(* rows refer to stored memories, and sessions hold stored rows only.      *)
StoredOK ==
    /\ \A m \in Memories : Stored(m) =>
          /\ item[m].first \in Drafts /\ item[m].last \in Drafts
          /\ item[m].created \in 0..MaxNow
    /\ \A m \in filed : Stored(m)

SessionsOK ==
    /\ session = [s \in Sessions |-> session[s]]
    /\ \A s \in Sessions : \A m \in session[s].of :
          /\ Stored(m)
          /\ session[s].loaded[m].status # "absent"
          /\ session[s].loaded[m].last \in Drafts
          /\ session[s].loaded[m].created \in 0..MaxNow

MemoryInv == TypeOK /\ StoredOK /\ SessionsOK

-----------------------------------------------------------------------------
LEMMA InitMemoryInv == Init => MemoryInv
<1> SUFFICES ASSUME Init PROVE MemoryInv
    OBVIOUS
<1>1. Absent \in Rows /\ Absent.status = "absent"
    BY DEF Absent, Rows, Times, Statuses
<1>2. Idle.op = "idle" /\ Idle.of = {} /\ Idle.loaded \in [{} -> Rows] /\ Idle.at = 0
    BY DEF Idle
<1>3. \A s \in Sessions : session[s] = Idle
    BY DEF Init
<1>4. item \in [Memories -> Rows] /\ reviewed = {} /\ filed = {}
    BY <1>1 DEF Init
<1>5. proposals \in 0..MaxProposals /\ now \in 0..MaxNow /\ 0 \in 0..MaxNow
    BY MemoryAssumption DEF Init
<1>6. TypeOK
    BY <1>2, <1>3, <1>4, <1>5 DEF TypeOK
<1>7. \A m \in Memories : item[m].status = "absent"
    BY <1>1 DEF Init
<1> QED BY <1>2, <1>3, <1>4, <1>6, <1>7 DEF Init, MemoryInv, StoredOK, SessionsOK, Stored

(* A default end is a time, and there is none exactly for the permanent.   *)
LEMMA ExpiryFacts ==
    ASSUME NEW scope, NEW policy, NEW at \in Nat
    PROVE  /\ DefaultExpiry(scope, policy, at) \in Times
           /\ DefaultExpiry(scope, policy, at) = None <=> policy = "permanent"
<1>1. Window(scope, policy) \in {RunRetention, LongRetention}
  <2>1. CASE policy = "30d"
      BY <2>1 DEF Window
  <2>2. CASE policy = "90d"
      BY <2>2 DEF Window
  <2>3. CASE policy \notin {"30d", "90d"}
      BY <2>3 DEF Window
  <2> QED BY <2>1, <2>2, <2>3
<1>2. at + Window(scope, policy) \in Nat /\ at + Window(scope, policy) # None
    BY <1>1, MemoryAssumption
<1> QED BY <1>2 DEF DefaultExpiry, Times

(* What a session wants of a row it has loaded is a row; the status it     *)
(* wants is "active" only if it approves or found it so, and the end it    *)
(* wants is none only if it found none, or a permanent memory.             *)
LEMMA WantedFacts ==
    ASSUME MemoryInv, NEW s \in Sessions, NEW m \in session[s].of
    PROVE  LET r == session[s].loaded[m] IN
           /\ m \in Memories /\ r \in Rows
           /\ Wanted(s, m).status \in Statuses \ {"absent"}
           /\ Wanted(s, m).expires \in Times
           /\ Wanted(s, m).status # r.status /\ Wanted(s, m).status = "active" => session[s].op = "approve"
           /\ Wanted(s, m).expires # r.expires /\ Wanted(s, m).expires = None => r.last.policy = "permanent"
<1> DEFINE r == session[s].loaded[m]
           at == session[s].at
<1>1. /\ m \in Memories /\ r \in Rows /\ at \in Nat /\ r.created \in Nat
      /\ r.status # "absent"
    BY MemoryAssumption DEF MemoryInv, TypeOK, SessionsOK
<1>2. CASE session[s].op = "approve"
  <2> DEFINE e == DefaultExpiry(r.first.scope, r.last.policy, at)
  <2>1. Wanted(s, m) = [r EXCEPT !.status = "active", !.expires = e]
      BY <1>2 DEF Wanted, Approval
  <2>2. e \in Times /\ (e = None <=> r.last.policy = "permanent")
      BY <1>1, ExpiryFacts
  <2> HIDE DEF e
  <2>3. Wanted(s, m).status = "active" /\ Wanted(s, m).expires = e
      BY <1>1, <2>1 DEF Rows
  <2> QED BY <1>1, <1>2, <2>2, <2>3 DEF Statuses
<1>3. CASE session[s].op = "revoke"
  <2>1. Wanted(s, m) = [r EXCEPT !.status = "revoked"]
      BY <1>3 DEF Wanted, Revocation
  <2>2. Wanted(s, m).status = "revoked" /\ Wanted(s, m).expires = r.expires /\ r.expires \in Times
      BY <1>1, <2>1 DEF Rows
  <2> QED BY <1>1, <1>3, <2>2 DEF Statuses
<1>4. CASE session[s].op \notin {"approve", "revoke"}
  <2> DEFINE e == IF r.last.policy # "permanent" /\ r.expires # None THEN r.expires
                  ELSE DefaultExpiry(r.first.scope, r.last.policy, r.created)
             kept == [r EXCEPT !.expires = e]
  <2>1. Wanted(s, m) = Retained(r, at)
      BY <1>4 DEF Wanted
  <2>2. Wanted(s, m) = IF Lapsed(kept, at) THEN [kept EXCEPT !.status = "expired"] ELSE kept
      BY <2>1 DEF Retained
  <2>3. e \in Times /\ (e = None => r.last.policy = "permanent")
      BY <1>1, ExpiryFacts DEF Rows
  <2>4. kept \in Rows /\ kept.status = r.status /\ kept.expires = e
      BY <1>1, <2>3 DEF Rows
  <2> HIDE DEF kept, e
  <2>5. Wanted(s, m).status \in {r.status, "expired"} /\ Wanted(s, m).expires = e
      BY <2>2, <2>4 DEF Rows
  <2>6. r.status \in Statuses
      BY <1>1 DEF Rows
  <2> QED BY <1>1, <2>3, <2>5, <2>6 DEF Statuses
<1> QED BY <1>2, <1>3, <1>4

(* What a proposal stores.                                                 *)
LEMMA UpsertFacts ==
    ASSUME MemoryInv, NEW d \in Drafts
    PROVE  LET new == Upserted(d) IN
           /\ d.key \in Memories /\ new \in Rows
           /\ new.status = (IF LongTerm(d.scope) THEN "pending_review" ELSE "active")
           /\ new.first \in Drafts /\ new.last = d
           /\ new.created \in 0..MaxNow
           /\ new.expires = None => d.policy = "permanent"
<1> DEFINE m == d.key
           st == IF LongTerm(d.scope) THEN "pending_review" ELSE "active"
           fi == IF Stored(m) THEN item[m].first ELSE d
           e == DraftExpiry(d)
           cr == IF Stored(m) THEN item[m].created ELSE now
<1>1. m \in Memories /\ now \in 0..MaxNow /\ now \in Nat /\ (d.ends \in Nat \/ d.ends = None)
    BY DraftAssumption DEF MemoryInv, TypeOK
<1>2. fi \in Drafts /\ cr \in 0..MaxNow /\ cr \in Times
    BY <1>1, MemoryAssumption DEF MemoryInv, StoredOK, Times
<1>3. e \in Times /\ (e = None => d.policy = "permanent")
  <2>1. CASE d.policy = "permanent" \/ d.ends = None
      BY <1>1, <2>1, ExpiryFacts DEF DraftExpiry
  <2>2. CASE ~(d.policy = "permanent" \/ d.ends = None)
      BY <1>1, <2>2 DEF DraftExpiry, Times
  <2> QED BY <2>1, <2>2
<1>4. st \in Statuses
    BY DEF Statuses
<1>5. Upserted(d) = [status |-> st, first |-> fi, last |-> d, expires |-> e, created |-> cr]
    BY DEF Upserted
<1> HIDE DEF st, fi, e, cr
<1>6. Upserted(d) \in Rows
    BY <1>2, <1>3, <1>4, <1>5 DEF Rows
<1> QED BY <1>1, <1>2, <1>3, <1>5, <1>6 DEF st

LEMMA ProposeKeeps ==
    ASSUME MemoryInv, NEW d \in Drafts, ProposeUpdate(d)
    PROVE  /\ MemoryInv'
           /\ \A n \in Memories \ {d.key} : item'[n] = item[n]
           /\ item'[d.key].status = "active" => ~LongTerm(item'[d.key].last.scope)
           /\ proposals' > proposals /\ reviewed' = reviewed \ {d.key}
           /\ item'[d.key].expires = None => item'[d.key].last.policy = "permanent"
<1> DEFINE m == d.key
           new == Upserted(d)
<1>1. /\ m \in Memories /\ item' = [item EXCEPT ![m] = new]
      /\ reviewed' = reviewed \ {m}
      /\ UNCHANGED <<session, now>> /\ proposals < MaxProposals /\ proposals' = proposals + 1
    BY UpsertFacts DEF ProposeUpdate
<1>2. /\ new \in Rows /\ new.status \in {"pending_review", "active"}
      /\ new.status = "active" => ~LongTerm(d.scope)
      /\ new.first \in Drafts /\ new.last = d /\ new.created \in 0..MaxNow
      /\ new.expires = None => d.policy = "permanent"
    BY UpsertFacts
<1>3. filed' = filed \/ filed' = filed \cup Named(d)
    BY DEF ProposeUpdate
<1>4. \A n \in Named(d) : n \in Memories /\ (n = m \/ Stored(n))
    BY DEF Named
<1> HIDE DEF new, m
<1>5. /\ item'[m] = new /\ \A n \in Memories \ {m} : item'[n] = item[n]
      /\ item' \in [Memories -> Rows] /\ reviewed' \subseteq Memories
    BY <1>1, <1>2 DEF MemoryInv, TypeOK
<1>6. TypeOK'
  <2>1. proposals' \in 0..MaxProposals
      BY <1>1, MemoryAssumption DEF MemoryInv, TypeOK
  <2>2. filed' \subseteq Memories
      BY <1>3, <1>4 DEF MemoryInv, TypeOK
  <2> QED BY <1>1, <1>5, <2>1, <2>2 DEF MemoryInv, TypeOK
<1>7. \A n \in Memories : Stored(n) => Stored(n)'
    BY <1>2, <1>5 DEF Stored
<1>8. Stored(m)'
    BY <1>2, <1>5 DEF Stored
<1>9. StoredOK'
  <2>1. \A n \in Memories : Stored(n)' =>
            /\ item'[n].first \in Drafts /\ item'[n].last \in Drafts
            /\ item'[n].created \in 0..MaxNow
      BY <1>2, <1>5 DEF MemoryInv, StoredOK, Stored
  <2>2. \A n \in filed' : Stored(n)'
      BY <1>3, <1>4, <1>7, <1>8 DEF MemoryInv, StoredOK, TypeOK
  <2> QED BY <2>1, <2>2 DEF StoredOK
<1>10. SessionsOK'
    BY <1>1, <1>7 DEF MemoryInv, TypeOK, SessionsOK
<1>11. proposals' > proposals
    BY <1>1 DEF MemoryInv, TypeOK
<1> QED BY <1>1, <1>2, <1>5, <1>6, <1>9, <1>10, <1>11 DEF MemoryInv, m

LEMMA LoadKeeps ==
    ASSUME MemoryInv, NEW s \in Sessions, NEW op \in {"approve", "revoke", "retention"},
           NEW ms \in SUBSET Memories, \A m \in ms : Stored(m), Load(s, op, ms)
    PROVE  MemoryInv'
<1> DEFINE new == [op |-> op, of |-> ms, loaded |-> [m \in ms |-> item[m]], at |-> now]
<1>1. /\ session'[s] = new /\ session' = [t \in Sessions |-> session'[t]]
      /\ \A t \in Sessions \ {s} : session'[t] = session[t]
      /\ UNCHANGED <<item, filed, proposals, reviewed, now>>
    BY DEF Load, MemoryInv, SessionsOK
<1>2. /\ new.loaded \in [ms -> Rows] /\ \A m \in ms : new.loaded[m] = item[m]
      /\ new.op = op /\ new.of = ms /\ new.at = now /\ now \in 0..MaxNow
    BY DEF MemoryInv, TypeOK
<1> HIDE DEF new
<1>3. TypeOK'
    BY <1>1, <1>2 DEF MemoryInv, TypeOK
<1>4. SessionsOK'
  <2> SUFFICES ASSUME NEW t \in Sessions, NEW m \in session'[t].of
               PROVE  /\ Stored(m)'
                      /\ session'[t].loaded[m].status # "absent"
                      /\ session'[t].loaded[m].last \in Drafts
                      /\ session'[t].loaded[m].created \in 0..MaxNow
      BY <1>1 DEF SessionsOK
  <2>1. CASE t = s
      BY <1>1, <1>2, <2>1 DEF MemoryInv, StoredOK, Stored
  <2>2. CASE t # s
      BY <1>1, <2>2 DEF MemoryInv, SessionsOK, Stored
  <2> QED BY <2>1, <2>2
<1> QED BY <1>1, <1>3, <1>4 DEF MemoryInv, StoredOK, Stored

(* What the flush leaves in a row.                                         *)
LEMMA CommitFacts ==
    ASSUME MemoryInv, NEW s \in Sessions, CommitSession(s)
    PROVE  /\ item' \in [Memories -> Rows]
           /\ \A m \in Memories \ session[s].of : item'[m] = item[m]
           /\ \A m \in session[s].of :
                 LET r == session[s].loaded[m] IN
                 /\ item'[m].first = item[m].first /\ item'[m].last = item[m].last
                 /\ item'[m].created = item[m].created
                 /\ item'[m].status = IF Wanted(s, m).status # r.status THEN Wanted(s, m).status
                                      ELSE item[m].status
                 /\ item'[m].expires = IF Wanted(s, m).expires # r.expires THEN Wanted(s, m).expires
                                       ELSE item[m].expires
<1> DEFINE F(m) == Flushed(m, session[s].loaded[m], Wanted(s, m))
<1>1. item' = [m \in Memories |-> IF m \in session[s].of THEN F(m) ELSE item[m]]
    BY DEF CommitSession
<1>2. item \in [Memories -> Rows] /\ session[s].of \subseteq Memories
    BY DEF MemoryInv, TypeOK
<1>3. ASSUME NEW m \in session[s].of
      PROVE  LET r == session[s].loaded[m] IN
             /\ F(m) \in Rows
             /\ F(m).first = item[m].first /\ F(m).last = item[m].last
             /\ F(m).created = item[m].created
             /\ F(m).status = IF Wanted(s, m).status # r.status THEN Wanted(s, m).status
                              ELSE item[m].status
             /\ F(m).expires = IF Wanted(s, m).expires # r.expires THEN Wanted(s, m).expires
                               ELSE item[m].expires
  <2>1. Wanted(s, m).status \in Statuses /\ Wanted(s, m).expires \in Times
      BY WantedFacts
  <2>2. item[m] \in Rows
      BY <1>2
  <2> QED BY <2>1, <2>2 DEF Flushed, Rows
<1> HIDE DEF F
<1> QED BY <1>1, <1>2, <1>3

LEMMA CommitKeeps ==
    ASSUME MemoryInv, NEW s \in Sessions, CommitSession(s) PROVE MemoryInv'
<1>1. /\ session'[s] = Idle /\ session' = [t \in Sessions |-> session'[t]]
      /\ \A t \in Sessions \ {s} : session'[t] = session[t]
      /\ UNCHANGED <<proposals, now>> /\ session[s].of \subseteq Memories
      /\ filed' = filed \/ filed' = filed \cup session[s].of
    BY DEF CommitSession, MemoryInv, TypeOK, SessionsOK
<1>2. Idle.op = "idle" /\ Idle.of = {} /\ Idle.loaded \in [{} -> Rows] /\ Idle.at \in 0..MaxNow
    BY MemoryAssumption DEF Idle
<1>3. TypeOK'
  <2>1. reviewed' \subseteq Memories
      BY <1>1 DEF CommitSession, Approves, MemoryInv, TypeOK
  <2> QED BY <1>1, <1>2, <2>1, CommitFacts DEF MemoryInv, TypeOK
<1>4. \A m \in Memories : Stored(m) => Stored(m)'
  <2> TAKE m \in Memories
  <2>1. CASE m \in session[s].of
    <3>1. Wanted(s, m).status # "absent"
        BY <2>1, WantedFacts
    <3> QED BY <2>1, <3>1, CommitFacts DEF Stored
  <2>2. CASE m \notin session[s].of
      BY <2>2, CommitFacts DEF Stored
  <2> QED BY <2>1, <2>2
<1>5. \A m \in session[s].of : Stored(m)
    BY DEF MemoryInv, SessionsOK
<1>6. StoredOK'
  <2>1. ASSUME NEW m \in Memories, Stored(m)'
        PROVE  /\ item'[m].first \in Drafts /\ item'[m].last \in Drafts
               /\ item'[m].created \in 0..MaxNow
    <3>1. CASE m \in session[s].of
        BY <1>5, <3>1, CommitFacts DEF MemoryInv, StoredOK
    <3>2. CASE m \notin session[s].of
        BY <2>1, <3>2, CommitFacts DEF MemoryInv, StoredOK, Stored
    <3> QED BY <3>1, <3>2
  <2>2. \A m \in filed' : Stored(m)'
      BY <1>1, <1>4, <1>5 DEF MemoryInv, StoredOK, TypeOK
  <2> QED BY <2>1, <2>2 DEF StoredOK
<1>7. SessionsOK'
    BY <1>1, <1>2, <1>4 DEF MemoryInv, TypeOK, SessionsOK
<1> QED BY <1>3, <1>6, <1>7 DEF MemoryInv

LEMMA NextKeepsInv == ASSUME MemoryInv, [Next]_vars PROVE MemoryInv'
<1>1. CASE UNCHANGED vars
    BY <1>1 DEF vars, MemoryInv, TypeOK, StoredOK, SessionsOK, Stored
<1>2. CASE Tick
  <2>1. now' \in 0..MaxNow
      BY <1>2, MemoryAssumption DEF Tick, MemoryInv, TypeOK
  <2> QED BY <1>2, <2>1
          DEF Tick, MemoryInv, TypeOK, StoredOK, SessionsOK, Stored
<1>3. ASSUME NEW s \in Sessions, NEW m \in Memories, LoadForApproval(s, m) \/ LoadForRevocation(s, m)
      PROVE  MemoryInv'
    BY <1>3, LoadKeeps DEF LoadForApproval, LoadForRevocation, MemoryInv, StoredOK
<1>4. ASSUME NEW s \in Sessions, LoadForRetention(s) PROVE MemoryInv'
    BY <1>4, LoadKeeps DEF LoadForRetention, Stored
<1> QED BY <1>1, <1>2, <1>3, <1>4, ProposeKeeps, CommitKeeps DEF Next

LEMMA MemoryInvariant == Spec => []MemoryInv
BY InitMemoryInv, NextKeepsInv, PTL DEF Spec

(* The memories keep their types.                                          *)
THEOREM MemoryTypeOK == Spec => []TypeOK
<1>1. MemoryInv => TypeOK
    BY DEF MemoryInv
<1> QED BY <1>1, MemoryInvariant, PTL

(* A long-term memory is put into service unreviewed only by content      *)
(* proposed as a memory of the run, or by an approval that was overtaken:  *)
(* never by a revocation or a retention run, however stale what it flushes *)
(* (propose_update, approve_update, revoke_update,                         *)
(* MemoryRetentionService.run).                                            *)
THEOREM MemoryUnreviewedOnlyIfOvertaken == Spec => UnreviewedOnlyIfOvertaken
<1> DEFINE Allowed(m) ==
             \/ proposals' > proposals /\ ~LongTerm(item'[m].last.scope)
             \/ \E s \in Sessions : /\ session[s].op = "approve" /\ session'[s] = Idle
                                    /\ m \in session[s].of /\ Overtaken(s, m)
<1>1. ASSUME MemoryInv, [Next]_vars, NEW m \in Memories, ~Unreviewed(m), Unreviewed(m)'
      PROVE  Allowed(m)
  <2>1. /\ item'[m].status = "active" /\ m \notin reviewed'
        /\ LongTerm(item'[m].first.scope)
      BY <1>1 DEF Unreviewed, ScopeOf, LongTerm
  <2>2. item'[m] # item[m] \/ m \in reviewed
      BY <1>1, <2>1 DEF Unreviewed, ScopeOf
  <2>3. CASE \E d \in Drafts : ProposeUpdate(d)
    <3>1. PICK d \in Drafts : ProposeUpdate(d)
        BY <2>3
    <3>2. d.key = m
        BY <1>1, <2>1, <2>2, <3>1, ProposeKeeps
    <3> QED BY <1>1, <2>1, <3>1, <3>2, ProposeKeeps
  <2>4. CASE \E s \in Sessions : CommitSession(s)
    <3>1. PICK s \in Sessions : CommitSession(s)
        BY <2>4
    <3>2. /\ session'[s] = Idle
          /\ reviewed' = (reviewed \cup Approves(s)) \ TakesOut(s)
        BY <1>1, <3>1 DEF CommitSession, MemoryInv, SessionsOK
    <3>3. m \in session[s].of
        BY <1>1, <2>1, <2>2, <3>1, <3>2, CommitFacts DEF TakesOut
    <3>4. m \notin TakesOut(s)
        BY <1>1, <2>1, <3>1, <3>3, CommitFacts DEF TakesOut
    <3>5. m \notin reviewed /\ m \notin Approves(s)
        BY <2>1, <3>2, <3>4
    <3>6. item'[m].first = item[m].first
        BY <1>1, <3>1, <3>3, CommitFacts
    <3>7. item[m].status # "active"
        BY <1>1, <2>1, <3>5, <3>6 DEF Unreviewed, ScopeOf
    <3>8. Wanted(s, m).status = "active" /\ Wanted(s, m).status # session[s].loaded[m].status
        BY <1>1, <2>1, <3>1, <3>3, <3>7, CommitFacts
    <3>9. session[s].op = "approve"
        BY <1>1, <3>3, <3>8, WantedFacts
    <3>10. Overtaken(s, m)
        BY <3>3, <3>5, <3>9 DEF Approves
    <3> QED BY <3>2, <3>3, <3>9, <3>10
  <2>5. CASE UNCHANGED <<item, reviewed>>
      BY <2>1, <2>2, <2>5
  <2> QED BY <1>1, <2>3, <2>4, <2>5
          DEF Next, vars, LoadForApproval, LoadForRevocation, LoadForRetention, Load, Tick
<1>2. ASSUME MemoryInv, [Next]_vars
      PROVE  [\A m \in Memories : ~Unreviewed(m) /\ Unreviewed(m)' => Allowed(m)]_vars
    BY <1>1, <1>2
<1> QED BY <1>2, MemoryInvariant, PTL DEF Spec, UnreviewedOnlyIfOvertaken

(* A memory loses its end only to a session that loaded it as permanent.   *)
THEOREM MemoryEndLostToStaleSession == Spec => EndLostToStaleSession
<1> DEFINE Stale(m) ==
             \E s \in Sessions : /\ session[s] # Idle /\ session'[s] = Idle
                                 /\ m \in session[s].of
                                 /\ session[s].loaded[m].last.policy = "permanent"
<1>1. ASSUME MemoryInv, [Next]_vars, NEW m \in Memories, ~Endless(m), Endless(m)'
      PROVE  Stale(m)
  <2>1. /\ item'[m].status # "absent" /\ item'[m].last.policy # "permanent"
        /\ item'[m].expires = None
      BY <1>1 DEF Endless, Stored
  <2>2. item'[m] # item[m]
      BY <1>1 DEF Endless, Stored
  <2>3. ~\E d \in Drafts : ProposeUpdate(d)
    <3> SUFFICES ASSUME NEW d \in Drafts, ProposeUpdate(d) PROVE FALSE
        OBVIOUS
    <3>1. d.key = m
        BY <1>1, <2>2, ProposeKeeps
    <3> QED BY <1>1, <2>1, <3>1, ProposeKeeps
  <2>4. PICK s \in Sessions : CommitSession(s)
      BY <1>1, <2>2, <2>3
         DEF Next, vars, LoadForApproval, LoadForRevocation, LoadForRetention, Load, Tick
  <2>5. m \in session[s].of
      BY <1>1, <2>2, <2>4, CommitFacts
  <2>6. item[m].expires # None
    <3>1. Stored(m)
        BY <1>1, <2>5 DEF MemoryInv, SessionsOK
    <3>2. item'[m].last = item[m].last
        BY <1>1, <2>4, <2>5, CommitFacts
    <3> QED BY <1>1, <2>1, <3>1, <3>2 DEF Endless
  <2>7. Wanted(s, m).expires = None /\ Wanted(s, m).expires # session[s].loaded[m].expires
      BY <1>1, <2>1, <2>4, <2>5, <2>6, CommitFacts
  <2>8. session[s].loaded[m].last.policy = "permanent"
      BY <1>1, <2>5, <2>7, WantedFacts
  <2>9. session[s] # Idle /\ session'[s] = Idle
      BY <1>1, <2>4 DEF CommitSession, MemoryInv, SessionsOK
  <2> QED BY <2>5, <2>8, <2>9
<1>2. ASSUME MemoryInv, [Next]_vars
      PROVE  [\A m \in Memories : ~Endless(m) /\ Endless(m)' => Stale(m)]_vars
    BY <1>1, <1>2
<1> QED BY <1>2, MemoryInvariant, PTL DEF Spec, EndLostToStaleSession

-----------------------------------------------------------------------------
(* Induction on natural numbers, over a set.                               *)
LEMMA NatLeast == ASSUME NEW T, T \subseteq Nat, T # {} PROVE \E x \in T : \A y \in T : ~(y < x)
<1> DEFINE R == OpToRel(<, Nat)
<1>1. IsWellFoundedOn(R, Nat)
    BY NatLessThanWellFounded, Zenon
<1>2. \A x, y \in Nat : x < y => <<x, y>> \in R
    BY DEF OpToRel
<1> HIDE DEF R
<1>3. PICK x \in T : \A y \in T : ~(<<y, x>> \in R)
    BY <1>1, WFMin
<1>4. \A y \in T : ~(y < x)
    BY <1>2, <1>3
<1> QED BY <1>4

LEMMA NatInd ==
    ASSUME NEW S, 0 \in S, \A n \in Nat : n \in S => n + 1 \in S PROVE Nat \subseteq S
<1> DEFINE T == Nat \ S
<1> SUFFICES ASSUME T # {} PROVE FALSE
    OBVIOUS
<1>1. PICK x \in T : \A y \in T : ~(y < x)
    BY NatLeast
<1>2. x # 0 /\ x - 1 \in Nat /\ x - 1 < x
    OBVIOUS
<1>3. x - 1 \in S
    BY <1>1, <1>2
<1> QED BY <1>2, <1>3

-----------------------------------------------------------------------------
(* The tokens of a row are a number.                                       *)
TokensOK == Tokens \in [Memories -> Nat]

LEMMA TokensType == ASSUME MemoryInv PROVE TokensOK
<1>1. \A m \in Memories : Stored(m) => item[m].last.tokens \in Nat
    BY DraftAssumption DEF MemoryInv, StoredOK
<1> QED BY <1>1 DEF TokensOK, Tokens

(* The sum of the tokens of a set.  The recursive definition takes the     *)
(* elements in the order of CHOOSE; the sum does not depend on it.         *)
Chosen(ms) == CHOOSE x \in ms : TRUE
SumStep(f, ms) == IF ms = {} THEN 0 ELSE Tokens[Chosen(ms)] + f[ms \ {Chosen(ms)}]
Small(n) == {ms \in SUBSET Memories : Cardinality(ms) <= n}

LEMMA SubsetFacts ==
    ASSUME NEW ms \in SUBSET Memories
    PROVE  /\ IsFiniteSet(ms) /\ Cardinality(ms) \in Nat
           /\ Cardinality(ms) <= Cardinality(Memories)
           /\ Cardinality(ms) = 0 <=> ms = {}
           /\ ms # {} => Chosen(ms) \in ms
BY FS_Subset, FS_CardinalityType, FS_EmptySet, RetrievalAssumption DEF Chosen

LEMMA LessOne ==
    ASSUME NEW ms \in SUBSET Memories, NEW m \in ms
    PROVE  Cardinality(ms \ {m}) = Cardinality(ms) - 1
BY FS_RemoveElement, SubsetFacts

LEMMA SumExists ==
    ASSUME NEW n \in Nat
    PROVE  \E f : f = [ms \in Small(n) |-> SumStep(f, ms)]
<1> DEFINE S == {k \in Nat : \E f : f = [ms \in Small(k) |-> SumStep(f, ms)]}
<1>1. 0 \in S
  <2> DEFINE f == [ms \in Small(0) |-> 0]
  <2>1. \A ms \in Small(0) : ms = {}
      BY SubsetFacts DEF Small
  <2>2. f = [ms \in Small(0) |-> SumStep(f, ms)]
      BY <2>1 DEF SumStep
  <2> QED BY <2>2
<1>2. ASSUME NEW k \in Nat, k \in S PROVE k + 1 \in S
  <2>1. PICK f : f = [ms \in Small(k) |-> SumStep(f, ms)]
      BY <1>2
  <2> DEFINE g == [ms \in Small(k + 1) |-> SumStep(f, ms)]
  <2>2. ASSUME NEW ms \in Small(k + 1) PROVE SumStep(f, ms) = SumStep(g, ms)
    <3>1. CASE ms = {}
        BY <3>1 DEF SumStep
    <3>2. CASE ms # {}
      <4> DEFINE r == ms \ {Chosen(ms)}
      <4>1. r \in Small(k)
          BY <3>2, SubsetFacts, LessOne DEF Small
      <4>2. r \in Small(k + 1)
          BY <4>1, SubsetFacts DEF Small
      <4>3. f[r] = SumStep(f, r)
          BY <2>1, <4>1
      <4>4. g[r] = SumStep(f, r)
          BY <4>2
      <4> HIDE DEF r, g
      <4> QED BY <3>2, <4>3, <4>4 DEF SumStep, r
    <3> QED BY <3>1, <3>2
  <2>3. g = [ms \in Small(k + 1) |-> SumStep(g, ms)]
      BY <2>2
  <2> HIDE DEF g
  <2> QED BY <2>3
<1> HIDE DEF S
<1>3. Nat \subseteq S
    BY <1>1, <1>2, NatInd
<1> QED BY <1>3 DEF S

LEMMA TotalTokensDef ==
    TotalTokens = [ms \in SUBSET Memories |-> SumStep(TotalTokens, ms)]
<1>1. Small(Cardinality(Memories)) = SUBSET Memories /\ Cardinality(Memories) \in Nat
    BY SubsetFacts DEF Small
<1>2. \E f : f = [ms \in SUBSET Memories |-> SumStep(f, ms)]
    BY <1>1, SumExists
<1>3. TotalTokens = CHOOSE f : f = [ms \in SUBSET Memories |-> SumStep(f, ms)]
    BY DEF TotalTokens, SumStep, Chosen
<1> QED BY <1>2, <1>3

LEMMA SumUnfold ==
    ASSUME NEW ms \in SUBSET Memories
    PROVE  /\ ms = {} => TotalTokens[ms] = 0
           /\ ms # {} => TotalTokens[ms] = Tokens[Chosen(ms)] + TotalTokens[ms \ {Chosen(ms)}]
<1>1. TotalTokens[ms] = SumStep(TotalTokens, ms)
    BY TotalTokensDef
<1> QED BY <1>1 DEF SumStep

LEMMA SumType == ASSUME TokensOK, NEW ms \in SUBSET Memories PROVE TotalTokens[ms] \in Nat
<1> DEFINE S == {k \in Nat : \A x \in Small(k) : TotalTokens[x] \in Nat}
<1>1. 0 \in S
    BY SubsetFacts, SumUnfold DEF Small
<1>2. ASSUME NEW k \in Nat, k \in S PROVE k + 1 \in S
  <2>1. ASSUME NEW x \in Small(k + 1) PROVE TotalTokens[x] \in Nat
    <3>1. CASE x = {}
      <4>1. x \in SUBSET Memories
          BY DEF Small
      <4>2. TotalTokens[x] = 0
          BY <3>1, <4>1, SumUnfold
      <4> QED BY <4>2
    <3>2. CASE x # {}
      <4>1. Chosen(x) \in x /\ x \in SUBSET Memories
          BY <3>2, SubsetFacts DEF Small
      <4>2. x \ {Chosen(x)} \in Small(k)
          BY <4>1, SubsetFacts, LessOne DEF Small
      <4>3. TotalTokens[x \ {Chosen(x)}] \in Nat
          BY <1>2, <4>2
      <4>4. Tokens[Chosen(x)] \in Nat
          BY <4>1 DEF TokensOK
      <4>5. TotalTokens[x] = Tokens[Chosen(x)] + TotalTokens[x \ {Chosen(x)}]
          BY <3>2, <4>1, SumUnfold
      <4> QED BY <4>3, <4>4, <4>5
    <3> QED BY <3>1, <3>2
  <2> QED BY <2>1
<1> HIDE DEF S
<1>3. Nat \subseteq S
    BY <1>1, <1>2, NatInd
<1>4. ms \in Small(Cardinality(ms)) /\ Cardinality(ms) \in Nat
    BY SubsetFacts DEF Small
<1> QED BY <1>3, <1>4 DEF S

LEMMA SumSplit ==
    ASSUME TokensOK, NEW ms \in SUBSET Memories, NEW m \in ms
    PROVE  TotalTokens[ms] = Tokens[m] + TotalTokens[ms \ {m}]
<1> DEFINE S == {k \in Nat : \A x \in Small(k) : \A a \in x :
                                TotalTokens[x] = Tokens[a] + TotalTokens[x \ {a}]}
<1>1. 0 \in S
    BY SubsetFacts DEF Small
<1>2. ASSUME NEW k \in Nat, k \in S PROVE k + 1 \in S
  <2>1. ASSUME NEW x \in Small(k + 1), NEW a \in x
        PROVE  TotalTokens[x] = Tokens[a] + TotalTokens[x \ {a}]
    <3> DEFINE c == Chosen(x)
    <3>1. c \in x /\ x \in SUBSET Memories
        BY SubsetFacts DEF Small
    <3>2. TotalTokens[x] = Tokens[c] + TotalTokens[x \ {c}]
        BY <3>1, SumUnfold
    <3> HIDE DEF c
    <3>3. CASE a = c
        BY <3>2, <3>3
    <3>4. CASE a # c
      <4> DEFINE xc == x \ {c}
                 xa == x \ {a}
                 y  == xc \ {a}
      <4>1. xc \in Small(k) /\ xa \in Small(k) /\ y \in SUBSET Memories
          BY <3>1, SubsetFacts, LessOne DEF Small
      <4>2. a \in xc /\ c \in xa /\ y = xa \ {c}
          BY <3>1, <3>4
      <4>3. TotalTokens[xc] = Tokens[a] + TotalTokens[y]
          BY <1>2, <4>1, <4>2
      <4> HIDE DEF y
      <4>4. TotalTokens[xa] = Tokens[c] + TotalTokens[y]
          BY <1>2, <4>1, <4>2
      <4>5. Tokens[a] \in Nat /\ Tokens[c] \in Nat /\ TotalTokens[y] \in Nat
          BY <3>1, <4>1, SumType DEF TokensOK
      <4> QED BY <3>2, <4>3, <4>4, <4>5
    <3> QED BY <3>3, <3>4
  <2> QED BY <2>1
<1> HIDE DEF S
<1>3. Nat \subseteq S
    BY <1>1, <1>2, NatInd
<1>4. ms \in Small(Cardinality(ms)) /\ Cardinality(ms) \in Nat
    BY SubsetFacts DEF Small
<1> QED BY <1>3, <1>4 DEF S

LEMMA SumAdd ==
    ASSUME TokensOK, NEW ms \in SUBSET Memories, NEW m \in Memories \ ms
    PROVE  TotalTokens[ms \cup {m}] = TotalTokens[ms] + Tokens[m]
<1> DEFINE x == ms \cup {m}
           r == x \ {m}
<1>1. x \in SUBSET Memories /\ m \in x /\ r = ms
    OBVIOUS
<1> HIDE DEF x
<1>2. TotalTokens[x] = Tokens[m] + TotalTokens[r]
    BY <1>1, SumSplit
<1> HIDE DEF r
<1>3. Tokens[m] \in Nat /\ TotalTokens[ms] \in Nat
    BY SumType DEF TokensOK
<1>4. TotalTokens[x] = TotalTokens[ms] + Tokens[m]
    BY <1>1, <1>2, <1>3
<1> QED BY <1>4 DEF x

-----------------------------------------------------------------------------
(* _select_refs.  Its loop as a function of the place reached.             *)
PickStep(q, order, cands, p, n) ==
    IF \/ n \notin cands
       \/ Cardinality(p.served) >= q.topK
       \/ \E x \in p.served : Ref[x] = Ref[order[n]]
       \/ p.total + Tokens[order[n]] > q.maxTokens
    THEN p
    ELSE [served |-> p.served \cup {order[n]}, total |-> p.total + Tokens[order[n]]]
PickAt(q, order, cands, f, n) ==
    IF n = 0 THEN [served |-> {}, total |-> 0] ELSE PickStep(q, order, cands, f[n - 1], n)

LEMMA PickExists ==
    ASSUME NEW q, NEW order, NEW cands, NEW len \in Nat
    PROVE  \E f : f = [n \in 0..len |-> PickAt(q, order, cands, f, n)]
<1> DEFINE At(f, n) == PickAt(q, order, cands, f, n)
           S == {k \in Nat : \E f : f = [n \in 0..k |-> At(f, n)]}
<1>1. 0 \in S
  <2> DEFINE f == [n \in 0..0 |-> [served |-> {}, total |-> 0]]
  <2>1. f = [n \in 0..0 |-> At(f, n)]
      BY DEF PickAt
  <2> HIDE DEF f
  <2> QED BY <2>1
<1>2. ASSUME NEW k \in Nat, k \in S PROVE k + 1 \in S
  <2>1. PICK f : f = [n \in 0..k |-> At(f, n)]
      BY <1>2
  <2> DEFINE g == [n \in 0..(k + 1) |-> At(f, n)]
  <2>2. ASSUME NEW n \in 0..(k + 1) PROVE At(f, n) = At(g, n)
    <3>1. CASE n = 0
        BY <3>1 DEF PickAt
    <3>2. CASE n # 0
      <4>1. n - 1 \in 0..k /\ n - 1 \in 0..(k + 1)
          BY <3>2
      <4>2. f[n - 1] = At(f, n - 1)
          BY <2>1, <4>1
      <4>3. g[n - 1] = At(f, n - 1)
          BY <4>1
      <4> HIDE DEF g
      <4>4. f[n - 1] = g[n - 1]
          BY <4>2, <4>3
      <4> QED BY <3>2, <4>4 DEF PickAt
    <3> QED BY <3>1, <3>2
  <2>3. g = [n \in 0..(k + 1) |-> At(g, n)]
      BY <2>2
  <2> HIDE DEF g
  <2> QED BY <2>3
<1> HIDE DEF S
<1>3. Nat \subseteq S
    BY <1>1, <1>2, NatInd
<1> QED BY <1>3 DEF S

LEMMA SelectRefsDef ==
    ASSUME NEW q, NEW order, NEW cands, Len(order) \in Nat
    PROVE  \E f : /\ f = [n \in 0..Len(order) |-> PickAt(q, order, cands, f, n)]
                  /\ SelectRefs(q, order, cands) = f[Len(order)].served
<1> DEFINE f == CHOOSE f : f = [n \in 0..Len(order) |-> PickAt(q, order, cands, f, n)]
<1>1. f = [n \in 0..Len(order) |-> PickAt(q, order, cands, f, n)]
    BY PickExists
<1>2. SelectRefs(q, order, cands) = f[Len(order)].served
    BY DEF SelectRefs, PickAt, PickStep
<1> HIDE DEF f
<1> QED BY <1>1, <1>2

(* What has been served when n places have been looked at.                 *)
PickOK(q, order, cands, p, n) ==
    /\ p.served \in SUBSET Memories
    /\ \A m \in p.served : \E k \in cands : order[k] = m
    /\ Cardinality(p.served) <= q.topK
    /\ p.total = TotalTokens[p.served] /\ p.total <= q.maxTokens
    /\ \A x, y \in p.served : x # y => Ref[x] # Ref[y]
    /\ p.served = {} => \A k \in cands : k <= n => Tokens[order[k]] > q.maxTokens

LEMMA PickStart ==
    ASSUME TokensOK, NEW q, NEW order \in Seq(Memories), NEW cands \in SUBSET DOMAIN order,
           q.topK \in Nat, q.maxTokens \in Nat
    PROVE  PickOK(q, order, cands, [served |-> {}, total |-> 0], 0)
<1> DEFINE p == [served |-> {}, total |-> 0]
<1>1. p.served = {} /\ p.total = 0
    OBVIOUS
<1> HIDE DEF p
<1>2. {} \in SUBSET Memories
    OBVIOUS
<1>3. TotalTokens[{}] = 0
    BY <1>2, SumUnfold
<1>4. Cardinality({}) = 0
    BY FS_EmptySet
<1>5. \A k \in cands : ~(k <= 0)
    OBVIOUS
<1> QED BY <1>1, <1>2, <1>3, <1>4, <1>5 DEF PickOK, p

LEMMA PickKeeps ==
    ASSUME TokensOK, NEW q, NEW order \in Seq(Memories), NEW cands \in SUBSET DOMAIN order,
           q.topK \in Nat \ {0}, q.maxTokens \in Nat,
           NEW n \in Nat, n + 1 \in DOMAIN order, NEW p, PickOK(q, order, cands, p, n)
    PROVE  PickOK(q, order, cands, PickStep(q, order, cands, p, n + 1), n + 1)
<1> DEFINE m == order[n + 1]
           s == p.served
           skip == \/ n + 1 \notin cands
                   \/ Cardinality(s) >= q.topK
                   \/ \E x \in s : Ref[x] = Ref[m]
                   \/ p.total + Tokens[m] > q.maxTokens
<1>1. /\ m \in Memories /\ Tokens[m] \in Nat /\ s \in SUBSET Memories /\ TotalTokens[s] \in Nat
      /\ IsFiniteSet(s) /\ Cardinality(s) \in Nat
    BY SumType, SubsetFacts DEF PickOK, TokensOK
<1>2. CASE skip
  <2>1. PickStep(q, order, cands, p, n + 1) = p
      BY <1>2 DEF PickStep
  <2>2. ASSUME s = {}, NEW k \in cands, k <= n + 1 PROVE Tokens[order[k]] > q.maxTokens
    <3>1. CASE k <= n
        BY <2>2, <3>1 DEF PickOK
    <3>2. CASE k = n + 1
      <4>1. TotalTokens[s] = 0 /\ Cardinality(s) = 0
          BY <1>1, <2>2, SumUnfold, FS_EmptySet
      <4>2. p.total = 0
          BY <4>1 DEF PickOK
      <4>3. p.total + Tokens[m] > q.maxTokens
          BY <1>2, <2>2, <3>2, <4>1
      <4> QED BY <1>1, <3>2, <4>2, <4>3
    <3>3. k \in Nat
        OBVIOUS
    <3> QED BY <2>2, <3>1, <3>2, <3>3
  <2> HIDE DEF m, skip
  <2> QED BY <2>1, <2>2 DEF PickOK
<1>3. CASE ~skip
  <2> DEFINE t == s \cup {m}
             w == [served |-> t, total |-> p.total + Tokens[m]]
  <2>1. PickStep(q, order, cands, p, n + 1) = w
      BY <1>3 DEF PickStep
  <2>2. w.served = t /\ w.total = p.total + Tokens[m]
      OBVIOUS
  <2>3. n + 1 \in cands /\ Cardinality(s) < q.topK /\ (\A x \in s : Ref[x] # Ref[m])
        /\ p.total + Tokens[m] <= q.maxTokens /\ p.total = TotalTokens[s]
      BY <1>1, <1>3 DEF PickOK
  <2> HIDE DEF w
  <2>4. m \notin s
      BY <2>3
  <2>5. t \in SUBSET Memories /\ Cardinality(t) <= q.topK /\ t # {}
    <3>1. Cardinality(t) = Cardinality(s) + 1
        BY <1>1, <2>4, FS_AddElement
    <3>2. t \in SUBSET Memories /\ t # {}
        BY <1>1
    <3> HIDE DEF t
    <3> QED BY <1>1, <2>3, <3>1, <3>2
  <2>6. TotalTokens[t] = w.total /\ w.total <= q.maxTokens
    <3>1. m \in Memories \ s
        BY <1>1, <2>4
    <3> HIDE DEF m, s
    <3>2. TotalTokens[t] = TotalTokens[s] + Tokens[m]
        BY <1>1, <3>1, SumAdd
    <3> QED BY <2>2, <2>3, <3>2
  <2>7. \A x, y \in t : x # y => Ref[x] # Ref[y]
      BY <2>3 DEF PickOK
  <2>8. \A x \in t : \E k \in cands : order[k] = x
      BY <2>3 DEF PickOK
  <2> HIDE DEF t
  <2> QED BY <2>1, <2>2, <2>5, <2>6, <2>7, <2>8 DEF PickOK
<1> QED BY <1>2, <1>3

LEMMA SelectRefsFacts ==
    ASSUME TokensOK, NEW q, NEW order \in Seq(Memories), NEW cands \in SUBSET DOMAIN order,
           q.topK \in Nat \ {0}, q.maxTokens \in Nat
    PROVE  \E p : /\ SelectRefs(q, order, cands) = p.served
                  /\ PickOK(q, order, cands, p, Len(order))
<1>1. Len(order) \in Nat /\ DOMAIN order = 1..Len(order)
    OBVIOUS
<1>2. PICK f : /\ f = [n \in 0..Len(order) |-> PickAt(q, order, cands, f, n)]
               /\ SelectRefs(q, order, cands) = f[Len(order)].served
    BY <1>1, SelectRefsDef
<1> DEFINE S == {k \in Nat : k <= Len(order) => PickOK(q, order, cands, f[k], k)}
<1>3. 0 \in S
  <2>1. f[0] = PickAt(q, order, cands, f, 0)
      BY <1>1, <1>2
  <2>2. f[0] = [served |-> {}, total |-> 0]
      BY <2>1 DEF PickAt
  <2>3. PickOK(q, order, cands, f[0], 0)
      BY <2>2, PickStart
  <2> QED BY <2>3
<1>4. ASSUME NEW k \in Nat, k \in S PROVE k + 1 \in S
  <2>1. ASSUME k + 1 <= Len(order) PROVE PickOK(q, order, cands, f[k + 1], k + 1)
    <3>1. k + 1 \in 0..Len(order) /\ k + 1 \in DOMAIN order /\ k <= Len(order) /\ k + 1 # 0
          /\ (k + 1) - 1 = k
        BY <1>1, <2>1
    <3>2. f[k + 1] = PickAt(q, order, cands, f, k + 1)
        BY <1>2, <3>1
    <3>3. f[k + 1] = PickStep(q, order, cands, f[k], k + 1)
        BY <3>1, <3>2 DEF PickAt
    <3>4. PickOK(q, order, cands, f[k], k)
        BY <1>4, <3>1
    <3> QED BY <3>1, <3>3, <3>4, PickKeeps
  <2> QED BY <2>1
<1> HIDE DEF S
<1>5. Nat \subseteq S
    BY <1>3, <1>4, NatInd
<1>6. PickOK(q, order, cands, f[Len(order)], Len(order))
    BY <1>1, <1>5 DEF S
<1> QED BY <1>2, <1>6

-----------------------------------------------------------------------------
(* The WHERE clause says what the policy says.                             *)
LEMMA MatchesIffServable ==
    ASSUME MemoryInv, NEW m \in Memories, NEW q PROVE Matches(m, q) <=> Servable(m, q)
<1> DEFINE d == item[m].last
           c == ScopeOf(m)
<1>1. ~Lapsed(item[m], now) <=> item[m].expires = None \/ item[m].expires > now
  <2>1. item[m].expires \in Times /\ now \in Nat
      BY DEF MemoryInv, TypeOK, Rows
  <2>2. item[m].expires = None \/ item[m].expires \in Nat
      BY <2>1 DEF Times
  <2> QED BY <2>1, <2>2 DEF Lapsed
<1>2. c \in ScopesAllowed(q) <=> /\ c \in q.scopes
                                /\ (c = "RunMemory" => q.thread # None)
                                /\ (LongTerm(c) => \E f \in Fields : q.bounds[f] # None)
    BY DEF ScopesAllowed, LongTerm
<1>3. WithinBoundary(m, q) <=> /\ \A f \in Fields : d.bounds[f] \in {None, q.bounds[f]}
                               /\ (c = "RunMemory" /\ q.thread # None => d.thread = q.thread)
                               /\ d.thread \in {None, q.thread}
    BY DEF WithinBoundary, LongTerm
<1> HIDE DEF d, c
<1> QED BY <1>1, <1>2, <1>3 DEF Matches, Servable, LongTerm, d, c

(* With no more hits than the LIMIT none is cut off, for no row is listed  *)
(* twice.                                                                  *)
LEMMA AllAreCandidates ==
    ASSUME MemoryInv, NEW q \in Requests, NEW order \in Orders, NEW m \in Memories, Servable(m, q),
           Cardinality({x \in Memories : Servable(x, q)}) <= 3 * q.topK
    PROVE  \E k \in Candidates(q, order) : order[k] = m
<1> DEFINE may == {x \in Memories : Servable(x, q)}
           hits == {k \in DOMAIN order : Matches(order[k], q)}
<1>1. PICK k \in DOMAIN order : order[k] = m
    BY RetrievalAssumption
<1>2. \A j \in DOMAIN order : order[j] \in Memories
    BY RetrievalAssumption
<1>3. \A i, j \in DOMAIN order : order[i] = order[j] => i = j
    BY RetrievalAssumption
<1> DEFINE low == {j \in hits : j <= k}
           f == [j \in low |-> order[j]]
<1>4. f \in Injection(low, may)
  <2>1. \A j \in low : order[j] \in may
      BY <1>2, MatchesIffServable
  <2>2. f \in [low -> may]
      BY <2>1
  <2>3. \A i, j \in low : f[i] = f[j] => i = j
      BY <1>3
  <2> HIDE DEF f, may, low
  <2> QED BY <2>2, <2>3 DEF Injection, IsInjective
<1>5. IsFiniteSet(may)
    BY FS_Subset, RetrievalAssumption
<1>6. Cardinality(low) <= Cardinality(may) /\ IsFiniteSet(low)
    BY <1>4, <1>5, FS_Injection
<1>7. Cardinality(low) \in Nat /\ Cardinality(may) \in Nat /\ q.topK \in Nat
    BY <1>5, <1>6, FS_CardinalityType, RetrievalAssumption
<1>8. Cardinality(low) <= 3 * q.topK
  <2> HIDE DEF low
  <2> QED BY <1>6, <1>7
<1>9. k \in hits
    BY <1>1, MatchesIffServable
<1> QED BY <1>1, <1>8, <1>9 DEF Candidates

LEMMA RetrieveWell ==
    ASSUME MemoryInv, NEW q \in Requests, NEW order \in Orders
    PROVE  ServedWell(q, Retrieve(q, order))
<1> DEFINE may == {m \in Memories : Servable(m, q)}
           ms == Retrieve(q, order)
           cands == Candidates(q, order)
<1>1. q.topK \in Nat /\ q.maxTokens \in Nat /\ order \in Seq(Memories)
    BY RetrievalAssumption
<1>2. CASE ScopesAllowed(q) = {} \/ q.topK = 0 \/ q.maxTokens = 0
  <2>1. ms = {}
      BY <1>2 DEF Retrieve
  <2>2. {} \in SUBSET Memories /\ TotalTokens[{}] = 0 /\ Cardinality({}) = 0
      BY SumUnfold, FS_EmptySet
  <2>3. ScopesAllowed(q) = {} => \A m \in Memories : ~Servable(m, q)
      BY MatchesIffServable DEF Matches
  <2> HIDE DEF ms
  <2>4. ServedWell(q, ms)
      BY <1>1, <1>2, <2>1, <2>2, <2>3 DEF ServedWell
  <2> QED BY <2>4 DEF ms
<1>3. CASE ~(ScopesAllowed(q) = {} \/ q.topK = 0 \/ q.maxTokens = 0)
  <2>1. ms = SelectRefs(q, order, cands) /\ q.topK \in Nat \ {0}
      BY <1>1, <1>3 DEF Retrieve
  <2>2. cands \in SUBSET DOMAIN order /\ \A k \in cands : Matches(order[k], q)
      BY DEF Candidates
  <2> HIDE DEF cands, ms
  <2>3. PICK p : SelectRefs(q, order, cands) = p.served /\ PickOK(q, order, cands, p, Len(order))
      BY <1>1, <2>1, <2>2, SelectRefsFacts, TokensType
  <2>4. /\ ms \in SUBSET Memories /\ \A m \in ms : \E k \in cands : order[k] = m
        /\ Cardinality(ms) <= q.topK /\ TotalTokens[ms] <= q.maxTokens
        /\ \A x, y \in ms : x # y => Ref[x] # Ref[y]
        /\ ms = {} => \A k \in cands : k <= Len(order) => Tokens[order[k]] > q.maxTokens
      BY <2>1, <2>3 DEF PickOK
  <2>5. \A m \in ms : Servable(m, q)
      BY <2>2, <2>4, MatchesIffServable
  <2>6. ASSUME ms = {}, Cardinality(may) <= 3 * q.topK, NEW m \in may
        PROVE  Tokens[m] > q.maxTokens
    <3>1. PICK k \in cands : order[k] = m
        BY <2>6, AllAreCandidates DEF cands
    <3>2. k <= Len(order)
        BY <1>1, <2>2
    <3> QED BY <2>4, <2>6, <3>1, <3>2
  <2>7. ServedWell(q, ms)
      BY <2>4, <2>5, <2>6 DEF ServedWell
  <2> QED BY <2>7 DEF ms
<1> QED BY <1>2, <1>3

(* Whatever the stored rows, an agent gets from retrieve only memories     *)
(* that its scopes, boundaries, name, PII level and confidence allow,      *)
(* active and not lapsed, no content twice, within its item and token      *)
(* budget; and it gets something unless the query's limit or the token     *)
(* budget stands in the way of every one of sufficient confidence.         *)
THEOREM MemoryServedAsAllowed == Spec => []ServedAsAllowed
<1>1. MemoryInv => ServedAsAllowed
    BY RetrieveWell DEF ServedAsAllowed
<1> QED BY <1>1, MemoryInvariant, PTL

=============================================================================
