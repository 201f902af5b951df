--------------------------- MODULE MemoryLifecycle ---------------------------
(***************************************************************************)
(* The memories of the agents: proposal, review, revocation                *)
(* (PostgresMemoryGateway, app/memory/gateway.py), retention               *)
(* (MemoryRetentionService, app/memory/retention.py) and what a retrieval  *)
(* hands to an agent (retrieve, _select_refs and build_memory_search_query *)
(* of app/memory/vector_store.py).                                         *)
(*                                                                         *)
(* A proposal is one upsert statement; on a content_ref and version that   *)
(* are stored already it replaces the content of the row and its status,   *)
(* not its id, scope and owner.  Reviewers and retention runs load rows    *)
(* into a session and write later; nothing locks the rows in between, and  *)
(* a flush writes the columns that the session changed, over whatever is   *)
(* there by then.                                                          *)
(*                                                                         *)
(* Left out: embeddings (the order of similarity is any order), the audit  *)
(* rows of retrieval, dry runs, the request's optional filters owner_agent *)
(* and metadata_contains, which only narrow it, and the gateway that is    *)
(* disabled for want of an embedding profile, which returns nothing and    *)
(* stores nothing.  A filter's value is never the empty string.            *)
(***************************************************************************)
EXTENDS Naturals, Sequences, FiniteSets

CONSTANTS
    Memories,       \* keys of memory_items, content_ref and version
    Ref,            \* Ref[m]: the content_ref of m
    Fields,         \* the boundaries: tenant, guild, user, project, requisition, candidate
    Drafts,         \* the items that may be proposed, see DraftAssumption
    Requests,       \* the retrievals agents make
    Orders,         \* the orders of similarity, sequences of all memories
    Sessions,       \* concurrent reviewer sessions and retention runs
    None,           \* NULL
    RunRetention, LongRetention,  \* 30 and 90 days
    MaxNow,         \* bound on the clock
    MaxProposals    \* bound on the proposals

PiiOrder == [none |-> 0, low |-> 1, medium |-> 2, high |-> 3]
Levels   == DOMAIN PiiOrder
Statuses == {"absent", "pending_review", "active", "revoked", "expired"}

(* A draft is a MemoryItem as upsert gets it: the memory's key, the        *)
(* memory_id given to it, its scope, owner (that of the item or else the   *)
(* agent that proposes; None for an upsert past the gateway), thread_id,   *)
(* bounds (the six fields), pii_level, tokens (the size of its summary),   *)
(* policy (metadata.retention_policy), ends (an expires_at of its own, or  *)
(* None) and sure (whether its confidence reaches the min_confidence of    *)
(* the requests that have one).                                            *)
ASSUME DraftAssumption ==
    \A d \in Drafts : /\ d.key \in Memories
                      /\ d.pii \in Levels
                      /\ d.tokens \in Nat
                      /\ d.ends \in Nat \cup {None}

ASSUME MemoryAssumption ==
    /\ RunRetention \in Nat /\ LongRetention \in Nat
    /\ MaxNow \in Nat /\ MaxProposals \in Nat
    /\ None \notin Nat

(* A query returns every row of a finite table at most once.               *)
ASSUME RetrievalAssumption ==
    /\ IsFiniteSet(Memories)
    /\ \A q \in Requests : q.topK \in Nat /\ q.maxTokens \in Nat
    /\ \A order \in Orders :
          /\ order \in Seq(Memories)
          /\ \A m \in Memories : \E k \in DOMAIN order : order[k] = m
          /\ \A j, k \in DOMAIN order : order[j] = order[k] => j = k

VARIABLES
    item,       \* item[m]: a row; first: the draft that made it, last: the one stored last
    filed,      \* the memories that a row of memory_update_proposals refers to
    proposals,  \* history: how many memories have been proposed
    reviewed,   \* history: the memories that a reviewer has approved as they are, since
                \* they were last proposed or taken out of service
    session,    \* session[s]: what a session is doing, the rows it loaded, and when
    now

vars == <<item, filed, proposals, reviewed, session, now>>

Times  == Nat \cup {None}
Rows   == [status : Statuses, first : Drafts \cup {None}, last : Drafts \cup {None},
           expires : Times, created : Times]
Absent == [status |-> "absent", first |-> None, last |-> None, expires |-> None, created |-> None]
Idle   == [op |-> "idle", of |-> {}, loaded |-> [m \in {} |-> Absent], at |-> 0]

Stored(m) == item[m].status # "absent"

(* The scope of a row is that of the draft that made it, whatever has      *)
(* replaced its content since; so are its id and its owner.                *)
LongTerm(scope) == scope # "RunMemory"
ScopeOf(m)      == item[m].first.scope

TypeOK ==
    /\ item \in [Memories -> Rows]
    /\ filed \subseteq Memories
    /\ proposals \in 0..MaxProposals
    /\ reviewed \subseteq Memories
    /\ \A s \in Sessions :
          /\ session[s].op \in {"idle", "approve", "revoke", "retention"}
          /\ session[s].of \subseteq Memories
          /\ session[s].loaded \in [session[s].of -> Rows]
          /\ session[s].at \in 0..MaxNow
    /\ now \in 0..MaxNow

Init ==
    /\ item = [m \in Memories |-> Absent]
    /\ filed = {}
    /\ proposals = 0
    /\ reviewed = {}
    /\ session = [s \in Sessions |-> Idle]
    /\ now = 0

-----------------------------------------------------------------------------
(* Retention.                                                              *)

(* _retention_window: the policy decides, then the scope.                  *)
Window(scope, policy) ==
    CASE policy = "30d" -> RunRetention
      [] policy = "90d" -> LongRetention
      [] OTHER          -> IF LongTerm(scope) THEN LongRetention ELSE RunRetention

(* default_memory_expires_at.                                              *)
DefaultExpiry(scope, policy, at) ==
    IF policy = "permanent" THEN None ELSE at + Window(scope, policy)

Lapsed(r, at) == r.expires # None /\ r.expires <= at

(* What a retention run makes of a row it has loaded: no end for a         *)
(* permanent memory, a default end for one without, and expiry at the time *)
(* when the run began.                                                     *)
Retained(r, at) ==
    LET expires == IF r.last.policy # "permanent" /\ r.expires # None THEN r.expires
                   ELSE DefaultExpiry(r.first.scope, r.last.policy, r.created)
        kept    == [r EXCEPT !.expires = expires]
    IN  IF Lapsed(kept, at) THEN [kept EXCEPT !.status = "expired"] ELSE kept

-----------------------------------------------------------------------------
(* The gateway's writes.                                                   *)

(* _expires_at_for_memory_item: an end of the item's own counts unless it  *)
(* is permanent; the default goes by the scope of the item.                *)
DraftExpiry(d) ==
    IF d.policy = "permanent" \/ d.ends = None THEN DefaultExpiry(d.scope, d.policy, now)
    ELSE d.ends

(* upsert: a new row, or the content of the row with this content_ref and  *)
(* version replaced, with the status for the scope of the item.            *)
Upserted(d) ==
    LET old == item[d.key] IN
    [status  |-> IF LongTerm(d.scope) THEN "pending_review" ELSE "active",
     first   |-> IF Stored(d.key) THEN old.first ELSE d,
     last    |-> d,
     expires |-> DraftExpiry(d),
     created |-> IF Stored(d.key) THEN old.created ELSE now]

(* The memories stored under the id of the draft once it has been upserted *)
Named(d) ==
    {m \in Memories : IF m = d.key THEN Upserted(d).first.id = d.id
                      ELSE Stored(m) /\ item[m].first.id = d.id}

(* propose_update: a memory of the run is active at once, a long-term one  *)
(* is left to a reviewer, who finds it by its proposal row.  A new memory  *)
(* needs an id of its own (primary key), a proposal row one that is stored *)
(* (foreign key); else all is rolled back.                                 *)
ProposeUpdate(d) ==
    /\ proposals < MaxProposals
    /\ Stored(d.key) \/ Named(d) = {d.key}
    /\ LongTerm(d.scope) => Named(d) # {}
    /\ proposals' = proposals + 1
    /\ item' = [item EXCEPT ![d.key] = Upserted(d)]
    /\ filed' = IF LongTerm(d.scope) THEN filed \cup Named(d) ELSE filed
    /\ reviewed' = reviewed \ {d.key}
    /\ UNCHANGED <<session, now>>

Load(s, op, ms) ==
    /\ session[s] = Idle
    /\ session' = [session EXCEPT ![s] =
          [op |-> op, of |-> ms, loaded |-> [m \in ms |-> item[m]], at |-> now]]
    /\ UNCHANGED <<item, filed, proposals, reviewed, now>>

(* approve_update loads any proposal row, whatever its type and status,    *)
(* and the memory it refers to, in any status and of any scope.            *)
LoadForApproval(s, m) == m \in filed /\ Load(s, "approve", {m})

LoadForRevocation(s, m) == Stored(m) /\ Load(s, "revoke", {m})

(* run: all rows whose status retention manages.                           *)
LoadForRetention(s) ==
    Load(s, "retention", {m \in Memories : item[m].status \in {"active", "pending_review"}})

(* Variant: the flush writes the whole row that the session wants.         *)
FlushedWhole(m, was, wanted) == wanted

(* The session's flush: the columns it changed, on top of the row of now.  *)
(* Sessions change no others than these two.                               *)
Flushed(m, was, wanted) ==
    [item[m] EXCEPT !.status  = IF wanted.status # was.status THEN wanted.status ELSE @,
                    !.expires = IF wanted.expires # was.expires THEN wanted.expires ELSE @]

(* Variant: an approved memory is kept without an end.                     *)
ApprovalEndless(r, at) == [r EXCEPT !.status = "active", !.expires = None]

Approval(r, at) ==
    [r EXCEPT !.status = "active", !.expires = DefaultExpiry(r.first.scope, r.last.policy, at)]
Revocation(r) == [r EXCEPT !.status = "revoked"]

Wanted(s, m) ==
    LET r == session[s].loaded[m] IN
    CASE session[s].op = "approve" -> Approval(r, session[s].at)
      [] session[s].op = "revoke"  -> Revocation(r)
      [] OTHER                     -> Retained(r, session[s].at)

(* Its effect on what counts as reviewed.  A session is overtaken when the *)
(* content it loaded has been replaced, or the memory has been taken out   *)
(* of service since.                                                       *)
Overtaken(s, m) ==
    LET r == session[s].loaded[m] IN
    \/ item[m].last # r.last
    \/ item[m].status \in {"revoked", "expired"} /\ item[m].status # r.status
Approves(s) ==
    {m \in session[s].of : session[s].op = "approve" /\ ~Overtaken(s, m)}
TakesOut(s) ==
    {m \in session[s].of : /\ Wanted(s, m).status # session[s].loaded[m].status
                           /\ Wanted(s, m).status # "active"}

(* The session flushes and commits: approve_update, revoke_update, which   *)
(* adds a proposal row of its own, or a retention run ends.                *)
CommitSession(s) ==
    /\ session[s] # Idle
    /\ item' = [m \in Memories |->
          IF m \in session[s].of THEN Flushed(m, session[s].loaded[m], Wanted(s, m)) ELSE item[m]]
    /\ filed' = IF session[s].op = "revoke" THEN filed \cup session[s].of ELSE filed
    /\ reviewed' = (reviewed \cup Approves(s)) \ TakesOut(s)
    /\ session' = [session EXCEPT ![s] = Idle]
    /\ UNCHANGED <<proposals, now>>

-----------------------------------------------------------------------------
(* Retrieval.                                                              *)

(* _scopes_allowed_by_filters: run memory needs the boundary of a thread,  *)
(* long-term memory any one of the six fields.                             *)
ScopesAllowed(q) ==
    {c \in q.scopes : IF LongTerm(c) THEN \E f \in Fields : q.bounds[f] # None
                      ELSE q.thread # None}

(* Variant: a field that the caller does not give is not compared.         *)
WithinBoundaryLoose(m, q) ==
    LET d == item[m].last IN
    /\ \A f \in Fields : q.bounds[f] # None => d.bounds[f] \in {None, q.bounds[f]}
    /\ q.thread # None => d.thread = q.thread \/ (LongTerm(ScopeOf(m)) /\ d.thread = None)

(* _apply_scope_boundary_filters: a field that the caller does not give    *)
(* must be NULL.                                                           *)
WithinBoundary(m, q) ==
    LET d == item[m].last IN
    /\ \A f \in Fields : d.bounds[f] = None \/ (q.bounds[f] # None /\ d.bounds[f] = q.bounds[f])
    /\ IF q.thread # None THEN d.thread = q.thread \/ (LongTerm(ScopeOf(m)) /\ d.thread = None)
                          ELSE d.thread = None

(* The WHERE clause of build_memory_search_query.  An agent's memory is    *)
(* for its owner, or for all when it has none; a low confidence matters    *)
(* only to a request that has a min_confidence.                            *)
Matches(m, q) ==
    /\ item[m].status = "active"
    /\ ~Lapsed(item[m], now)
    /\ ScopeOf(m) \in ScopesAllowed(q)
    /\ PiiOrder[item[m].last.pii] <= PiiOrder[q.pii]
    /\ ScopeOf(m) = "AgentMemory" => item[m].first.owner \in {None, q.agent}
    /\ q.sure => item[m].last.sure
    /\ WithinBoundary(m, q)

(* _estimate_tokens of the stored summaries.                               *)
Tokens == [m \in Memories |-> IF Stored(m) THEN item[m].last.tokens ELSE 0]

(* The query's ORDER BY and LIMIT, three times the items asked for: the    *)
(* places of the hits in the order.                                        *)
Candidates(q, order) ==
    LET hits == {k \in DOMAIN order : Matches(order[k], q)}
    IN  {k \in hits : Cardinality({j \in hits : j <= k}) <= 3 * q.topK}

(* _select_refs: in order of similarity, one per content_ref, while the    *)
(* token budget and the number of items allow.                             *)
SelectRefs(q, order, cands) ==
    LET pick[n \in 0..Len(order)] ==
          IF n = 0 THEN [served |-> {}, total |-> 0]
          ELSE LET p == pick[n - 1]
                   m == order[n]
               IN  IF \/ n \notin cands
                      \/ Cardinality(p.served) >= q.topK
                      \/ \E x \in p.served : Ref[x] = Ref[m]
                      \/ p.total + Tokens[m] > q.maxTokens
                   THEN p
                   ELSE [served |-> p.served \cup {m}, total |-> p.total + Tokens[m]]
    IN  pick[Len(order)].served

(* retrieve; a request without scope or budget gets nothing.  It writes    *)
(* nothing but its audit row.                                              *)
Retrieve(q, order) ==
    IF ScopesAllowed(q) = {} \/ q.topK = 0 \/ q.maxTokens = 0 THEN {}
    ELSE SelectRefs(q, order, Candidates(q, order))

-----------------------------------------------------------------------------
Tick ==
    /\ now < MaxNow
    /\ now' = now + 1
    /\ UNCHANGED <<item, filed, proposals, reviewed, session>>

Next ==
    \/ \E d \in Drafts : ProposeUpdate(d)
    \/ \E s \in Sessions :
          \/ \E m \in Memories : LoadForApproval(s, m) \/ LoadForRevocation(s, m)
          \/ LoadForRetention(s) \/ CommitSession(s)
    \/ Tick

Spec == Init /\ [][Next]_vars

-----------------------------------------------------------------------------
Unreviewed(m) ==
    item[m].status = "active" /\ LongTerm(ScopeOf(m)) /\ m \notin reviewed

(* No overlap of proposals, reviews, revocations and retention runs puts a *)
(* long-term memory into service, or back into it, without a review of     *)
(* what is stored, but for two: the item proposed is one of the run        *)
(* (propose_update, upsert), and an approval is overtaken, which           *)
(* approve_update does not notice.  A retention run or a revocation that   *)
(* flushes what it loaded earlier never does it.                           *)
UnreviewedOnlyIfOvertaken ==
    [][\A m \in Memories :
          ~Unreviewed(m) /\ Unreviewed(m)' =>
             \/ proposals' > proposals /\ ~LongTerm(item'[m].last.scope)
             \/ \E s \in Sessions : /\ session[s].op = "approve" /\ session'[s] = Idle
                                    /\ m \in session[s].of /\ Overtaken(s, m)]_vars

Endless(m) ==
    Stored(m) /\ item[m].last.policy # "permanent" /\ item[m].expires = None

(* A stored memory that is not permanent has an end.  It loses it only to  *)
(* a session that had loaded the row while it was permanent, and ends      *)
(* after the row was proposed anew (approve_update,                        *)
(* MemoryRetentionService.run): never to one that loaded it as it is.      *)
EndLostToStaleSession ==
    [][\A m \in Memories :
          ~Endless(m) /\ Endless(m)' =>
             \E s \in Sessions : /\ session[s] # Idle /\ session'[s] = Idle
                                 /\ m \in session[s].of
                                 /\ session[s].loaded[m].last.policy = "permanent"]_vars

(* What the policy lets an agent see.  A long-term memory is for those who *)
(* name a boundary, and every boundary it has itself; one of low           *)
(* confidence is not for a request that says so.                           *)
Servable(m, q) ==
    LET d == item[m].last IN
    /\ item[m].status = "active"
    /\ item[m].expires = None \/ item[m].expires > now
    /\ ScopeOf(m) \in q.scopes
    /\ PiiOrder[d.pii] <= PiiOrder[q.pii]
    /\ ScopeOf(m) = "RunMemory" => d.thread = q.thread /\ q.thread # None
    /\ ScopeOf(m) = "AgentMemory" => item[m].first.owner \in {None, q.agent}
    /\ LongTerm(ScopeOf(m)) => \E f \in Fields : q.bounds[f] # None
    /\ \A f \in Fields : d.bounds[f] \in {None, q.bounds[f]}
    /\ d.thread \in {None, q.thread}
    /\ q.sure => d.sure

TotalTokens[ms \in SUBSET Memories] ==
    IF ms = {} THEN 0
    ELSE LET m == CHOOSE x \in ms : TRUE IN Tokens[m] + TotalTokens[ms \ {m}]

ServedWell(q, ms) ==
    /\ \A m \in ms : Servable(m, q)
    /\ Cardinality(ms) <= q.topK /\ TotalTokens[ms] <= q.maxTokens
    /\ \A m, n \in ms : m # n => Ref[m] # Ref[n]
    /\ LET may == {m \in Memories : Servable(m, q)} IN
         ms = {} /\ q.topK > 0 /\ Cardinality(may) <= 3 * q.topK
            => \A m \in may : item[m].last.sure => Tokens[m] > q.maxTokens \/ q.maxTokens = 0

(* What retrieve hands to an agent: nothing pending, revoked, expired, of  *)
(* another thread or agent, outside a boundary, above its PII level, or of *)
(* a confidence below the one it asks for; within the item and token       *)
(* budget; no content twice; and something, when a memory of sufficient    *)
(* confidence may be served and fits, and the query's limit has not cut it *)
(* off.                                                                    *)
ServedAsAllowed ==
    \A q \in Requests, order \in Orders : ServedWell(q, Retrieve(q, order))

=============================================================================
