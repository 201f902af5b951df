--------------------------- MODULE TaskAuthorization ---------------------------
(***************************************************************************)
(* POST /tasks/authorize (app/runtime/task_authorization.py): concurrent   *)
(* requests that each create or reuse a graph thread and queue one         *)
(* graph_dispatch row.  A request names its source_ref, from which its     *)
(* idempotency key and, unless it names another, its thread follow.  Its   *)
(* payload holds the time of the call, so no two requests have the same.   *)
(* Requests with approved=false write nothing and are left out.            *)
(***************************************************************************)
EXTENDS TLAPS

CONSTANTS Requests,    \* the calls
          Refs,        \* source and source_ref; also the threads derived from them
          Explicit,    \* thread ids that only a request's thread_id names
          NoRef, NoRequest

Threads == Refs \cup Explicit

ASSUME AuthorizationAssumption ==
    Refs \cap Explicit = {} /\ NoRef \notin Refs /\ NoRequest \notin Requests

VARIABLES
    owner,       \* GraphThread: the source_ref that the thread belongs to
    request,     \* each call: progress, source_ref, thread
    dispatch     \* the call whose payload the graph_dispatch row of a source_ref has

vars == <<owner, request, dispatch>>

TypeOK ==
    /\ owner \in [Threads -> Refs \cup {NoRef}]
    /\ request \in [Requests -> [step : {"new", "checked", "queued", "conflict"},
                                 ref : Refs, thread : Threads]]
    /\ dispatch \in [Refs -> Requests \cup {NoRequest}]

(* The requests that are going to be made: each is for its own thread or   *)
(* for one it names.                                                       *)
Init ==
    /\ owner = [t \in Threads |-> NoRef]
    /\ request \in [Requests -> [step : {"new"}, ref : Refs, thread : Threads]]
    /\ dispatch = [s \in Refs |-> NoRequest]

-----------------------------------------------------------------------------
(* _ensure_thread_can_be_used: the thread is read, not locked.             *)
CheckThread(r) ==
    /\ request[r].step = "new"
    /\ request' = [request EXCEPT ![r].step =
          IF owner[request[r].thread] \in {NoRef, request[r].ref} THEN "checked" ELSE "conflict"]
    /\ UNCHANGED <<owner, dispatch>>

(* Variant: the thread is stored under its own id.                         *)
AuthorizeMisfiled(r) ==
    /\ request[r].step = "checked"
    /\ dispatch[request[r].ref] = NoRequest
    /\ dispatch' = [dispatch EXCEPT ![request[r].ref] = r]
    /\ owner' = [owner EXCEPT ![request[r].thread] = IF @ = NoRef THEN request[r].thread ELSE @]
    /\ request' = [request EXCEPT ![r].step = "queued"]

(* authorize, the writes of the first request with its key: the thread is  *)
(* inserted unless its id exists (on_conflict_do_nothing), the row with it.*)
Authorize(r) ==
    /\ request[r].step = "checked"
    /\ dispatch[request[r].ref] = NoRequest
    /\ dispatch' = [dispatch EXCEPT ![request[r].ref] = r]
    /\ owner' = [owner EXCEPT ![request[r].thread] = IF @ = NoRef THEN request[r].ref ELSE @]
    /\ request' = [request EXCEPT ![r].step = "queued"]

(* Variant: the thread is committed before the row.                        *)
RefuseKeepsThread(r) ==
    /\ request[r].step = "checked"
    /\ dispatch[request[r].ref] # NoRequest
    /\ owner' = [owner EXCEPT ![request[r].thread] = IF @ = NoRef THEN request[r].ref ELSE @]
    /\ request' = [request EXCEPT ![r].step = "conflict"]
    /\ UNCHANGED dispatch

(* enqueue_json finds the key with another payload: the transaction, the   *)
(* thread included, is rolled back and the call answered with 409.         *)
RefuseAuthorization(r) ==
    /\ request[r].step = "checked"
    /\ dispatch[request[r].ref] # NoRequest
    /\ request' = [request EXCEPT ![r].step = "conflict"]
    /\ UNCHANGED <<owner, dispatch>>

Next == \E r \in Requests : CheckThread(r) \/ Authorize(r) \/ RefuseAuthorization(r)

Spec == Init /\ [][Next]_vars

-----------------------------------------------------------------------------
(* No orphans: a thread made by this API has the dispatch row it was made  *)
(* for, although calls with one source_ref may name different threads.     *)
NoOrphanThread ==
    \A t \in Threads : owner[t] # NoRef =>
        /\ dispatch[owner[t]] # NoRequest
        /\ request[dispatch[owner[t]]].thread = t

-----------------------------------------------------------------------------
(* The tables and calls of the API keep their types, for any requests.     *)
THEOREM AuthorizationTypeOK == Spec => []TypeOK
<1>1. Init => TypeOK
    BY AuthorizationAssumption DEF Init, TypeOK, Threads
<1>2. TypeOK /\ [Next]_vars => TypeOK'
    BY DEF TypeOK, Next, CheckThread, Authorize, RefuseAuthorization, vars
<1> QED BY <1>1, <1>2, PTL DEF Spec

(* However calls interleave, a thread is never left without the dispatch   *)
(* row that it was made for.  Only Authorize makes either; it makes both,  *)
(* and a source_ref that has its row can make no other thread.             *)
THEOREM AuthorizationNoOrphanThread == Spec => []NoOrphanThread
<1>1. Init => NoOrphanThread
    BY DEF Init, NoOrphanThread
<1>2. TypeOK /\ NoOrphanThread /\ [Next]_vars => NoOrphanThread'
  <2> SUFFICES ASSUME TypeOK, NoOrphanThread, [Next]_vars
               PROVE  NoOrphanThread'
      OBVIOUS
  <2>1. ASSUME NEW r \in Requests, CheckThread(r) PROVE NoOrphanThread'
      BY <2>1, AuthorizationAssumption DEF TypeOK, NoOrphanThread, CheckThread
  <2>2. ASSUME NEW r \in Requests, Authorize(r) PROVE NoOrphanThread'
    <3> SUFFICES ASSUME NEW t \in Threads, owner'[t] # NoRef
                 PROVE  dispatch'[owner'[t]] # NoRequest
                        /\ request'[dispatch'[owner'[t]]].thread = t
        BY DEF NoOrphanThread
    <3>1. request[r].ref \in Refs /\ request[r].thread \in Threads
        BY DEF TypeOK
    <3>2. CASE owner[t] # NoRef
        BY <2>2, <3>1, <3>2, AuthorizationAssumption DEF TypeOK, NoOrphanThread, Authorize
    <3>3. CASE owner[t] = NoRef
        BY <2>2, <3>1, <3>3, AuthorizationAssumption DEF TypeOK, Authorize
    <3> QED BY <3>2, <3>3
  <2>3. ASSUME NEW r \in Requests, RefuseAuthorization(r) PROVE NoOrphanThread'
      BY <2>3, AuthorizationAssumption DEF TypeOK, NoOrphanThread, RefuseAuthorization
  <2>4. CASE UNCHANGED vars
      BY <2>4 DEF NoOrphanThread, vars
  <2> QED BY <2>1, <2>2, <2>3, <2>4 DEF Next
<1> QED BY <1>1, <1>2, AuthorizationTypeOK, PTL DEF Spec

=============================================================================
