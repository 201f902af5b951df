-------------------------- MODULE MCMemoryLifecycle --------------------------
(* Three memories: two versions of one content and a note.                 *)
EXTENDS MemoryLifecycle, TLC

CONSTANTS run1, lesson, note

MCMemories == {run1, lesson, note}
MCRef      == run1 :> "c" @@ lesson :> "c" @@ note :> "n"
MCFields   == {"user_id", "project_id"}

Bounds(user, project) == "user_id" :> user @@ "project_id" :> project
Nowhere == Bounds(None, None)

Draft(key, id, scope, owner, thread, bounds, pii, tokens, policy, ends, sure) ==
    [key |-> key, id |-> id, scope |-> scope, owner |-> owner, thread |-> thread,
     bounds |-> bounds, pii |-> pii, tokens |-> tokens, policy |-> policy,
     ends |-> ends, sure |-> sure]

(* What an agent leaves of its run, and a user's permanent case of low     *)
(* confidence under the same key and id; a project's lesson for all agents *)
(* and its second wording; an agent's note on a thread, with an end and    *)
(* the lesson's id.                                                        *)
RunSummary == Draft(run1, "i1", "RunMemory", "a", "t", Nowhere, "low", 1, "none", None, TRUE)
Case       == Draft(run1, "i1", "CaseMemory", "a", None, Bounds("u", None), "none", 1,
                    "permanent", None, FALSE)
Lesson     == Draft(lesson, "i2", "AgentMemory", None, None, Bounds(None, "p"), "none", 2,
                    "30d", None, TRUE)
Relearnt   == [Lesson EXCEPT !.policy = "permanent", !.tokens = 1]
Note       == Draft(note, "i2", "AgentMemory", "a", "t", Nowhere, "medium", 2, "90d", 1, TRUE)

MCDrafts == {RunSummary, Case, Lesson, Relearnt, Note}

Query(agent, thread, bounds, pii, sure, topK, maxTokens) ==
    [agent |-> agent, thread |-> thread, bounds |-> bounds, pii |-> pii, sure |-> sure,
     scopes |-> {"RunMemory", "AgentMemory", "CaseMemory"},
     topK |-> topK, maxTokens |-> maxTokens]

(* With all boundaries and a confidence, for a user, without a thread, and *)
(* as the harness makes them, with a thread only.                          *)
HarnessRequest == Query("a", "t", Nowhere, "high", FALSE, 2, 3)
MCRequests == {Query("a", "t", Bounds("u", "p"), "medium", TRUE, 2, 3),
               Query("b", "t", Bounds("u", None), "high", FALSE, 1, 2),
               Query("a", None, Bounds("u", "p"), "none", FALSE, 1, 2),
               HarnessRequest}
MCOrders == {<<run1, lesson, note>>, <<note, run1, lesson>>}
Symmetry == Permutations(Sessions)

=============================================================================
