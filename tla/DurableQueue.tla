----------------------------- MODULE DurableQueue -----------------------------
(***************************************************************************)
(* What the Feishu outbox promises to the handlers that run on it, with    *)
(* clocks, leases, row locks and attempt counters abstracted away: a row   *)
(* is open until some run of its handler settles it, any open row may be   *)
(* started by an idle worker, several runs of one row may be under way at  *)
(* once, and a run that ends settles the row whatever its status is by     *)
(* then.  Module Outbox implements this specification; module ApprovalFlow *)
(* builds the approval workflow on top of it.                              *)
(***************************************************************************)

CONSTANTS Items,      \* the rows of feishu_outbox, one per idempotency key
          Workers,    \* the outbox worker processes
          NoItem      \* "this worker runs nothing", not a row

VARIABLES row,        \* row[i]: absent, open, succeeded or dead_letter
          run         \* run[w]: the row whose handler worker w is executing

queueVars == <<row, run>>

RowStates == {"absent", "open", "succeeded", "dead_letter"}

QueueTypeOK ==
    /\ row \in [Items -> RowStates]
    /\ run \in [Workers -> Items \cup {NoItem}]

Init ==
    /\ row = [i \in Items |-> "absent"]
    /\ run = [w \in Workers |-> NoItem]

-----------------------------------------------------------------------------
(* A row is inserted once; a second insert with its key finds it there.    *)
Enqueue(i) ==
    /\ row[i] = "absent"
    /\ row' = [row EXCEPT ![i] = "open"]
    /\ run' = run

(* A worker begins a run of an open row, whoever else is running it.       *)
Start(w, i) ==
    /\ run[w] = NoItem
    /\ row[i] = "open"
    /\ run' = [run EXCEPT ![w] = i]
    /\ row' = row

(* A run ends and settles its row: succeeded, back to open for a retry, or *)
(* dead_letter.  The rows its handler enqueued appear with its success,    *)
(* and only then.                                                          *)
Settle(w, outcome, new) ==
    /\ run[w] # NoItem
    /\ \A i \in new : row[i] = "absent"
    /\ outcome # "succeeded" => new = {}
    /\ row' = [i \in Items |-> IF i = run[w] THEN outcome
                               ELSE IF i \in new THEN "open" ELSE row[i]]
    /\ run' = [run EXCEPT ![w] = NoItem]

(* The worker dies: its run is over and the row is as it was.              *)
Abandon(w) ==
    /\ run[w] # NoItem
    /\ run' = [run EXCEPT ![w] = NoItem]
    /\ row' = row

Next ==
    \/ \E i \in Items : Enqueue(i)
    \/ \E w \in Workers, i \in Items : Start(w, i)
    \/ \E w \in Workers, outcome \in RowStates \ {"absent"}, new \in SUBSET Items :
          Settle(w, outcome, new)
    \/ \E w \in Workers : Abandon(w)

Spec == Init /\ [][Next]_queueVars

=============================================================================
