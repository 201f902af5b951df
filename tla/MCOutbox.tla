------------------------------- MODULE MCOutbox -------------------------------
(* Small instances of Outbox for TLC.                                      *)
EXTENDS Outbox, TLC

CONSTANTS card, resume, dispatch, w1, w2

(* One row of each rank; the mixes the runs use.                           *)
KindOf(items) ==
    [i \in items |-> CASE i = card -> "card_send"
                       [] i = resume -> "resume"
                       [] i = dispatch -> "graph_dispatch"]

AllThree      == {card, resume, dispatch}
CardDispatch  == {card, dispatch}
OnlyResume    == {resume}
KindAllThree  == KindOf(AllThree)
KindCardDispatch == KindOf(CardDispatch)
KindOnlyResume == KindOf(OnlyResume)

TwoWorkers == {w1, w2}
WorkerSymmetry == Permutations(Workers)
=============================================================================
