---------------------------- MODULE MCExecution ----------------------------
(* Values for model checking Execution.tla. *)
EXTENDS Execution

Shape(kind, segs, bad) == [kind |-> kind, segs |-> segs, bad |-> bad]
MCShapes == {Shape("reply", 0, FALSE), Shape("reply", 2, FALSE),
             Shape("silence", 0, FALSE), Shape("side", 0, FALSE),
             Shape("info", 0, FALSE), Shape("side", 0, TRUE)}
MCFreshIds == <<"f1", "f2", "f3">>

\* A first turn; an earlier turn with a call of a known id; a draft before it.
Start     == <<System, Tools, User({"m1"})>>
Later     == Start \o <<Assistant({}, {"a"}), Result({"a"}), User({"m2"})>>
WithADraft == Start \o <<Assistant({"draft"}, {}), User({"followup"})>>
MCHistories == {Start, Later, WithADraft}
=============================================================================
