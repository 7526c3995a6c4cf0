SPECIFICATION Spec
CONSTANTS
    Worker = {w1, w2}
    Idle = Idle
    Part = {"context", "monitoring", "decisions", "reading"}
SYMMETRY Symmetry
INVARIANTS ContextRowsSound RetryTakesNoLaterWindow EvidenceSound AcceptedIsAdmissible
CHECK_DEADLOCK FALSE
