\* A save, two deletes and a reconcile toggle of a transaction, and two undos of
\* its creation, the save or a delete.
CONSTANTS
    c = c
    r1 = r1
    r2 = r2
    r3 = r3
    r4 = r4
    r5 = r5
    r6 = r6
    Reqs = {c, r1, r2, r3, r4, r5, r6}
    Op <- OpM
    NoReq = NoReq
    Bodies = {1, 2}
    Body0 = 1
SPECIFICATION Spec
SYMMETRY Same
\* All requests are answered in the end.
CHECK_DEADLOCK FALSE
INVARIANT UndoneOnce
PROPERTY NoLostUpdate
PROPERTY RevertSparesLaterEdits
