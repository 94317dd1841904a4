----------------------------- MODULE MCU1Staging -----------------------------
EXTENDS U1Staging

CONSTANTS opt, tiger, uid

MCSmart == {opt, tiger}
MCGeneric == {uid}
MCOpt == {opt}
MCGappy == {opt}
MCLanes == {0, 1}
=============================================================================
