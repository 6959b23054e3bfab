------------------------- MODULE MCNotificationFanout -------------------------
EXTENDS NotificationFanout, TLC

CONSTANTS bell, mail, w1, w2

WorkerSymmetry == Permutations(Workers)
===============================================================================
