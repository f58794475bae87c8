------------------------ MODULE MCNotificationOutbox -------------------------
EXTENDS NotificationOutbox, TLC

CONSTANTS r1, r2, r3, tick, dashboard, w1, w2

MCRecords == {r1, r2, r3}
MCSpoolers == {tick, dashboard}
MCWorkers == {w1, w2}
=============================================================================
