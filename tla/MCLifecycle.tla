------------------------------ MODULE MCLifecycle ------------------------------
EXTENDS Lifecycle

MCDurations == {1, 2}
MCWindows   == {1, 2, 3, 5}
===============================================================================
