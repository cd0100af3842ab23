----------------------------- MODULE MCAckWatcher -----------------------------
EXTENDS AckWatcher
CONSTANTS a1, a2
MCAlarms == {a1, a2}
===============================================================================
