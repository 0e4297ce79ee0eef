------------------------- MODULE MCEngineLifecycle -------------------------
\* Three engines: one is replaced while its teardown is under way, and the
\* next one in turn.
EXTENDS EngineLifecycle
=============================================================================
