-------------------------- MODULE BroadcastQueueMC --------------------------
\* BroadcastQueue with the capture loop and an injection publishing.
EXTENDS BroadcastQueue
=============================================================================
