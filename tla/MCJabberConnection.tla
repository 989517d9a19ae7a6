------------------------- MODULE MCJabberConnection -------------------------
\* JabberConnection on a small instance.
EXTENDS JabberConnection

MCUserTypes == {"Online", "Offline"}
MCUserModes == {"NoChange", "Busy", "Offline"}
=============================================================================
