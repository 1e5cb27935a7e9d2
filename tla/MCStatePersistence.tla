------------------------- MODULE MCStatePersistence -------------------------
\* One agent with up to three runs at three times: memory and file hold whole
\* histories, so what is saved, lost and reloaded shows in one entry.
EXTENDS StatePersistence

CONSTANT a

OneAgent == {a}
=============================================================================
