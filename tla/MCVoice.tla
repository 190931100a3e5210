------------------------------ MODULE MCVoice ------------------------------
(* Voice for TLC: model values for guilds, channels and threads.           *)
EXTENDS Voice

CONSTANTS g1, g2, c1, c2, t1, t2

MCGuilds == {g1, g2}
MCChannels == {c1, c2}
MCThreads == {t1, t2}
=============================================================================
