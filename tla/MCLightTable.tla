---------------------------- MODULE MCLightTable ----------------------------
EXTENDS LightTable, TLC

CONSTANTS e1, e2, e3, e4, f1, b1

\* The two effects of a transition, and one or two more for the commands of a poll.
MCEffects3 == {e1, e2, e3}
MCEffects4 == {e1, e2, e3, e4}

MCForeground == {f1}
MCBackground == {b1}

\* The sounds asked for: one name of a file that is not there.
MCSoundNames == {f1, b1, UnknownName}
MCNoSoundNames == {}
=============================================================================
