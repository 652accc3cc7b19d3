----------------------------- MODULE SamLinkMC -----------------------------
(* SamLink for TLC: an event, a through message that looks like the start  *)
(* of a frame, and a time stamp that is one half of an end mark.           *)
EXTENDS SamLink

MCPayloads == {<<3>>, <<23, 19>>}
MCStamps   == {<<1>>, <<23>>}

\* In any stream of four of these frames only a frame looks like one.  What
\* check takes for a frame is no longer than BufferLen and these frames have
\* seven or eight bytes, so no longer stream has more to mistake.
MCFrames == {Frame(p, t) : p \in MCPayloads, t \in MCStamps}

ASSUME MCUnmistakable ==
    \A f \in [1..4 -> MCFrames] :
        LET s == f[1] \o f[2] \o f[3] \o f[4]
        IN \A i \in 0..Len(s) : LooksLikeFrame(s, i) =>
               i \in {0, Len(f[1]), Len(f[1] \o f[2]), Len(f[1] \o f[2] \o f[3])}
=============================================================================
