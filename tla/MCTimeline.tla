----------------------------- MODULE MCTimeline -----------------------------
\* Small instances of TimelineList, and through it of Timeline, for TLC.
EXTENDS TimelineList
=============================================================================
