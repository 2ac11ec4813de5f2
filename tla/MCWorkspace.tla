---------------------------- MODULE MCWorkspace ----------------------------
\* Small instances of Workspace for TLC.
EXTENDS Workspace, TLC

MCPlanLimits == [FREE |-> [project |-> 1, scene |-> 2, character |-> 1, record |-> 1],
                 PLUS |-> [project |-> 2, scene |-> 3, character |-> 2, record |-> 2]]

\* A new work; a work with a scene in a chapter and a character; a new work beside the sample.
MCWork == <<NewRow("project", 0)>>
MCWritten(w, name, first) ==
    <<[NewRow("chapter", w) EXCEPT !.name = name, !.order = first],
      [NewRow("scene", w) EXCEPT !.order = first, !.ref = w + 1],
      [NewRow("character", w) EXCEPT !.name = name]>>
MCStarts ==
    LET name == CHOOSE n \in Names : TRUE
        sample == [NewRow("project", 0) EXCEPT !.sample = TRUE] IN
    {MCWork, MCWork \o MCWritten(1, name, 0),
     MCWork \o <<sample>> \o MCWritten(2, name, 1)
            \o <<[NewRow("note", 2) EXCEPT !.ref = 5], NewRow("record", 2)>>}

Symmetry == Permutations(Handlers)
=============================================================================
