--------------------------- MODULE MCTicketBoard ---------------------------
EXTENDS TicketBoard
CONSTANTS m1, m2

\* Three copies, by hand or generated: one to be planned or claimed; one ready,
\* under review or complete, with an outcome record or none; one an idea or archived, under
\* the same file name or another.
MCCopy(t, n, b, k, o) ==
    [text |-> t, base |-> n, nth |-> 0, bucket |-> b, kind |-> k, body |-> "whole",
     block |-> o]
MCKinds == {"generated", "manual"}
MCStart ==
    {{MCCopy(1, 1, a, i, "none"), MCCopy(2, 1, b, j, o), MCCopy(3, n, c, k, "none")} :
        a \in {"to_plan", "in_progress"}, i \in MCKinds, j \in MCKinds, k \in MCKinds, o \in {"none", "outcome"}, n \in {1, 2},
        b \in {"ready", "for_review", "complete"}, c \in {"ideas", "archived"}}
\* The same for the race of two movers, with nothing in the archive at first.
MCRaceStart == {S \in MCStart : \A f \in S : f.bucket # "archived"}
MCTargets == {"ready", "in_progress", "for_review", "complete", "discarded", "archived"}
MCMovers == {m1}
MCRacers == {m1, m2}
MCPair == {"ready", "for_review"}
=============================================================================
