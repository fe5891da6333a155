---------------------------- MODULE TicketBoard ----------------------------
(***************************************************************************)
(* The copies of one ticket in the plan folders, and the processes that     *)
(* move it.  A move first repairs the folders (duplicate actioned copies,   *)
(* then queued copies of an actioned ticket), indexes them, renames one     *)
(* copy into the target bucket and repairs again; a repair archives the     *)
(* copies it drops, file by file and without any lock.  On the way to the   *)
(* complete bucket the copy needs an outcome record, which a merge writes   *)
(* into the file where it stands.  The batch runner, each ticket run, the   *)
(* review commands and an operator all move tickets, and each may stop      *)
(* between two file operations, or in the middle of writing a file.         *)
(*                                                                          *)
(* Abstracted: one scan of the folders is one step, and a copy carries only *)
(* what the code reads from it: how much of the text is there, and what the *)
(* outcome block at its end holds.                                          *)
(***************************************************************************)
EXTENDS PlanBuckets, FiniteSets

CONSTANTS Movers,      \* processes that move the ticket
          Targets,     \* the buckets they move it to
          StartFiles,  \* the sets of copies the folders may hold at first
          MaxMoves,    \* bound: moves started in all
          MaxCrashes   \* bound: movers that stop in the middle

ASSUME BoardAssumption ==
    /\ Targets \subseteq Buckets
    /\ MaxMoves \in Nat
    /\ MaxCrashes \in Nat

VARIABLES files,    \* the copies: records of [text, base, nth, bucket, kind, body, block]
          mover,    \* mover[m]: where m's move_ticket_file stands
          moves,    \* moves started
          crashes,  \* crashes so far
          texts,    \* the texts the folders held at first
          calm,     \* no scan has read a cut archive copy, and no move has put one there
          spoiled   \* texts whose file a move died rewriting where it stood, or
                    \* replaced when it moved another copy into the archive

vars == <<files, mover, moves, crashes, texts, calm, spoiled>>

\* body: the ticket's text is whole, or ends before (early) or after (late) the
\* marker of a generated ticket.  block: what follows the text; an open block
\* has lost its end, and with a second block behind it is broken: the pattern
\* that finds a block then takes both for one, which does not parse.
Copies == [text : Nat, base : Nat, nth : Nat, bucket : Buckets, kind : {"generated", "manual"},
           body : {"whole", "early", "late"},
           block : {"none", "outcome", "plan_copy", "open", "broken"}]
Path(f) == <<f.bucket, f.base, f.nth>>
Paths == {Path(f) : f \in files}
At(p) == CHOOSE f \in files : Path(f) = p

\* The folders hold at first what finished moves leave: whole files, no two of
\* them at one path, relation copies in the archive alone, and one copy at
\* least that the index knows.
ASSUME StartAssumption ==
    \A S \in StartFiles :
        /\ S \subseteq Copies /\ IsFiniteSet(S)
        /\ \A f, g \in S : Path(f) = Path(g) => f = g
        /\ \A f \in S : /\ f.body = "whole" /\ f.block \in {"none", "outcome", "plan_copy"}
                        /\ f.block = "plan_copy" => f.bucket = "archived"
        /\ \E f \in S : f.block # "plan_copy"

\* is_generated_backlog_ticket on what the file holds now: the marker is in
\* the text, so a file cut before it does not carry it.
IsGenerated(f) == f.kind = "generated" /\ f.body # "early"
\* A copy that an archive step marked as a relation of the ticket's own copy.
IsRelation(f) == f.block = "plan_copy"

\* A repair looks at the actioned copies.  The index passes over those whose
\* outcome block it cannot parse (integrity_unknown).
Canonical == {f \in files : f.bucket \in Actioned /\ ~IsRelation(f)}
\* The paths scan_plan_ticket_index reports for the ticket.
Indexed == {f \in files : ~IsRelation(f) /\ f.block # "broken"}
Active == Canonical \cap Indexed
Ambiguous == \E f, g \in Active : f # g /\ f.bucket = g.bucket
\* Faulty variant: any copy in an actioned bucket counts, relations too.
StatusOfAnyCopy == IF \E f \in files : f.bucket \in Actioned THEN "actioned" ELSE "queued"

\* _merge_ticket_status over the indexed copies; a relation copy, read last,
\* does not make a queued ticket actioned.
Status == IF Active # {} THEN "actioned" ELSE "queued"

\* _candidate_score, for generated copies: a valid outcome record, then the
\* bucket, then the name.
Better(f, g) ==
    LET valid(h) == h.block = "outcome"
    IN  IF valid(f) # valid(g) THEN valid(f)
        ELSE IF Rank[f.bucket] # Rank[g.bucket] THEN Rank[f.bucket] > Rank[g.bucket]
        ELSE f.base > g.base \/ (f.base = g.base /\ f.nth > g.nth)

Protected == {f \in Canonical : ~IsGenerated(f)}

\* dedupe_actioned_plan_ticket_files: refuse two protected copies before
\* anything is written; else keep the protected one or the best generated one.
RepairRefused == Cardinality(Canonical) > 1 /\ Cardinality(Protected) > 1
Kept ==
    IF Protected # {} THEN CHOOSE f \in Protected : TRUE
    ELSE CHOOSE f \in Canonical : \A g \in Canonical : g = f \/ Better(f, g)
RepairDuplicates ==
    IF Cardinality(Canonical) <= 1 THEN {}
    ELSE {Path(f) : f \in {g \in Canonical : IsGenerated(g)} \ {Kept}}

\* Faulty variant: manual queue files are swept with the generated ones.
SweepEverything ==
    IF Status = "actioned" THEN {Path(f) : f \in {g \in Indexed : g.bucket \in Queued}} ELSE {}

\* dedupe_queued_plan_ticket_files_when_actioned_exists
SweepDuplicates ==
    IF Status = "actioned"
    THEN {Path(f) : f \in {g \in Indexed : g.bucket \in Queued /\ IsGenerated(g)}}
    ELSE {}

-----------------------------------------------------------------------------
NoFile == [text |-> 0, base |-> 0, nth |-> 0, bucket |-> "archived", kind |-> "manual",
           body |-> "whole", block |-> "none"]
NoPath == <<"archived", 0, 0>>

Idle == [stage |-> "idle", to |-> "ready", rec |-> FALSE, step |-> "scan", todo |-> {},
         read |-> NoFile, dest |-> NoPath, open |-> NoPath, got |-> NoPath]

\* Faulty variant: the queue is not swept again after the rename.
NoSecondSweep == [repair |-> "sweep", sweep |-> "index", index |-> "place",
                  repair_again |-> "returned", sweep_again |-> "returned", discard |-> "returned"]

\* The passes of one move, in order.
NextStage == [repair |-> "sweep", sweep |-> "index", index |-> "place",
              repair_again |-> "sweep_again", sweep_again |-> "returned",
              discard |-> "returned"]

Repairs == {"repair", "index", "repair_again"}
Sweeps == {"sweep", "sweep_again"}

Init ==
    /\ files \in StartFiles
    /\ texts = {f.text : f \in files}
    /\ mover = [m \in Movers |-> Idle]
    /\ moves = 0
    /\ crashes = 0
    /\ calm = TRUE
    /\ spoiled = {}

Fail(m) == mover' = [mover EXCEPT ![m] = [Idle EXCEPT !.stage = "failed", !.to = mover[m].to]]
Goto(m, stage) ==
    mover' = [mover EXCEPT ![m].stage = stage, ![m].step = "scan", ![m].todo = {}]

\* An archive copy cut short, which no block marks as a relation: to a scan it
\* is the ticket itself.
CutInArchive(f) == f.bucket = "archived" /\ f.body # "whole" /\ ~IsRelation(f)
Look == calm' = (calm /\ \A f \in files : ~CutInArchive(f))

\* A move starts.  Only a merge brings an outcome record, to the complete bucket.
Start(m, to, rec) ==
    /\ mover[m].stage \in {"idle", "failed", "returned"}
    /\ rec => to = "complete"
    /\ moves < MaxMoves
    /\ moves' = moves + 1
    /\ mover' = [mover EXCEPT ![m] = [Idle EXCEPT !.stage = "repair", !.to = to, !.rec = rec]]
    /\ UNCHANGED <<texts, files, crashes, calm, spoiled>>

\* The scan that decides what a pass archives.
Scan(m) ==
    /\ mover[m].stage \in Repairs \cup Sweeps
    /\ mover[m].step = "scan"
    /\ Look
    /\ IF mover[m].stage \in Repairs
       THEN IF RepairRefused THEN Fail(m)
            ELSE mover' = [mover EXCEPT ![m].step = "archive", ![m].todo = RepairDuplicates]
       ELSE IF Ambiguous THEN Fail(m)
            ELSE mover' = [mover EXCEPT ![m].step = "archive", ![m].todo = SweepDuplicates]
    /\ UNCHANGED <<texts, files, moves, crashes, spoiled>>

\* A pass that has archived everything.  A repair ends with the strict index.
PassEnds(m) ==
    /\ mover[m].stage \in Repairs \cup Sweeps \cup {"discard"}
    /\ mover[m].step = "archive" /\ mover[m].todo = {}
    /\ Look
    /\ IF mover[m].stage \in Repairs /\ Ambiguous
       THEN Fail(m)
       ELSE Goto(m, NextStage[mover[m].stage])
    /\ UNCHANGED <<texts, files, moves, crashes, spoiled>>

\* The archive name: the source's own, or the next numbered one that is free.
ArchiveName(f) ==
    LET taken == {p[3] : p \in {q \in Paths : q[1] = "archived" /\ q[2] = f.base}}
        own == <<"archived", f.base, f.nth>>
    IN  IF own = Path(f) \/ own \notin Paths THEN own
        ELSE <<"archived", f.base, CHOOSE k \in 1..(Cardinality(taken) + 1) :
                   k \notin taken /\ \A j \in 1..(k - 1) : j \in taken>>

\* A repair goes through the buckets from the last to the first, a sweep and a
\* discard through the paths in order; within a bucket, by name.
Order == <<"deferred", "discarded", "to_triage", "ideas", "to_plan", "ready", "in_progress",
           "for_review", "complete", "archived">>
Before(stage, p, q) ==
    LET pos(b) == CHOOSE i \in DOMAIN Order : Order[i] = b
        nameBefore == p[2] < q[2] \/ (p[2] = q[2] /\ p[3] < q[3])
    IN  IF p[1] = q[1] THEN nameBefore
        ELSE IF stage \in Repairs THEN pos(p[1]) > pos(q[1]) ELSE pos(p[1]) < pos(q[1])

\* archive_plan_ticket_file: read the source and choose the destination.  A
\* source that is gone raises: a repair fails, a sweep passes over it.
ReadSource(m, p) ==
    /\ mover[m].step = "archive" /\ p \in mover[m].todo
    /\ \A q \in mover[m].todo : q = p \/ Before(mover[m].stage, p, q)
    /\ IF p \in Paths
       THEN mover' = [mover EXCEPT ![m].step = "write", ![m].read = At(p),
                                   ![m].dest = ArchiveName(At(p))]
       ELSE IF mover[m].stage \in Sweeps
            THEN mover' = [mover EXCEPT ![m].todo = @ \ {p}]
            ELSE Fail(m)
    /\ UNCHANGED <<texts, files, moves, crashes, calm, spoiled>>

Replaced(p, f) == {g \in files : Path(g) # p} \cup {f}
PlacedAt(f, p) == [f EXCEPT !.bucket = p[1], !.base = p[2], !.nth = p[3]]

\* Opening a file for writing empties it; for a while it holds the beginning
\* of what is written: of the text, or the text and the beginning of the block.
Cuts == {"early", "late", "inside"}
Cut(f, cut) ==
    CASE cut = "early" -> [f EXCEPT !.body = "early", !.block = "none"]
      [] cut = "late" -> [f EXCEPT !.body = IF @ = "early" THEN "early" ELSE "late",
                                   !.block = "none"]
      [] cut = "inside" -> [f EXCEPT !.block = "open"]

\* upsert_outcome_markdown: the text that was read, cut or not, with the block
\* in the place of the former one.  Only a block that has its end is replaced.
WithBlock(f, block) == [f EXCEPT !.block = IF @ = "open" THEN "broken" ELSE block]

\* The relation copy, at its destination.
Filled(m) == PlacedAt(WithBlock(mover[m].read, "plan_copy"), mover[m].dest)

\* A file that is open for writing is the same file after a rename, and no
\* file at all once it was unlinked or replaced.
Follow(mv, from, to) ==
    [n \in Movers |-> IF mv[n].step \in {"writing", "recording"} /\ mv[n].open = to
                      THEN [mv[n] EXCEPT !.open = NoPath]
                      ELSE IF mv[n].step \in {"writing", "recording"} /\ mv[n].open = from
                      THEN [mv[n] EXCEPT !.open = to]
                      ELSE mv[n]]

\* Faulty variant: the source is removed before its copy is written.
RemoveThenWrite(m, cut) ==
    /\ mover[m].step = "write"
    /\ files' = {f \in Replaced(mover[m].dest, PlacedAt(Cut(mover[m].read, cut), mover[m].dest)) :
                    Path(f) = mover[m].dest \/ Path(f) # Path(mover[m].read)}
    /\ mover' = [mover EXCEPT ![m].step = "writing", ![m].open = mover[m].dest]
    /\ UNCHANGED <<texts, moves, crashes, calm, spoiled>>

\* write_bytes opens the destination, which may be the source itself.
CutDestination(m, cut) ==
    /\ mover[m].step = "write"
    /\ files' = Replaced(mover[m].dest, PlacedAt(Cut(mover[m].read, cut), mover[m].dest))
    /\ mover' = [mover EXCEPT ![m].step = "writing", ![m].open = mover[m].dest]
    /\ UNCHANGED <<texts, moves, crashes, calm, spoiled>>

\* The rest of the bytes, into the file that was opened, wherever it is now.
Rest(m, f) ==
    files' = IF mover[m].open \in Paths
             THEN Replaced(mover[m].open, PlacedAt(f, mover[m].open))
             ELSE files
FillDestination(m) ==
    /\ mover[m].step = "writing"
    /\ Rest(m, Filled(m))
    /\ mover' = [mover EXCEPT ![m].step = "written", ![m].open = NoPath]
    /\ UNCHANGED <<texts, moves, crashes, calm, spoiled>>

\* Read back, then unlink the source.  In-place archiving has no source left
\* to remove; a mismatch or a source that is gone raises OSError.
RemoveSource(m) ==
    LET p == Path(mover[m].read)
        done == [mover EXCEPT ![m].step = "archive", ![m].todo = @ \ {p}]
        readBack == /\ mover[m].dest \in Paths
                    /\ At(mover[m].dest) = Filled(m)
    IN  /\ mover[m].step = "written"
        /\ IF p = mover[m].dest THEN mover' = done /\ UNCHANGED files
           ELSE IF readBack /\ p \in Paths
           THEN files' = {f \in files : Path(f) # p} /\ mover' = Follow(done, p, NoPath)
           ELSE IF mover[m].stage \in Sweeps THEN mover' = done /\ UNCHANGED files
           ELSE Fail(m) /\ UNCHANGED files
        /\ UNCHANGED <<texts, moves, crashes, calm, spoiled>>

-----------------------------------------------------------------------------
Held == {f.bucket : f \in Indexed}
FirstIn(b) == CHOOSE f \in Indexed : f.bucket = b /\
                  \A g \in Indexed : g.bucket = b => f.base < g.base \/ (f.base = g.base /\ f.nth <= g.nth)

\* move_ticket_file between its two rounds of repair: nothing to move, a
\* ticket further along, a ticket already there, or the copy to rename.
Place(m) ==
    LET to == mover[m].to
        further == Further(Held, to)
        best == CHOOSE b \in further : \A c \in further : Rank[c] <= Rank[b]
        src == FirstIn(SourceBucket(Held, to))
    IN  /\ mover[m].stage = "place"
        /\ mover[m].step = "scan"
        /\ Look
        /\ IF Ambiguous \/ Indexed = {} THEN Fail(m)
           ELSE IF further # {}
           THEN mover' = [mover EXCEPT ![m].stage = "returned", ![m].got = Path(FirstIn(best))]
           ELSE IF to \in Held
           THEN mover' = [mover EXCEPT
                   ![m].got = Path(FirstIn(to)), ![m].read = FirstIn(to),
                   ![m].stage = CASE to = "discarded" -> "discard"
                                  [] to = "complete" -> "place"
                                  [] OTHER -> "returned",
                   ![m].step = CASE to = "discarded" -> "archive"
                                 [] to = "complete" -> "outcome"
                                 [] OTHER -> "scan",
                   ![m].todo = IF to = "discarded"
                               THEN {Path(f) : f \in {g \in Indexed : g.bucket # to}}
                               ELSE {}]
           ELSE mover' = [mover EXCEPT ![m].step = IF to = "complete" THEN "outcome" ELSE "rename",
                                       ![m].read = src]
        /\ UNCHANGED <<texts, files, moves, crashes, spoiled>>

\* What follows the outcome record: a copy already in the target is returned,
\* another one is renamed.
Go(m, f) ==
    LET there == f.bucket = mover[m].to
    IN  mover' = [mover EXCEPT ![m].stage = IF there THEN "returned" ELSE "place",
                               ![m].step = IF there THEN "scan" ELSE "rename",
                               ![m].read = f, ![m].open = NoPath]

\* _markdown_with_monotonic_outcome on the file as it is now.  A move without a
\* record needs one in the file; a record that comes with the move is written
\* or, when the file has one, reconciled with it: refused, of no effect, or
\* written.  An unreadable file and an unreadable block raise.
ReadOutcome(m) ==
    LET p == Path(mover[m].read)
        found == p \in Paths /\ At(p).block \in {"outcome", "plan_copy"}
        readable == p \in Paths /\ At(p).block # "broken"
    IN  /\ mover[m].step = "outcome"
        /\ \/ readable /\ mover[m].rec
              /\ mover' = [mover EXCEPT ![m].step = "record", ![m].read = At(p)]
           \/ found /\ Go(m, At(p))
           \/ (readable => (found <=> mover[m].rec)) /\ Fail(m)
        /\ UNCHANGED <<texts, files, moves, crashes, calm, spoiled>>

\* write_text opens the copy where it stands, and writes the rest.
CutRecord(m, cut) ==
    LET p == Path(mover[m].read)
    IN  /\ mover[m].step = "record"
        /\ files' = Replaced(p, Cut(mover[m].read, cut))
        /\ mover' = [mover EXCEPT ![m].step = "recording", ![m].open = p, ![m].dest = p]
        /\ UNCHANGED <<texts, moves, crashes, calm, spoiled>>
FillRecord(m) ==
    /\ mover[m].step = "recording"
    /\ Rest(m, WithBlock(mover[m].read, "outcome"))
    /\ Go(m, mover[m].read)
    /\ UNCHANGED <<texts, moves, crashes, calm, spoiled>>

\* src_path.replace(dest_path): the same name in the target bucket.
Rename(m) ==
    LET p == Path(mover[m].read)
        dest == <<mover[m].to, mover[m].read.base, mover[m].read.nth>>
        placed == [mover EXCEPT ![m].stage = "repair_again", ![m].step = "scan", ![m].got = dest]
    IN  /\ mover[m].step = "rename"
        /\ IF p \in Paths
           THEN /\ files' = {f \in files : Path(f) \notin {p, dest}}
                               \cup {[At(p) EXCEPT !.bucket = mover[m].to]}
                /\ mover' = Follow(placed, p, dest)
                /\ calm' = (calm /\ ~CutInArchive([At(p) EXCEPT !.bucket = mover[m].to]))
                /\ spoiled' = spoiled \cup {f.text : f \in {g \in files :
                                  mover[m].to = "archived" /\ Path(g) = dest}}
           ELSE Fail(m) /\ UNCHANGED <<files, calm, spoiled>>
        /\ UNCHANGED <<texts, moves, crashes>>

\* The process stops where it is; what it had open stays as written.
InPlace(m) ==
    mover[m].step \in {"writing", "recording"} /\ mover[m].dest = Path(mover[m].read)
Crash(m) ==
    /\ mover[m].stage \notin {"idle", "failed", "returned"}
    /\ crashes < MaxCrashes
    /\ crashes' = crashes + 1
    /\ Fail(m)
    /\ spoiled' = IF InPlace(m) THEN spoiled \cup {mover[m].read.text} ELSE spoiled
    /\ UNCHANGED <<texts, files, moves, calm>>

Step(m) ==
    \/ Scan(m) \/ PassEnds(m)
    \/ \E p \in mover[m].todo : ReadSource(m, p)
    \/ \E cut \in Cuts : CutDestination(m, cut)
    \/ FillDestination(m) \/ RemoveSource(m)
    \/ Place(m) \/ ReadOutcome(m)
    \/ \E cut \in Cuts : CutRecord(m, cut)
    \/ FillRecord(m) \/ Rename(m)

Next ==
    \E m \in Movers :
        \/ \E to \in Targets, rec \in BOOLEAN : Start(m, to, rec)
        \/ Step(m)
        \/ Crash(m)

Spec == Init /\ [][Next]_vars

-----------------------------------------------------------------------------
Placing == {"outcome", "record", "recording", "rename"}
Working(m) == mover[m].stage \notin {"idle", "failed", "returned"}

\* Every path holds one file, and a mover past its scan has work of its pass.
TypeOK ==
    /\ files \subseteq Copies
    /\ Cardinality(Paths) = Cardinality(files)
    /\ \A m \in Movers :
         /\ mover[m].stage \in DOMAIN NextStage \cup {"idle", "failed", "returned", "place"}
         /\ mover[m].step \in {"scan", "archive", "write", "writing", "written"} \cup Placing
         /\ mover[m].step \in Placing => mover[m].stage = "place"
    /\ moves \in 0..MaxMoves /\ crashes \in 0..MaxCrashes
    /\ calm \in BOOLEAN

\* archive_plan_ticket_file removes a source only after its text was written
\* and read back: wherever a move stops, the text of every copy is whole in
\* some file, or in the memory of a mover that is writing its file.  Two
\* things lose it: dying in the middle of rewriting a copy where it stands (an
\* archive step on a copy already archived, the outcome of a merge), and a
\* move into the archive onto a copy of the same name.
Survives(t) ==
    \/ \E f \in files : f.text = t /\ f.body = "whole"
    \/ \E m \in Movers : /\ mover[m].step \in {"writing", "recording"} /\ mover[m].open \in Paths
                         /\ mover[m].read.text = t /\ mover[m].read.body = "whole"
NothingLost == \A t \in texts : Survives(t) \/ t \in spoiled

\* A copy somebody wrote by hand is moved, never archived as a duplicate, even
\* when it takes the path of a generated copy that a repair had picked; only an
\* explicit discard archives it.
ManualArchived(S) == {f.text : f \in {g \in S : g.kind = "manual" /\ IsRelation(g)}}
ProtectedKept ==
    [][ManualArchived(files') \subseteq ManualArchived(files)
         \/ \E m \in Movers : mover[m].stage = "discard"]_vars

\* The ticket keeps a copy that the index knows, so it can still be claimed or
\* finished: its own copy, which may be cut by a move that died writing its
\* outcome, and not the cut rest of an archive step, until a scan has taken
\* such a rest for the ticket.  But for a copy whose outcome was written again
\* behind a block cut short: it is there and the index cannot read it.
StaysOnBoard ==
    \/ \E f \in Indexed : calm => ~CutInArchive(f)
    \/ \E f \in files : f.block = "broken"

\* A move that returns a path has left the ticket there: that copy exists, it
\* is in the target bucket or further along, no second actioned copy is left
\* that the index knows, and no generated queued copy beside an actioned one.
\* The copy may be gone in two cases: a ticket taken back from the discarded
\* bucket to a queue, beside an archived copy, is swept as its duplicate; and
\* a repair may prefer a copy that the index cannot read.
Landed ==
    \A m \in Movers : mover[m].stage = "returned" =>
        /\ \/ mover[m].got \in Paths
           \/ mover[m].to \in Queued /\ (\E f \in Active : f.bucket = "archived")
           \/ \E f \in files : f.block = "broken"
        /\ mover[m].got[1] \in {mover[m].to} \cup Further(Buckets, mover[m].to)
        /\ Cardinality(Active) <= 1
        /\ SweepDuplicates = {}
=============================================================================
