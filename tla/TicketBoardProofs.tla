------------------------- MODULE TicketBoardProofs -------------------------
(***************************************************************************)
(* Proofs about TicketBoard, for any copies, movers, targets and bounds.    *)
(* The types hold however the movers interleave.  The rest is what a move   *)
(* keeps when no second process moves the ticket at the same time: nothing  *)
(* in the code enforces that, and board_race shows what goes wrong without. *)
(***************************************************************************)
EXTENDS TicketBoard, FiniteSetTheorems, TLAPS

\* One process at a time moves the ticket.
Alone == \A m, n \in Movers : Working(m) /\ Working(n) => m = n

-----------------------------------------------------------------------------
\* The invariant, part by part.  First what holds whoever moves the ticket.

FolderPaths == Buckets \X Nat \X Nat
AtRest == {"idle", "failed", "returned"}
Stages == Repairs \cup Sweeps \cup {"discard", "place"} \cup AtRest
Moving == [stage : Stages, to : Buckets, rec : BOOLEAN,
           step : {"scan", "archive", "write", "writing", "written"} \cup Placing,
           todo : SUBSET FolderPaths, read : Copies, dest : FolderPaths,
           open : FolderPaths, got : FolderPaths]

OnePerPath == \A f, g \in files : Path(f) = Path(g) => f = g

\* Where a mover may stand: nothing to do at rest, the outcome and the rename
\* in the placing stage alone, the archiving steps in the passes alone.
StandsRight(r) ==
    /\ r.stage \in AtRest => r.step = "scan"
    /\ r.step = "scan" => r.todo = {}
    /\ r.stage = "place" => r.step \in {"scan"} \cup Placing /\ r.todo = {}
    /\ r.step \in Placing => r.stage = "place"
    /\ r.stage = "discard" => r.step # "scan"

Typed ==
    /\ files \subseteq Copies /\ IsFiniteSet(files) /\ OnePerPath
    /\ mover \in [Movers -> Moving]
    /\ \A m \in Movers : StandsRight(mover[m])
    /\ moves \in 0..MaxMoves /\ crashes \in 0..MaxCrashes
    /\ calm \in BOOLEAN

\* What holds while one process at a time moves the ticket.

RelationsArchived == \A f \in files : IsRelation(f) => f.bucket = "archived"

\* The archive copy on its way: chosen free or in place, then cut, then whole
\* with the source beside it.
CutAt(f, p) == \E cut \in Cuts : PlacedAt(Cut(f, cut), p) \in files
Chosen(m) ==
    mover[m].step = "write" =>
        /\ mover[m].read \in files
        /\ mover[m].dest = Path(mover[m].read) \/ mover[m].dest \notin Paths
Writing(m) ==
    mover[m].step = "writing" =>
        /\ mover[m].open = mover[m].dest
        /\ CutAt(mover[m].read, mover[m].dest)
        /\ mover[m].dest = Path(mover[m].read) \/ mover[m].read \in files
Written(m) ==
    mover[m].step = "written" =>
        /\ Filled(m) \in files
        /\ mover[m].dest = Path(mover[m].read) \/ mover[m].read \in files
Archiving(m) ==
    mover[m].step \in {"write", "writing", "written"} =>
        /\ Path(mover[m].read) \in mover[m].todo
        /\ mover[m].dest[1] = "archived"

\* The copy a move to the complete bucket has chosen, while its outcome is read
\* and written: one the index knows, outside the archive, there or cut short.
Recording(m) ==
    /\ mover[m].step \in {"outcome", "record"} => mover[m].read \in files
    /\ mover[m].step = "recording" =>
          /\ mover[m].open = Path(mover[m].read) /\ mover[m].dest = Path(mover[m].read)
          /\ CutAt(mover[m].read, Path(mover[m].read))
    /\ mover[m].step \in {"outcome", "record", "recording"} =>
          /\ ~IsRelation(mover[m].read) /\ mover[m].read.block # "broken"
          /\ mover[m].to = "complete" /\ mover[m].read.bucket # "archived"

\* The copy to rename is there, and no copy that the index knows in its new
\* bucket.
Renaming(m) ==
    /\ mover[m].step = "rename" =>
          /\ mover[m].read.bucket # mover[m].to
          /\ \E f \in files : Path(f) = Path(mover[m].read) /\ ~IsRelation(f)
    /\ mover[m].step \in Placing /\ mover[m].read.bucket # mover[m].to =>
          \A f \in Indexed : f.bucket # mover[m].to

Sound(m) == Chosen(m) /\ Writing(m) /\ Written(m) /\ Archiving(m) /\ Recording(m) /\ Renaming(m)

\* Every text of the start is whole in a file whose block is sound, or in the
\* memory of a mover that writes such a file where it stands, or spoiled.
Fine(f) == f.body = "whole" /\ f.block \notin {"open", "broken"}
Safe(t) ==
    \/ \E f \in files : f.text = t /\ Fine(f)
    \/ t \in spoiled
    \/ \E m \in Movers : InPlace(m) /\ mover[m].read.text = t /\ Fine(mover[m].read)

\* What a repair or a sweep has picked is generated, and stays so while the
\* list is worked through.
Picked(m) ==
    mover[m].stage \in Repairs \cup Sweeps =>
        /\ \A f \in files : Path(f) \in mover[m].todo => f.kind = "generated"
        /\ mover[m].step \in {"write", "writing", "written"} => mover[m].read.kind = "generated"

\* The archive copy that m is writing.
InFlight(m, f) == mover[m].step = "writing" /\ Path(f) = mover[m].dest

\* A copy that stands for the ticket and that no pass is about to archive.
Stands(f) ==
    /\ f.block # "broken" => ~IsRelation(f) /\ (calm => ~CutInArchive(f))
    /\ \A m \in Movers : Path(f) \notin mover[m].todo /\ ~InFlight(m, f)
OnBoard == \E f \in files : Stands(f)

LoneInv ==
    /\ RelationsArchived
    /\ \A m \in Movers : Sound(m) /\ Picked(m)
    /\ \A t \in texts : Safe(t)
    /\ OnBoard

-----------------------------------------------------------------------------
\* Where a move of the only mover lands.

\* The actioned copies the index knows, but for the archive copy that is being
\* written.
Settled(m) == {f \in Active : ~InFlight(m, f)}

\* A repair leaves one of them, beside those on its list; the later stages
\* find one at most.
OneLeft(m) ==
    mover[m].stage \in Repairs /\ mover[m].step # "scan" =>
        \A f, g \in Settled(m) :
            Path(f) \notin mover[m].todo /\ Path(g) \notin mover[m].todo => f = g
OneAtMost(m) ==
    mover[m].stage \in Sweeps \cup {"index", "place"} => \A f, g \in Settled(m) : f = g

\* A sweep has the generated queued copies of an actioned ticket on its list,
\* and leaves none.
Queuing(f) == f.bucket \in Queued /\ IsGenerated(f)
QueuedCopies == {f \in Indexed : Queuing(f)}
Sweeping(m) ==
    mover[m].stage \in Sweeps /\ mover[m].step # "scan" =>
        \/ mover[m].todo = {} /\ Active = {}
        \/ \A f \in QueuedCopies : Path(f) \in mover[m].todo
Swept(m) ==
    mover[m].stage \in {"index", "place"} =>
        \/ Settled(m) = {}
        \/ QueuedCopies = {} /\ (mover[m].step = "recording" => ~Queuing(mover[m].read))

\* A discard keeps the copy it returns and has every other one on its list.
Discarding(m) ==
    mover[m].stage = "discard" =>
        /\ mover[m].to = "discarded" /\ mover[m].got[1] = "discarded"
        /\ mover[m].got \in Paths /\ mover[m].got \notin mover[m].todo
        /\ \A f \in Settled(m) : Path(f) \in mover[m].todo

\* The copy a move has chosen: it is in the target bucket, or no pass will take
\* it once it is there, or it comes from the discarded bucket and the ticket
\* has an archived copy.
Source(m) ==
    /\ mover[m].step \in Placing =>
          \/ mover[m].read.bucket = mover[m].to
          \/ mover[m].to = "discarded" \/ ~IsGenerated(mover[m].read)
          \/ \A f \in Active : Path(f) = Path(mover[m].read)
          \/ /\ mover[m].to \in Queued
             /\ \E c \in Active : c.bucket = "archived" /\ Active \subseteq {c}
    /\ mover[m].step \in {"outcome", "record", "recording"} /\ mover[m].read.bucket = mover[m].to =>
          mover[m].got = Path(mover[m].read)
    /\ mover[m].step = "rename" =>
          \A f \in files : Path(f) = Path(mover[m].read) =>
              (IsGenerated(f) <=> IsGenerated(mover[m].read))

\* After the rename no pass takes the copy that was moved: it is the only
\* actioned one, written by hand, or in a bucket that no pass looks at.
Firm(m) ==
    \E f \in files :
        /\ Path(f) = mover[m].got /\ Path(f) \notin mover[m].todo /\ ~InFlight(m, f)
        /\ \/ mover[m].to = "discarded"
           \/ ~IsGenerated(f)
           \/ Settled(m) \subseteq {f}
\* The exceptions of Landed: an archived copy beside it, or a copy that the
\* index cannot read and a repair preferred.
Excused(m) ==
    /\ mover[m].to \in Queued
    /\ \E c \in Settled(m) :
          c.bucket = "archived" /\ Path(c) \notin mover[m].todo /\ Settled(m) \subseteq {c}
Beaten(m) ==
    \E f \in files : f.block = "broken" /\ Path(f) \notin mover[m].todo /\ ~InFlight(m, f)
Landing(m) ==
    mover[m].stage \in {"repair_again", "sweep_again"} =>
        /\ mover[m].got[1] = mover[m].to
        /\ \/ Firm(m)
           \/ Excused(m)
           \/ Beaten(m) /\ ~(mover[m].stage = "repair_again" /\ mover[m].step = "scan")

HasLanded(m) ==
    mover[m].stage = "returned" =>
        /\ \/ mover[m].got \in Paths
           \/ mover[m].to \in Queued /\ \E f \in Active : f.bucket = "archived"
           \/ \E f \in files : f.block = "broken"
        /\ mover[m].got[1] \in {mover[m].to} \cup Further(Buckets, mover[m].to)
        /\ \A f, g \in Active : f = g
        /\ Active = {} \/ QueuedCopies = {}

LandInv(m) ==
    /\ OneLeft(m) /\ OneAtMost(m) /\ Sweeping(m) /\ Swept(m)
    /\ Discarding(m) /\ Source(m) /\ Landing(m) /\ HasLanded(m)

-----------------------------------------------------------------------------
\* Lemmas about the operators.

\* A nonempty set of naturals has a least element.
LEMMA LeastNat ==
    ASSUME NEW T, T \subseteq Nat, T # {}
    PROVE  \E x \in T : \A y \in T : x <= y
<1>1. PICK x \in T : \A y \in T : <<y, x>> \notin OpToRel(<, Nat)
  BY NatLessThanWellFounded, WFMin
<1>2. ASSUME NEW y \in T PROVE x <= y
  <2>1. <<y, x>> \notin OpToRel(<, Nat)
    BY <1>1
  <2>2. x \in Nat /\ y \in Nat
    OBVIOUS
  <2>3. ~(y < x)
    BY <2>1, <2>2 DEF OpToRel
  <2> QED BY <2>2, <2>3
<1> QED BY <1>2

\* The paths in use are finitely many, one for each file.
LEMMA PathsFinite ==
    ASSUME IsFiniteSet(files)
    PROVE  IsFiniteSet(Paths)
<1> DEFINE at == [f \in files |-> Path(f)]
<1>1. at \in Surjection(files, Paths)
  BY DEF Surjection, Paths
<1> QED BY <1>1, FS_Surjection

\* At(p) is the file at p.
LEMMA FileAt ==
    ASSUME NEW p \in Paths
    PROVE  At(p) \in files /\ Path(At(p)) = p
BY DEF Paths, At

\* Of k + 1 numbers one is not among k.
LEMMA OneIsFree ==
    ASSUME NEW T, IsFiniteSet(T)
    PROVE  \E k \in 1..(Cardinality(T) + 1) : k \notin T
<1> DEFINE c == Cardinality(T)
<1>1. c \in Nat
  BY FS_CardinalityType
<1>2. SUFFICES ASSUME 1..(c + 1) \subseteq T PROVE FALSE
  OBVIOUS
<1>3. IsFiniteSet(1..(c + 1)) /\ Cardinality(1..(c + 1)) = c + 1
  BY <1>1, FS_Interval
<1>4. Cardinality(1..(c + 1)) <= c
  BY <1>2, FS_Subset
<1> QED BY <1>1, <1>3, <1>4

\* An archived copy keeps its place or gets a path that no file has.
LEMMA NameIsFree ==
    ASSUME files \subseteq Copies, IsFiniteSet(files), NEW f \in files
    PROVE  /\ ArchiveName(f) \in FolderPaths
           /\ ArchiveName(f)[1] = "archived"
           /\ ArchiveName(f) = Path(f) \/ ArchiveName(f) \notin Paths
<1> DEFINE taken == {p[3] : p \in {q \in Paths : q[1] = "archived" /\ q[2] = f.base}}
           own == <<"archived", f.base, f.nth>>
           Free(k) == k \notin taken /\ \A j \in 1..(k - 1) : j \in taken
           top == Cardinality(taken) + 1
<1>1. f.base \in Nat /\ f.nth \in Nat /\ "archived" \in Buckets
  BY DEF Copies, Buckets, Actioned
<1>2. CASE own = Path(f) \/ own \notin Paths
  <2>1. ArchiveName(f) = own
    BY <1>2 DEF ArchiveName
  <2>2. own \in FolderPaths /\ own[1] = "archived"
    BY <1>1 DEF FolderPaths
  <2> QED BY <1>2, <2>1, <2>2
<1>3. CASE ~(own = Path(f) \/ own \notin Paths)
  <2>1. IsFiniteSet(taken) /\ Cardinality(taken) \in Nat
    <3> DEFINE here == {q \in Paths : q[1] = "archived" /\ q[2] = f.base}
               third == [q \in here |-> q[3]]
    <3>1. IsFiniteSet(here)
      BY PathsFinite, FS_Subset
    <3>2. third \in Surjection(here, taken)
      BY DEF Surjection
    <3> HIDE DEF here, taken, third
    <3> QED BY <3>1, <3>2, FS_Surjection, FS_CardinalityType
  <2> HIDE DEF taken
  <2>2. \E k \in 1..top : Free(k)
    <3> DEFINE open == {k \in 1..top : k \notin taken}
    <3>1. open \subseteq Nat /\ open # {}
      BY <2>1, OneIsFree
    <3>2. PICK k \in open : \A j \in open : k <= j
      BY <3>1, LeastNat
    <3>3. ASSUME NEW j \in 1..(k - 1) PROVE j \in taken
      BY <2>1, <3>2
    <3> QED BY <3>2, <3>3
  <2> DEFINE k == CHOOSE i \in 1..top : Free(i)
  <2>3. k \in 1..top /\ Free(k)
    BY <2>2
  <2>4. ArchiveName(f) = <<"archived", f.base, k>>
    BY <1>3 DEF ArchiveName, taken
  <2> HIDE DEF k
  <2>5. k \in Nat
    BY <2>1, <2>3
  <2>6. <<"archived", f.base, k>> \notin Paths
    BY <2>3 DEF taken
  <2>7. <<"archived", f.base, k>> \in FolderPaths
    BY <1>1, <2>5 DEF FolderPaths
  <2> QED BY <2>4, <2>6, <2>7
<1> QED BY <1>2, <1>3

\* The first copy of a bucket, by name, exists when the bucket holds any.
LEMMA FirstExists ==
    ASSUME files \subseteq Copies, NEW b \in Held
    PROVE  FirstIn(b) \in Indexed /\ FirstIn(b).bucket = b
<1> DEFINE inB == {f \in Indexed : f.bucket = b}
           bases == {f.base : f \in inB}
           First(f) == f.bucket = b /\
               \A g \in Indexed : g.bucket = b =>
                   f.base < g.base \/ (f.base = g.base /\ f.nth <= g.nth)
<1>1. inB # {} /\ \A f \in inB : f.base \in Nat /\ f.nth \in Nat
  BY DEF Held, Indexed, Copies
<1>2. PICK x \in bases : \A y \in bases : x <= y
  <2>1. bases \subseteq Nat /\ bases # {}
    BY <1>1
  <2> QED BY <2>1, LeastNat
<1> DEFINE nths == {f.nth : f \in {g \in inB : g.base = x}}
<1>3. PICK y \in nths : \A z \in nths : y <= z
  <2>1. nths \subseteq Nat /\ nths # {}
    BY <1>1, <1>2
  <2> QED BY <2>1, LeastNat
<1>4. PICK f \in inB : f.base = x /\ f.nth = y
  BY <1>3
<1>5. ASSUME NEW g \in Indexed, g.bucket = b
      PROVE  f.base < g.base \/ (f.base = g.base /\ f.nth <= g.nth)
  <2>1. g \in inB /\ g.base \in bases /\ x <= g.base /\ x \in Nat /\ g.base \in Nat
    BY <1>1, <1>2, <1>5
  <2>2. CASE x < g.base
    BY <1>4, <2>2
  <2>3. CASE x = g.base
    <3>1. g.nth \in nths
      BY <2>1, <2>3
    <3> QED BY <1>3, <1>4, <2>3, <3>1
  <2> QED BY <2>1, <2>2, <2>3
<1>6. f \in Indexed /\ First(f)
  BY <1>5 DEF Rank
<1>7. FirstIn(b) = CHOOSE h \in Indexed : First(h)
  BY DEF FirstIn
<1> HIDE DEF First
<1>8. FirstIn(b) \in Indexed /\ First(FirstIn(b))
  BY <1>6, <1>7
<1> QED BY <1>8 DEF First

\* The priority lists name every bucket but the archive, the discarded one and,
\* where the target is under review or complete, the target.
LEMMA NoneListed ==
    ASSUME NEW held, NEW to \in Buckets, to \notin held,
           {i \in DOMAIN SourcePriority(to) : SourcePriority(to)[i] \in held} = {}
    PROVE  held \cap {"ready", "to_plan", "ideas", "to_triage", "in_progress", "for_review",
                      "complete", "deferred"} = {}
<1> DEFINE list == SourcePriority(to)
<1>1. \A i \in DOMAIN list : list[i] \notin held
  OBVIOUS
<1>2. CASE to = "for_review"
  <2>1. list = <<"in_progress", "ready", "to_plan", "ideas", "to_triage", "complete", "deferred">>
    BY <1>2 DEF SourcePriority
  <2>2. DOMAIN list = 1..7
    BY <2>1
  <2>3. \A i \in 1..7 : list[i] \notin held
    BY <1>1, <2>2
  <2> HIDE DEF list
  <2> QED BY <1>2, <2>1, <2>3
<1>3. CASE to = "complete"
  <2>1. list = <<"for_review", "in_progress", "ready", "to_plan", "ideas", "to_triage", "deferred">>
    BY <1>3 DEF SourcePriority
  <2>2. DOMAIN list = 1..7
    BY <2>1
  <2>3. \A i \in 1..7 : list[i] \notin held
    BY <1>1, <2>2
  <2> HIDE DEF list
  <2> QED BY <1>3, <2>1, <2>3
<1>4. CASE to \notin {"for_review", "complete"}
  <2>1. list = <<"ready", "to_plan", "ideas", "to_triage", "in_progress", "for_review",
                 "complete", "deferred">>
    BY <1>4 DEF SourcePriority
  <2>2. DOMAIN list = 1..8
    BY <2>1
  <2>3. \A i \in 1..8 : list[i] \notin held
    BY <1>1, <2>2
  <2> HIDE DEF list
  <2> QED BY <2>1, <2>3
<1> QED BY <1>2, <1>3, <1>4

\* When the list names a bucket that holds a copy, the source is such a bucket.
LEMMA SourceListed ==
    ASSUME NEW held, NEW to,
           {i \in DOMAIN SourcePriority(to) : SourcePriority(to)[i] \in held} # {}
    PROVE  \E i \in DOMAIN SourcePriority(to) :
              SourceBucket(held, to) = SourcePriority(to)[i] /\ SourcePriority(to)[i] \in held
<1> DEFINE list == SourcePriority(to)
           listed == {i \in DOMAIN list : list[i] \in held}
           first == CHOOSE k \in listed : \A j \in listed : k <= j
<1>1. DOMAIN list \subseteq Nat
  BY DEF SourcePriority
<1>2. PICK i \in listed : \A j \in listed : i <= j
  <2>1. listed \subseteq Nat /\ listed # {}
    BY <1>1
  <2> HIDE DEF listed
  <2> QED BY <2>1, LeastNat
<1>3. first \in listed
  BY <1>2
<1>4. SourceBucket(held, to) = list[first]
  BY DEF SourceBucket
<1> QED BY <1>3, <1>4

\* With copies somewhere, none further along than the target and none there,
\* the copy to move comes from a bucket that holds one.
LEMMA SourceHeld ==
    ASSUME NEW held, held # {}, held \subseteq Buckets,
           NEW to \in Buckets, to \notin held, Further(held, to) = {}
    PROVE  SourceBucket(held, to) \in held
<1> DEFINE listed == {i \in DOMAIN SourcePriority(to) : SourcePriority(to)[i] \in held}
<1>1. CASE listed # {}
  BY <1>1, SourceListed
<1>2. CASE listed = {}
  <2>1. SourceBucket(held, to) = IF "discarded" \in held THEN "discarded" ELSE "archived"
    BY <1>2 DEF SourceBucket
  <2>2. held \cap {"ready", "to_plan", "ideas", "to_triage", "in_progress", "for_review",
                   "complete", "deferred"} = {}
    BY <1>2, NoneListed
  <2> QED BY <2>1, <2>2 DEF Buckets, Queued, Actioned
<1> QED BY <1>1, <1>2

\* A copy is taken back from the discarded bucket when the ticket has none
\* elsewhere but in the archive.
LEMMA FromDiscarded ==
    ASSUME NEW held, NEW to \in Buckets, to \notin held, SourceBucket(held, to) = "discarded"
    PROVE  held \cap Actioned \subseteq {"archived"}
<1> DEFINE listed == {i \in DOMAIN SourcePriority(to) : SourcePriority(to)[i] \in held}
<1>1. \A i \in DOMAIN SourcePriority(to) : SourcePriority(to)[i] # "discarded"
  <2>1. CASE to = "for_review"
    BY <2>1 DEF SourcePriority
  <2>2. CASE to = "complete"
    BY <2>2 DEF SourcePriority
  <2>3. CASE to \notin {"for_review", "complete"}
    BY <2>3 DEF SourcePriority
  <2> QED BY <2>1, <2>2, <2>3
<1>2. listed = {}
  BY <1>1, SourceListed
<1> QED BY <1>2, NoneListed DEF Actioned

\* Of the buckets further along one is the furthest.
LEMMA FurthestExists ==
    ASSUME NEW further, further \subseteq Actioned, further # {}
    PROVE  \E b \in further : \A c \in further : Rank[c] <= Rank[b]
<1>1. CASE "archived" \in further
  BY <1>1 DEF Rank, Actioned
<1>2. CASE "archived" \notin further /\ "complete" \in further
  BY <1>2 DEF Rank, Actioned
<1>3. CASE further \cap {"archived", "complete"} = {} /\ "for_review" \in further
  BY <1>3 DEF Rank, Actioned
<1>4. CASE further \cap {"archived", "complete", "for_review"} = {} /\ "in_progress" \in further
  BY <1>4 DEF Rank, Actioned
<1>5. CASE further = {"deferred"}
  BY <1>5 DEF Rank
<1> QED BY <1>1, <1>2, <1>3, <1>4, <1>5 DEF Actioned

\* The path of a copy is a path of the folders.
LEMMA PathType ==
    ASSUME NEW f \in Copies
    PROVE  Path(f) \in FolderPaths
BY DEF Copies, Path, FolderPaths

\* Following an open file through a rename or an unlink changes where it is
\* open and nothing else.
LEMMA FollowType ==
    ASSUME NEW mv \in [Movers -> Moving], NEW from, NEW to \in FolderPaths
    PROVE  /\ Follow(mv, from, to) \in [Movers -> Moving]
           /\ \A m \in Movers :
                /\ Follow(mv, from, to)[m].stage = mv[m].stage
                /\ Follow(mv, from, to)[m].step = mv[m].step
                /\ Follow(mv, from, to)[m].todo = mv[m].todo
<1>1. NoPath \in FolderPaths
  BY DEF NoPath, FolderPaths, Buckets, Actioned
<1>2. ASSUME NEW m \in Movers
      PROVE  /\ Follow(mv, from, to)[m] \in Moving
             /\ Follow(mv, from, to)[m].stage = mv[m].stage
             /\ Follow(mv, from, to)[m].step = mv[m].step
             /\ Follow(mv, from, to)[m].todo = mv[m].todo
  <2>1. mv[m] \in Moving
    OBVIOUS
  <2>2. /\ [mv[m] EXCEPT !.open = NoPath] \in Moving
        /\ [mv[m] EXCEPT !.open = to] \in Moving
    BY <1>1, <2>1 DEF Moving
  <2>3. Follow(mv, from, to)[m] \in {mv[m], [mv[m] EXCEPT !.open = NoPath], [mv[m] EXCEPT !.open = to]}
    BY DEF Follow
  <2>4. \A p : /\ [mv[m] EXCEPT !.open = p].stage = mv[m].stage
               /\ [mv[m] EXCEPT !.open = p].step = mv[m].step
               /\ [mv[m] EXCEPT !.open = p].todo = mv[m].todo
    BY <2>1 DEF Moving
  <2> QED BY <2>1, <2>2, <2>3, <2>4
<1>3. DOMAIN Follow(mv, from, to) = Movers
  BY DEF Follow
<1>4. Follow(mv, from, to) \in [Movers -> Moving]
  BY <1>2, <1>3 DEF Follow
<1> QED BY <1>2, <1>4

\* Nothing changes when no other mover has a file open for writing.
LEMMA NobodyWriting ==
    ASSUME NEW mv \in [Movers -> Moving], NEW from, NEW to,
           \A n \in Movers : mv[n].step \notin {"writing", "recording"}
    PROVE  Follow(mv, from, to) = mv
BY DEF Follow

-----------------------------------------------------------------------------
\* The types.

\* What a pass picks is a set of paths.
LEMMA PickedPaths ==
    ASSUME files \subseteq Copies
    PROVE  RepairDuplicates \subseteq FolderPaths /\ SweepDuplicates \subseteq FolderPaths
<1>1. \A f \in files : Path(f) \in FolderPaths
  BY PathType
<1>2. Canonical \subseteq files /\ Indexed \subseteq files
  BY DEF Canonical, Indexed
<1> QED BY <1>1, <1>2 DEF RepairDuplicates, SweepDuplicates

\* A new value of one mover leaves every mover typed.
LEMMA OneMover ==
    ASSUME Typed, NEW m \in Movers, NEW r \in Moving, StandsRight(r),
           mover' = [mover EXCEPT ![m] = r]
    PROVE  mover' \in [Movers -> Moving] /\ \A n \in Movers : StandsRight(mover[n])'
<1>1. mover \in [Movers -> Moving] /\ \A n \in Movers : StandsRight(mover[n])
  BY DEF Typed
<1>2. mover' \in [Movers -> Moving]
  BY <1>1
<1>3. ASSUME NEW n \in Movers PROVE StandsRight(mover[n])'
  <2>1. mover'[n] = IF n = m THEN r ELSE mover[n]
    BY <1>1
  <2>2. StandsRight(mover'[n])
    BY <1>1, <2>1
  <2> QED BY <2>2 DEF StandsRight, Placing
<1> QED BY <1>2, <1>3

\* The values a mover takes are typed.
LEMMA IdleType == Idle \in Moving /\ NoFile \in Copies /\ NoPath \in FolderPaths
<1>1. NoFile \in Copies
  BY DEF NoFile, Copies, Buckets, Actioned
<1>2. NoPath \in FolderPaths
  BY DEF NoPath, FolderPaths, Buckets, Actioned
<1> QED BY <1>1, <1>2 DEF Idle, Moving, Stages, AtRest, Buckets, Queued

\* A mover that fails is typed.
LEMMA FailTyped ==
    ASSUME Typed, NEW m \in Movers, Fail(m)
    PROVE  mover' \in [Movers -> Moving] /\ \A n \in Movers : StandsRight(mover[n])'
<1> DEFINE r == [Idle EXCEPT !.stage = "failed", !.to = mover[m].to]
<1>1. mover[m].to \in Buckets
  BY DEF Typed, Moving
<1>2. r \in Moving /\ r.stage = "failed" /\ r.step = "scan" /\ r.todo = {}
  BY <1>1, IdleType DEF Idle, Moving, Stages, AtRest
<1>3. StandsRight(r)
  BY <1>2 DEF StandsRight, AtRest, Placing
<1>4. mover' = [mover EXCEPT ![m] = r]
  BY DEF Fail
<1> HIDE DEF r
<1> QED BY <1>2, <1>3, <1>4, OneMover

\* The folders at first, with every mover at rest.
LEMMA InitTyped == Init => Typed
<1> SUFFICES ASSUME Init PROVE Typed
  OBVIOUS
<1>1. files \subseteq Copies /\ IsFiniteSet(files) /\ OnePerPath
  BY StartAssumption DEF Init, OnePerPath
<1>2. mover \in [Movers -> Moving] /\ \A m \in Movers : StandsRight(mover[m])
  <2>1. StandsRight(Idle)
    BY DEF StandsRight, Placing, Idle
  <2> QED BY <2>1, IdleType DEF Init
<1>3. moves \in 0..MaxMoves /\ crashes \in 0..MaxCrashes /\ calm \in BOOLEAN
  BY BoardAssumption DEF Init
<1> QED BY <1>1, <1>2, <1>3 DEF Typed

\* Starting a move.
LEMMA StartTyped ==
    ASSUME Typed, NEW m \in Movers, NEW to \in Targets, NEW rec \in BOOLEAN, Start(m, to, rec)
    PROVE  Typed'
<1> DEFINE r == [Idle EXCEPT !.stage = "repair", !.to = to, !.rec = rec]
<1>1. r \in Moving /\ r.stage = "repair" /\ r.step = "scan" /\ r.todo = {}
  BY IdleType, BoardAssumption DEF Idle, Moving, Stages, Repairs
<1>2. StandsRight(r)
  BY <1>1 DEF StandsRight, AtRest, Placing
<1>3. mover' = [mover EXCEPT ![m] = r]
  BY DEF Start
<1> HIDE DEF r
<1>4. mover' \in [Movers -> Moving] /\ \A n \in Movers : StandsRight(mover[n])'
  BY <1>1, <1>2, <1>3, OneMover
<1>5. moves' \in 0..MaxMoves
  BY BoardAssumption DEF Start, Typed
<1> QED BY <1>4, <1>5 DEF Start, Typed, OnePerPath

\* The scan of a pass.
LEMMA ScanTyped ==
    ASSUME Typed, NEW m \in Movers, Scan(m)
    PROVE  Typed'
<1>1. mover' \in [Movers -> Moving] /\ \A n \in Movers : StandsRight(mover[n])'
  <2>1. CASE Fail(m)
    BY <2>1, FailTyped
  <2>2. ASSUME NEW todo \in {RepairDuplicates, SweepDuplicates},
               mover' = [mover EXCEPT ![m].step = "archive", ![m].todo = todo]
        PROVE  mover' \in [Movers -> Moving] /\ \A n \in Movers : StandsRight(mover[n])'
    <3> DEFINE r == [mover[m] EXCEPT !.step = "archive", !.todo = todo]
    <3>1. todo \in SUBSET FolderPaths
      BY PickedPaths DEF Typed
    <3>2. r \in Moving /\ r.stage = mover[m].stage /\ r.step = "archive"
      BY <3>1 DEF Typed, Moving
    <3>3. StandsRight(r)
      BY <3>2 DEF Scan, StandsRight, AtRest, Repairs, Sweeps, Placing
    <3>4. mover' = [mover EXCEPT ![m] = r]
      BY <2>2 DEF Typed
    <3> HIDE DEF r
    <3> QED BY <3>2, <3>3, <3>4, OneMover
  <2> QED BY <2>1, <2>2 DEF Scan
<1>2. calm' \in BOOLEAN
  BY DEF Scan, Look, Typed
<1> QED BY <1>1, <1>2 DEF Scan, Typed, OnePerPath

\* The end of a pass.
LEMMA PassEndsTyped ==
    ASSUME Typed, NEW m \in Movers, PassEnds(m)
    PROVE  Typed'
<1>1. mover' \in [Movers -> Moving] /\ \A n \in Movers : StandsRight(mover[n])'
  <2>1. CASE Fail(m)
    BY <2>1, FailTyped
  <2>2. CASE Goto(m, NextStage[mover[m].stage])
    <3> DEFINE stage == NextStage[mover[m].stage]
               r == [mover[m] EXCEPT !.stage = stage, !.step = "scan", !.todo = {}]
    <3>1. stage \in Stages /\ stage # "discard"
      BY DEF PassEnds, NextStage, Stages, Repairs, Sweeps, AtRest
    <3>2. r \in Moving /\ r.stage = stage /\ r.step = "scan" /\ r.todo = {}
      BY <3>1 DEF Typed, Moving
    <3>3. StandsRight(r)
      BY <3>1, <3>2 DEF StandsRight, Placing
    <3>4. mover' = [mover EXCEPT ![m] = r]
      BY <2>2 DEF Goto, Typed
    <3> HIDE DEF r
    <3> QED BY <3>2, <3>3, <3>4, OneMover
  <2> QED BY <2>1, <2>2 DEF PassEnds
<1>2. calm' \in BOOLEAN
  BY DEF PassEnds, Look, Typed
<1> QED BY <1>1, <1>2 DEF PassEnds, Typed, OnePerPath

\* A file written at a path replaces the one that was there.
LEMMA ReplacedTyped ==
    ASSUME files \subseteq Copies, IsFiniteSet(files), OnePerPath,
           NEW f \in Copies, NEW p, Path(f) = p
    PROVE  /\ Replaced(p, f) \subseteq Copies /\ IsFiniteSet(Replaced(p, f))
           /\ \A g, h \in Replaced(p, f) : Path(g) = Path(h) => g = h
<1> DEFINE rest == {g \in files : Path(g) # p}
<1>1. IsFiniteSet(rest)
  BY FS_Subset
<1>2. Replaced(p, f) = rest \cup {f}
  BY DEF Replaced
<1>3. IsFiniteSet(Replaced(p, f))
  <2> HIDE DEF rest
  <2> QED BY <1>1, <1>2, FS_AddElement
<1> QED BY <1>2, <1>3 DEF OnePerPath

\* A file cut short, one with a new block and one at another path are copies,
\* of the same text and kind.
LEMMA CutType ==
    ASSUME NEW f \in Copies, NEW cut \in Cuts
    PROVE  /\ Cut(f, cut) \in Copies /\ Path(Cut(f, cut)) = Path(f)
           /\ Cut(f, cut).text = f.text /\ Cut(f, cut).kind = f.kind
           /\ Cut(f, cut).bucket = f.bucket
           /\ ~IsRelation(Cut(f, cut)) /\ Cut(f, cut).block \in {"none", "open"}
           /\ IsGenerated(Cut(f, cut)) => IsGenerated(f)
           /\ Cut(f, cut).body # "whole" \/ Cut(f, cut).block = "open"
<1>1. CASE cut = "early"
  <2>1. Cut(f, cut) = [f EXCEPT !.body = "early", !.block = "none"]
    BY <1>1 DEF Cut
  <2> QED BY <2>1 DEF Copies, Path, IsRelation, IsGenerated
<1>2. CASE cut = "late"
  <2>1. Cut(f, cut) = [f EXCEPT !.body = IF @ = "early" THEN "early" ELSE "late",
                                !.block = "none"]
    BY <1>2 DEF Cut
  <2> QED BY <2>1 DEF Copies, Path, IsRelation, IsGenerated
<1>3. CASE cut = "inside"
  <2>1. Cut(f, cut) = [f EXCEPT !.block = "open"]
    BY <1>3 DEF Cut
  <2> QED BY <2>1 DEF Copies, Path, IsRelation, IsGenerated
<1> QED BY <1>1, <1>2, <1>3 DEF Cuts

LEMMA WithBlockType ==
    ASSUME NEW f \in Copies, NEW block \in {"outcome", "plan_copy"}
    PROVE  /\ WithBlock(f, block) \in Copies /\ Path(WithBlock(f, block)) = Path(f)
           /\ WithBlock(f, block).text = f.text /\ WithBlock(f, block).kind = f.kind
           /\ WithBlock(f, block).bucket = f.bucket /\ WithBlock(f, block).body = f.body
           /\ WithBlock(f, block).block = IF f.block = "open" THEN "broken" ELSE block
           /\ IsGenerated(WithBlock(f, block)) <=> IsGenerated(f)
<1>1. WithBlock(f, block) = [f EXCEPT !.block = IF @ = "open" THEN "broken" ELSE block]
  BY DEF WithBlock
<1> QED BY <1>1 DEF Copies, Path, IsGenerated

LEMMA PlacedType ==
    ASSUME NEW f \in Copies, NEW p \in FolderPaths
    PROVE  /\ PlacedAt(f, p) \in Copies /\ Path(PlacedAt(f, p)) = p
           /\ PlacedAt(f, p).text = f.text /\ PlacedAt(f, p).kind = f.kind
           /\ PlacedAt(f, p).bucket = p[1]
           /\ PlacedAt(f, p).body = f.body /\ PlacedAt(f, p).block = f.block
           /\ IsRelation(PlacedAt(f, p)) <=> IsRelation(f)
           /\ IsGenerated(PlacedAt(f, p)) <=> IsGenerated(f)
<1>1. p[1] \in Buckets /\ p[2] \in Nat /\ p[3] \in Nat /\ p = <<p[1], p[2], p[3]>>
  BY DEF FolderPaths
<1>2. PlacedAt(f, p) = [f EXCEPT !.bucket = p[1], !.base = p[2], !.nth = p[3]]
  BY DEF PlacedAt
<1> QED BY <1>1, <1>2 DEF Copies, Path, IsRelation, IsGenerated

\* A copy placed where it is stays as it is.
LEMMA PlacedInPlace ==
    ASSUME NEW f \in Copies
    PROVE  PlacedAt(f, Path(f)) = f
BY DEF PlacedAt, Path, Copies

\* The archive copy of what was read.
LEMMA FilledType ==
    ASSUME Typed, NEW m \in Movers
    PROVE  /\ Filled(m) \in Copies /\ Path(Filled(m)) = mover[m].dest
           /\ Filled(m).text = mover[m].read.text /\ Filled(m).kind = mover[m].read.kind
           /\ Filled(m).bucket = mover[m].dest[1] /\ Filled(m).body = mover[m].read.body
           /\ IsRelation(Filled(m)) \/ Filled(m).block = "broken"
           /\ Filled(m).block = "broken" <=> mover[m].read.block = "open"
<1>1. mover[m].read \in Copies /\ mover[m].dest \in FolderPaths
  BY DEF Typed, Moving
<1> DEFINE w == WithBlock(mover[m].read, "plan_copy")
<1>2. /\ w \in Copies /\ w.text = mover[m].read.text /\ w.kind = mover[m].read.kind
      /\ w.body = mover[m].read.body
      /\ w.block = IF mover[m].read.block = "open" THEN "broken" ELSE "plan_copy"
  BY <1>1, WithBlockType
<1>3. Filled(m) = PlacedAt(w, mover[m].dest)
  BY DEF Filled
<1> HIDE DEF w
<1> QED BY <1>1, <1>2, <1>3, PlacedType DEF IsRelation

\* Choosing the destination, or passing over a source that is gone.
LEMMA ReadSourceTyped ==
    ASSUME Typed, NEW m \in Movers, NEW p \in mover[m].todo, ReadSource(m, p)
    PROVE  Typed'
<1>0. mover[m] \in Moving /\ StandsRight(mover[m]) /\ mover[m].step = "archive"
  BY DEF Typed, ReadSource
<1>1. mover' \in [Movers -> Moving] /\ \A n \in Movers : StandsRight(mover[n])'
  <2>1. CASE Fail(m)
    BY <2>1, FailTyped
  <2>2. CASE p \in Paths
    <3> DEFINE r == [mover[m] EXCEPT !.step = "write", !.read = At(p), !.dest = ArchiveName(At(p))]
    <3>1. At(p) \in Copies /\ ArchiveName(At(p)) \in FolderPaths
      BY <2>2, FileAt, NameIsFree DEF Typed
    <3>2. r \in Moving /\ r.stage = mover[m].stage /\ r.step = "write"
      BY <1>0, <3>1 DEF Moving
    <3>3. StandsRight(r)
      BY <1>0, <3>2 DEF StandsRight, Placing
    <3>4. mover' = [mover EXCEPT ![m] = r]
      BY <2>2 DEF ReadSource, Typed
    <3> HIDE DEF r
    <3> QED BY <3>2, <3>3, <3>4, OneMover
  <2>3. CASE mover' = [mover EXCEPT ![m].todo = @ \ {p}]
    <3> DEFINE r == [mover[m] EXCEPT !.todo = @ \ {p}]
    <3>1. r \in Moving /\ r.stage = mover[m].stage /\ r.step = mover[m].step
      BY <1>0 DEF Moving
    <3>2. StandsRight(r)
      BY <1>0, <3>1 DEF StandsRight, Placing
    <3>3. mover' = [mover EXCEPT ![m] = r]
      BY <2>3 DEF Typed
    <3> HIDE DEF r
    <3> QED BY <3>1, <3>2, <3>3, OneMover
  <2> QED BY <2>1, <2>2, <2>3 DEF ReadSource
<1> QED BY <1>1 DEF ReadSource, Typed, OnePerPath

\* Opening the destination.
LEMMA CutTyped ==
    ASSUME Typed, NEW m \in Movers, NEW cut \in Cuts, CutDestination(m, cut)
    PROVE  Typed'
<1>0. mover[m] \in Moving /\ StandsRight(mover[m]) /\ mover[m].step = "write"
  BY DEF Typed, CutDestination
<1>1. files' \subseteq Copies /\ IsFiniteSet(files') /\ OnePerPath'
  <2> DEFINE f == PlacedAt(Cut(mover[m].read, cut), mover[m].dest)
  <2>1. mover[m].read \in Copies /\ mover[m].dest \in FolderPaths
    BY <1>0 DEF Moving
  <2>2. f \in Copies /\ Path(f) = mover[m].dest
    BY <2>1, CutType, PlacedType
  <2>3. files' = Replaced(mover[m].dest, f)
    BY DEF CutDestination
  <2> HIDE DEF f
  <2> QED BY <2>2, <2>3, ReplacedTyped DEF Typed, OnePerPath
<1>2. mover' \in [Movers -> Moving] /\ \A n \in Movers : StandsRight(mover[n])'
  <2> DEFINE r == [mover[m] EXCEPT !.step = "writing", !.open = mover[m].dest]
  <2>1. r \in Moving /\ r.stage = mover[m].stage /\ r.step = "writing"
    BY <1>0 DEF Moving
  <2>2. StandsRight(r)
    BY <1>0, <2>1 DEF StandsRight, Placing
  <2>3. mover' = [mover EXCEPT ![m] = r]
    BY DEF CutDestination, Typed
  <2> HIDE DEF r
  <2> QED BY <2>1, <2>2, <2>3, OneMover
<1> QED BY <1>1, <1>2 DEF CutDestination, Typed

\* The rest of the bytes go into the file that was opened, if it is anywhere.
LEMMA RestTyped ==
    ASSUME Typed, NEW m \in Movers, NEW f \in Copies, Rest(m, f)
    PROVE  files' \subseteq Copies /\ IsFiniteSet(files') /\ OnePerPath'
<1> DEFINE o == mover[m].open
           placed == PlacedAt(f, o)
<1>1. o \in FolderPaths
  BY DEF Typed, Moving
<1>2. placed \in Copies /\ Path(placed) = o
  BY <1>1, PlacedType
<1>3. files' = Replaced(o, placed) \/ files' = files
  BY DEF Rest
<1> HIDE DEF placed, o
<1> QED BY <1>2, <1>3, ReplacedTyped DEF Typed, OnePerPath

\* Writing the rest of an archive copy.
LEMMA FillTyped ==
    ASSUME Typed, NEW m \in Movers, FillDestination(m)
    PROVE  Typed'
<1>0. mover[m] \in Moving /\ StandsRight(mover[m]) /\ mover[m].step = "writing"
  BY DEF Typed, FillDestination
<1>1. files' \subseteq Copies /\ IsFiniteSet(files') /\ OnePerPath'
  BY FilledType, RestTyped DEF FillDestination
<1>2. mover' \in [Movers -> Moving] /\ \A n \in Movers : StandsRight(mover[n])'
  <2> DEFINE r == [mover[m] EXCEPT !.step = "written", !.open = NoPath]
  <2>1. r \in Moving /\ r.stage = mover[m].stage /\ r.step = "written"
    BY <1>0, IdleType DEF Moving
  <2>2. StandsRight(r)
    BY <1>0, <2>1 DEF StandsRight, Placing
  <2>3. mover' = [mover EXCEPT ![m] = r]
    BY DEF FillDestination, Typed
  <2> HIDE DEF r
  <2> QED BY <2>1, <2>2, <2>3, OneMover
<1> QED BY <1>1, <1>2 DEF FillDestination, Typed

\* Removing the source.
LEMMA RemoveTyped ==
    ASSUME Typed, NEW m \in Movers, RemoveSource(m)
    PROVE  Typed'
<1> DEFINE p == Path(mover[m].read)
           r == [mover[m] EXCEPT !.step = "archive", !.todo = @ \ {p}]
           done == [mover EXCEPT ![m].step = "archive", ![m].todo = @ \ {p}]
           gone == {f \in files : Path(f) # p}
<1>0. mover[m] \in Moving /\ StandsRight(mover[m]) /\ mover[m].step = "written"
  BY DEF Typed, RemoveSource
<1>1. done \in [Movers -> Moving] /\ \A n \in Movers : StandsRight(done[n])
  <2>1. r \in Moving /\ r.stage = mover[m].stage /\ r.step = "archive"
    BY <1>0 DEF Moving
  <2>2. StandsRight(r)
    BY <1>0, <2>1 DEF StandsRight, Placing
  <2>3. done = [mover EXCEPT ![m] = r]
    BY DEF Typed
  <2> HIDE DEF r, done
  <2> QED BY <2>1, <2>2, <2>3 DEF Typed
<1>2. /\ files' = files \/ files' = gone
      /\ mover' = done \/ mover' = Follow(done, p, NoPath) \/ Fail(m)
  BY DEF RemoveSource
<1>3. files' \subseteq Copies /\ IsFiniteSet(files') /\ OnePerPath'
  <2>1. IsFiniteSet(gone)
    BY FS_Subset DEF Typed
  <2> QED BY <1>2, <2>1 DEF Typed, OnePerPath
<1>4. mover' \in [Movers -> Moving] /\ \A n \in Movers : StandsRight(mover[n])'
  <2> HIDE DEF done
  <2>1. CASE Fail(m)
    BY <2>1, FailTyped
  <2>2. CASE mover' = done
    BY <1>1, <2>2 DEF StandsRight, Placing
  <2>3. CASE mover' = Follow(done, p, NoPath)
    BY <1>1, <2>3, IdleType, FollowType DEF StandsRight, Placing
  <2> QED BY <1>2, <2>1, <2>2, <2>3
<1> QED BY <1>3, <1>4 DEF RemoveSource, Typed

\* The copy that a move renames: an indexed one of another bucket.
LEMMA SourceFound ==
    ASSUME Typed, NEW to \in Buckets, Indexed # {}, Further(Held, to) = {}, to \notin Held
    PROVE  LET b == SourceBucket(Held, to)
               src == FirstIn(b)
           IN  b \in Held /\ src \in Indexed /\ src.bucket = b /\ b # to
<1>1. Held # {} /\ Held \subseteq Buckets
  BY DEF Held, Indexed, Typed, Copies
<1>2. SourceBucket(Held, to) \in Held
  BY <1>1, SourceHeld
<1> QED BY <1>2, FirstExists DEF Typed

\* What the placing stage decides.
PlaceReturns(m) ==
    \E b \in Held, read \in Copies :
        /\ b \in {mover[m].to} \cup Further(Buckets, mover[m].to)
        /\ mover' = [mover EXCEPT ![m].stage = "returned", ![m].got = Path(FirstIn(b)),
                                  ![m].read = read]
PlaceDiscards(m) ==
    /\ mover[m].to = "discarded" /\ "discarded" \in Held
    /\ mover' = [mover EXCEPT
           ![m].got = Path(FirstIn("discarded")), ![m].read = FirstIn("discarded"),
           ![m].stage = "discard", ![m].step = "archive",
           ![m].todo = {Path(f) : f \in {g \in Indexed : g.bucket # "discarded"}}]
PlaceOutcome(m) ==
    /\ mover[m].to = "complete" /\ "complete" \in Held
    /\ mover' = [mover EXCEPT ![m].got = Path(FirstIn("complete")),
                              ![m].read = FirstIn("complete"), ![m].step = "outcome"]
PlaceMoves(m) ==
    /\ mover[m].to \notin Held /\ Further(Held, mover[m].to) = {}
    /\ \E src \in Indexed :
          /\ src.bucket = SourceBucket(Held, mover[m].to) /\ src.bucket # mover[m].to
          /\ mover' = [mover EXCEPT
                 ![m].step = IF mover[m].to = "complete" THEN "outcome" ELSE "rename",
                 ![m].read = src]

\* The placing stage fails, returns a copy further along or in place, starts
\* the discard, or takes a copy to give its outcome or to rename.
LEMMA PlaceCases ==
    ASSUME Typed, NEW m \in Movers, Place(m)
    PROVE  Fail(m) \/ PlaceReturns(m) \/ PlaceDiscards(m) \/ PlaceOutcome(m) \/ PlaceMoves(m)
<1> DEFINE to == mover[m].to
           further == Further(Held, to)
           best == CHOOSE b \in further : \A c \in further : Rank[c] <= Rank[b]
<1>0. /\ mover[m] \in Moving /\ to \in Buckets /\ mover \in [Movers -> Moving]
      /\ mover[m].stage = "place" /\ mover[m].step = "scan" /\ mover[m].todo = {}
  <2>1. mover[m] \in Moving /\ mover \in [Movers -> Moving]
        /\ mover[m].stage = "place" /\ mover[m].step = "scan"
    BY DEF Typed, Place
  <2>2. StandsRight(mover[m])
    BY DEF Typed
  <2> QED BY <2>1, <2>2 DEF Moving, StandsRight
<1>1. CASE Ambiguous \/ Indexed = {}
  BY <1>1 DEF Place
<1>2. CASE ~(Ambiguous \/ Indexed = {}) /\ further # {}
  <2>1. further \subseteq Actioned /\ further \subseteq Held /\ further \subseteq Further(Buckets, to)
    BY DEF Further, Buckets
  <2>2. \E b \in further : \A c \in further : Rank[c] <= Rank[b]
    <3> HIDE DEF further
    <3> QED BY <1>2, <2>1, FurthestExists
  <2>3. best \in Held /\ best \in Further(Buckets, to)
    BY <2>1, <2>2
  <2>4. mover' = [mover EXCEPT ![m].stage = "returned", ![m].got = Path(FirstIn(best))]
    BY <1>2 DEF Place
  <2> DEFINE got == Path(FirstIn(best))
  <2>5. mover' = [mover EXCEPT ![m].stage = "returned", ![m].got = got,
                               ![m].read = mover[m].read]
    <3> HIDE DEF got
    <3>1. mover' = [mover EXCEPT ![m].stage = "returned", ![m].got = got]
      BY <2>4 DEF got
    <3> QED BY <1>0, <3>1, ZenonT(60) DEF Moving
  <2>6. mover[m].read \in Copies
    BY <1>0 DEF Moving
  <2> QED BY <2>3, <2>5, <2>6 DEF PlaceReturns
<1>3. CASE ~(Ambiguous \/ Indexed = {}) /\ further = {} /\ to \in Held
  <2>1. mover' = [mover EXCEPT
                     ![m].got = Path(FirstIn(to)), ![m].read = FirstIn(to),
                     ![m].stage = CASE to = "discarded" -> "discard"
                                    [] to = "complete" -> "place"
                                    [] OTHER -> "returned",
                     ![m].step = CASE to = "discarded" -> "archive"
                                   [] to = "complete" -> "outcome"
                                   [] OTHER -> "scan",
                     ![m].todo = IF to = "discarded"
                                 THEN {Path(f) : f \in {g \in Indexed : g.bucket # to}}
                                 ELSE {}]
    BY <1>3 DEF Place
  <2>2. CASE to = "discarded"
    BY <1>3, <2>1, <2>2 DEF PlaceDiscards
  <2>3. CASE to = "complete"
    <3> DEFINE got == Path(FirstIn(to))
               read == FirstIn(to)
    <3>1. mover' = [mover EXCEPT ![m].got = got, ![m].read = read, ![m].stage = "place",
                                 ![m].step = "outcome", ![m].todo = {}]
      BY <2>1, <2>3
    <3>2. mover' = [mover EXCEPT ![m].got = got, ![m].read = read, ![m].step = "outcome"]
      <4> HIDE DEF got, read
      <4> QED BY <1>0, <3>1, ZenonT(60) DEF Moving
    <3> QED BY <1>3, <2>3, <3>2 DEF PlaceOutcome
  <2>4. CASE to \notin {"discarded", "complete"}
    <3> DEFINE got == Path(FirstIn(to))
               read == FirstIn(to)
    <3>1. mover' = [mover EXCEPT ![m].got = got, ![m].read = read, ![m].stage = "returned",
                                 ![m].step = "scan", ![m].todo = {}]
      BY <2>1, <2>4
    <3>2. mover' = [mover EXCEPT ![m].stage = "returned", ![m].got = got, ![m].read = read]
      <4> HIDE DEF got, read
      <4> QED BY <1>0, <3>1, ZenonT(60) DEF Moving
    <3>3. read \in Copies
      BY <1>3, FirstExists DEF Typed, Indexed
    <3> QED BY <1>3, <3>2, <3>3 DEF PlaceReturns
  <2> QED BY <2>2, <2>3, <2>4
<1>4. CASE ~(Ambiguous \/ Indexed = {}) /\ further = {} /\ to \notin Held
  <2> DEFINE src == FirstIn(SourceBucket(Held, to))
  <2>1. src \in Indexed /\ src.bucket = SourceBucket(Held, to) /\ src.bucket # to
    BY <1>0, <1>4, SourceFound
  <2>2. mover' = [mover EXCEPT ![m].step = IF to = "complete" THEN "outcome" ELSE "rename",
                               ![m].read = src]
    BY <1>4 DEF Place
  <2> QED BY <1>4, <2>1, <2>2 DEF PlaceMoves
<1> QED BY <1>1, <1>2, <1>3, <1>4

\* Placing.
LEMMA PlaceTyped ==
    ASSUME Typed, NEW m \in Movers, Place(m)
    PROVE  Typed'
<1>0. /\ mover \in [Movers -> Moving] /\ mover[m] \in Moving /\ files \subseteq Copies
      /\ mover[m].stage = "place" /\ mover[m].step = "scan" /\ mover[m].todo = {}
  <2>1. mover \in [Movers -> Moving] /\ mover[m] \in Moving /\ StandsRight(mover[m])
    BY DEF Typed
  <2> QED BY <2>1 DEF Typed, Place, StandsRight
<1>a. \A b \in Held : FirstIn(b) \in Copies /\ Path(FirstIn(b)) \in FolderPaths
  BY <1>0, FirstExists, PathType DEF Indexed
<1>1. mover' \in [Movers -> Moving] /\ \A n \in Movers : StandsRight(mover[n])'
  <2>1. CASE Fail(m)
    BY <2>1, FailTyped
  <2>2. CASE PlaceReturns(m)
    <3>1. PICK b \in Held, read \in Copies :
            mover' = [mover EXCEPT ![m].stage = "returned", ![m].got = Path(FirstIn(b)),
                                   ![m].read = read]
      BY <2>2 DEF PlaceReturns
    <3> DEFINE got == Path(FirstIn(b))
    <3>2. got \in FolderPaths
      BY <1>a
    <3>3. mover' = [mover EXCEPT ![m].stage = "returned", ![m].got = got, ![m].read = read]
      BY <3>1
    <3> HIDE DEF got
    <3> DEFINE r == [mover[m] EXCEPT !.stage = "returned", !.got = got, !.read = read]
    <3>4. r \in Moving /\ r.stage = "returned" /\ r.step = "scan" /\ r.todo = {}
      BY <1>0, <3>2 DEF Moving, Stages, AtRest
    <3>5. StandsRight(r)
      BY <3>4 DEF StandsRight, AtRest, Placing
    <3>6. mover' = [mover EXCEPT ![m] = r]
      BY <1>0, <3>3
    <3> HIDE DEF r
    <3> QED BY <3>4, <3>5, <3>6, OneMover
  <2>3. CASE PlaceDiscards(m)
    <3> DEFINE todo == {Path(f) : f \in {g \in Indexed : g.bucket # "discarded"}}
               got == Path(FirstIn("discarded"))
               read == FirstIn("discarded")
               d == [mover[m] EXCEPT !.got = got, !.read = read, !.stage = "discard",
                                     !.step = "archive", !.todo = todo]
    <3>1. got \in FolderPaths /\ read \in Copies
      BY <1>a, <2>3 DEF PlaceDiscards
    <3>2. todo \in SUBSET FolderPaths
      BY <1>0, PathType DEF Indexed
    <3>3. mover' = [mover EXCEPT ![m] = d]
      BY <1>0, <2>3 DEF PlaceDiscards
    <3> HIDE DEF got, todo, read
    <3>4. d \in Moving /\ d.stage = "discard" /\ d.step = "archive"
      BY <1>0, <3>1, <3>2 DEF Moving, Stages
    <3>5. StandsRight(d)
      BY <3>4 DEF StandsRight, AtRest, Placing
    <3> HIDE DEF d
    <3> QED BY <3>3, <3>4, <3>5, OneMover
  <2>4. CASE PlaceOutcome(m)
    <3> DEFINE got == Path(FirstIn("complete"))
               read == FirstIn("complete")
    <3>1. got \in FolderPaths /\ read \in Copies
      BY <1>a, <2>4 DEF PlaceOutcome
    <3>2. mover' = [mover EXCEPT ![m].got = got, ![m].read = read, ![m].step = "outcome"]
      BY <2>4 DEF PlaceOutcome
    <3> HIDE DEF got, read
    <3> DEFINE r == [mover[m] EXCEPT !.got = got, !.read = read, !.step = "outcome"]
    <3>3. r \in Moving /\ r.stage = "place" /\ r.step = "outcome" /\ r.todo = {}
      BY <1>0, <3>1 DEF Moving, Placing
    <3>4. StandsRight(r)
      BY <3>3 DEF StandsRight, AtRest, Placing
    <3>5. mover' = [mover EXCEPT ![m] = r]
      BY <1>0, <3>2
    <3> HIDE DEF r
    <3> QED BY <3>3, <3>4, <3>5, OneMover
  <2>5. CASE PlaceMoves(m)
    <3>1. PICK src \in Indexed, step \in {"outcome", "rename"} :
            mover' = [mover EXCEPT ![m].step = step, ![m].read = src]
      BY <2>5 DEF PlaceMoves
    <3>2. src \in Copies
      BY <1>0 DEF Indexed
    <3> DEFINE r == [mover[m] EXCEPT !.step = step, !.read = src]
    <3>3. r \in Moving /\ r.stage = "place" /\ r.step = step /\ r.todo = {}
      BY <1>0, <3>1, <3>2 DEF Moving, Placing
    <3>4. StandsRight(r)
      BY <3>3 DEF StandsRight, AtRest, Placing
    <3>5. mover' = [mover EXCEPT ![m] = r]
      BY <1>0, <3>1
    <3> HIDE DEF r
    <3> QED BY <3>3, <3>4, <3>5, OneMover
  <2> QED BY <2>1, <2>2, <2>3, <2>4, <2>5, PlaceCases
<1>2. calm' \in BOOLEAN
  BY DEF Place, Look, Typed
<1> QED BY <1>1, <1>2 DEF Place, Typed, OnePerPath

\* What follows the outcome record.
LEMMA GoTyped ==
    ASSUME Typed, NEW m \in Movers, mover[m].stage = "place", NEW f \in Copies, Go(m, f)
    PROVE  mover' \in [Movers -> Moving] /\ \A n \in Movers : StandsRight(mover[n])'
<1>1. /\ mover \in [Movers -> Moving] /\ mover[m] \in Moving /\ mover[m].todo = {}
      /\ NoPath \in FolderPaths
  BY IdleType DEF Typed, StandsRight
<1>2. CASE f.bucket = mover[m].to
  <2> DEFINE r == [mover[m] EXCEPT !.stage = "returned", !.step = "scan", !.read = f,
                                   !.open = NoPath]
  <2>1. r \in Moving /\ r.stage = "returned" /\ r.step = "scan" /\ r.todo = {}
    BY <1>1 DEF Moving, Stages, AtRest
  <2>2. StandsRight(r)
    BY <2>1 DEF StandsRight, AtRest, Placing
  <2>3. mover' = [mover EXCEPT ![m] = r]
    BY <1>1, <1>2 DEF Go
  <2> HIDE DEF r
  <2> QED BY <2>1, <2>2, <2>3, OneMover
<1>3. CASE f.bucket # mover[m].to
  <2> DEFINE r == [mover[m] EXCEPT !.stage = "place", !.step = "rename", !.read = f,
                                   !.open = NoPath]
  <2>1. r \in Moving /\ r.stage = "place" /\ r.step = "rename" /\ r.todo = {}
    BY <1>1 DEF Moving, Stages, Placing
  <2>2. StandsRight(r)
    BY <2>1 DEF StandsRight, AtRest, Placing
  <2>3. mover' = [mover EXCEPT ![m] = r]
    BY <1>1, <1>3 DEF Go
  <2> HIDE DEF r
  <2> QED BY <2>1, <2>2, <2>3, OneMover
<1> QED BY <1>2, <1>3

\* Reading the outcome of the copy.
LEMMA ReadOutcomeTyped ==
    ASSUME Typed, NEW m \in Movers, ReadOutcome(m)
    PROVE  Typed'
<1> DEFINE p == Path(mover[m].read)
<1>0. /\ mover \in [Movers -> Moving] /\ mover[m] \in Moving /\ mover[m].step = "outcome"
      /\ mover[m].stage = "place" /\ mover[m].todo = {}
  BY DEF Typed, ReadOutcome, StandsRight, Placing
<1>1. p \in Paths => At(p) \in Copies
  BY FileAt DEF Typed
<1>2. mover' \in [Movers -> Moving] /\ \A n \in Movers : StandsRight(mover[n])'
  <2>1. CASE Fail(m)
    BY <2>1, FailTyped
  <2>2. CASE p \in Paths /\ Go(m, At(p))
    BY <1>0, <1>1, <2>2, GoTyped
  <2>3. CASE p \in Paths /\ mover' = [mover EXCEPT ![m].step = "record", ![m].read = At(p)]
    <3> DEFINE read == At(p)
    <3>1. read \in Copies /\ mover' = [mover EXCEPT ![m].step = "record", ![m].read = read]
      BY <1>1, <2>3
    <3> HIDE DEF read
    <3> DEFINE r == [mover[m] EXCEPT !.step = "record", !.read = read]
    <3>2. r \in Moving /\ r.stage = "place" /\ r.step = "record" /\ r.todo = {}
      BY <1>0, <3>1 DEF Moving, Placing
    <3>3. StandsRight(r)
      BY <3>2 DEF StandsRight, AtRest, Placing
    <3>4. mover' = [mover EXCEPT ![m] = r]
      BY <1>0, <3>1
    <3> HIDE DEF r
    <3> QED BY <3>2, <3>3, <3>4, OneMover
  <2> QED BY <2>1, <2>2, <2>3 DEF ReadOutcome
<1> QED BY <1>2 DEF ReadOutcome, Typed, OnePerPath

\* Opening the copy to write its outcome.
LEMMA CutRecordTyped ==
    ASSUME Typed, NEW m \in Movers, NEW cut \in Cuts, CutRecord(m, cut)
    PROVE  Typed'
<1> DEFINE p == Path(mover[m].read)
           f == Cut(mover[m].read, cut)
<1>0. /\ mover \in [Movers -> Moving] /\ mover[m] \in Moving /\ mover[m].step = "record"
      /\ mover[m].stage = "place" /\ mover[m].read \in Copies /\ mover[m].got \in FolderPaths
      /\ p \in FolderPaths /\ mover[m].todo = {}
  BY PathType DEF Typed, CutRecord, StandsRight, Placing, Moving
<1>1. files' \subseteq Copies /\ IsFiniteSet(files') /\ OnePerPath'
  <2>1. f \in Copies /\ Path(f) = p
    BY <1>0, CutType
  <2>2. files' = Replaced(p, f)
    BY DEF CutRecord
  <2> HIDE DEF f, p
  <2> QED BY <2>1, <2>2, ReplacedTyped DEF Typed, OnePerPath
<1>2. mover' \in [Movers -> Moving] /\ \A n \in Movers : StandsRight(mover[n])'
  <2>1. mover' = [mover EXCEPT ![m].step = "recording", ![m].open = p, ![m].dest = p]
    BY DEF CutRecord
  <2> HIDE DEF p
  <2> DEFINE r == [mover[m] EXCEPT !.step = "recording", !.open = p, !.dest = p]
  <2>2. r \in Moving /\ r.stage = "place" /\ r.step = "recording" /\ r.todo = {}
    BY <1>0 DEF Moving, Placing
  <2>3. StandsRight(r)
    BY <2>2 DEF StandsRight, AtRest, Placing
  <2>4. mover' = [mover EXCEPT ![m] = r]
    BY <1>0, <2>1
  <2> HIDE DEF r
  <2> QED BY <2>2, <2>3, <2>4, OneMover
<1> QED BY <1>1, <1>2 DEF CutRecord, Typed

\* Writing the rest of it.
LEMMA FillRecordTyped ==
    ASSUME Typed, NEW m \in Movers, FillRecord(m)
    PROVE  Typed'
<1>0. mover[m].read \in Copies /\ mover[m].stage = "place"
  BY DEF Typed, FillRecord, StandsRight, Placing, Moving
<1>1. files' \subseteq Copies /\ IsFiniteSet(files') /\ OnePerPath'
  BY <1>0, WithBlockType, RestTyped DEF FillRecord
<1>2. mover' \in [Movers -> Moving] /\ \A n \in Movers : StandsRight(mover[n])'
  BY <1>0, GoTyped DEF FillRecord
<1> QED BY <1>1, <1>2 DEF FillRecord, Typed

\* The rename.
LEMMA RenameTyped ==
    ASSUME Typed, NEW m \in Movers, Rename(m)
    PROVE  Typed'
<1> DEFINE read == mover[m].read
           to == mover[m].to
           p == Path(read)
           dest == <<to, read.base, read.nth>>
           r == [mover[m] EXCEPT !.stage = "repair_again", !.step = "scan", !.got = dest]
           placed == [mover EXCEPT ![m].stage = "repair_again", ![m].step = "scan", ![m].got = dest]
<1>0. /\ mover \in [Movers -> Moving] /\ mover[m] \in Moving /\ StandsRight(mover[m])
      /\ mover[m].step = "rename" /\ mover[m].stage = "place" /\ mover[m].todo = {}
  <2>1. mover \in [Movers -> Moving] /\ mover[m] \in Moving /\ StandsRight(mover[m])
        /\ mover[m].step = "rename"
    BY DEF Typed, Rename
  <2> QED BY <2>1 DEF StandsRight, Placing
<1>1. read \in Copies /\ to \in Buckets /\ dest \in FolderPaths
  BY <1>0 DEF Moving, Copies, FolderPaths
<1>2. placed \in [Movers -> Moving] /\ \A n \in Movers : StandsRight(placed[n])
  <2>1. r \in Moving /\ r.stage = "repair_again" /\ r.step = "scan" /\ r.todo = {}
    <3> HIDE DEF dest
    <3> QED BY <1>0, <1>1 DEF Moving, Stages, Repairs
  <2>2. StandsRight(r)
    BY <2>1 DEF StandsRight, AtRest, Placing
  <2>3. placed = [mover EXCEPT ![m] = r]
    BY <1>0
  <2> HIDE DEF r, placed
  <2> QED BY <1>0, <2>1, <2>2, <2>3 DEF Typed
<1>3. mover' \in [Movers -> Moving] /\ \A n \in Movers : StandsRight(mover[n])'
  <2>1. mover' = Follow(placed, p, dest) \/ Fail(m)
    BY DEF Rename
  <2> HIDE DEF placed, dest
  <2>2. CASE Fail(m)
    BY <2>2, FailTyped
  <2>3. CASE mover' = Follow(placed, p, dest)
    BY <1>1, <1>2, <2>3, FollowType DEF StandsRight, Placing
  <2> QED BY <2>1, <2>2, <2>3
<1>4. files' \subseteq Copies /\ IsFiniteSet(files') /\ OnePerPath'
  <2> DEFINE moved == [At(p) EXCEPT !.bucket = to]
             rest == {f \in files : Path(f) \notin {p, dest}}
  <2>1. CASE p \in Paths
    <3>1. At(p) \in Copies /\ Path(At(p)) = p
      BY <2>1, FileAt DEF Typed
    <3>2. moved \in Copies /\ Path(moved) = dest
      BY <1>1, <3>1 DEF Copies, Path
    <3>3. files' = rest \cup {moved}
      BY <2>1 DEF Rename
    <3>4. IsFiniteSet(rest)
      BY FS_Subset DEF Typed
    <3> HIDE DEF moved, dest
    <3>5. \A f, g \in files' : Path(f) = Path(g) => f = g
      BY <3>2, <3>3 DEF Typed, OnePerPath
    <3>6. IsFiniteSet(files')
      <4> HIDE DEF rest
      <4> QED BY <3>3, <3>4, FS_AddElement
    <3> QED BY <3>2, <3>3, <3>5, <3>6 DEF Typed, OnePerPath
  <2>2. CASE p \notin Paths
    BY <2>2 DEF Rename, Typed, OnePerPath
  <2> QED BY <2>1, <2>2
<1>5. calm' \in BOOLEAN
  BY DEF Rename, Typed
<1> QED BY <1>3, <1>4, <1>5 DEF Rename, Typed

\* A crash.
LEMMA CrashTyped ==
    ASSUME Typed, NEW m \in Movers, Crash(m)
    PROVE  Typed'
<1>1. mover' \in [Movers -> Moving] /\ \A n \in Movers : StandsRight(mover[n])'
  BY FailTyped DEF Crash
<1>2. crashes' \in 0..MaxCrashes
  BY BoardAssumption DEF Crash, Typed
<1> QED BY <1>1, <1>2 DEF Crash, Typed, OnePerPath

\* Every step keeps the types, whoever else is at work.
LEMMA NextTyped == Typed /\ [Next]_vars => Typed'
<1> SUFFICES ASSUME Typed, [Next]_vars PROVE Typed'
  OBVIOUS
<1>1. CASE UNCHANGED vars
  BY <1>1 DEF vars, Typed, OnePerPath, StandsRight
<1>2. ASSUME NEW m \in Movers, NEW to \in Targets, NEW rec \in BOOLEAN, Start(m, to, rec)
      PROVE  Typed'
  BY <1>2, StartTyped
<1>3. ASSUME NEW m \in Movers, Step(m) PROVE Typed'
  BY <1>3, ScanTyped, PassEndsTyped, ReadSourceTyped, CutTyped, FillTyped, RemoveTyped,
     PlaceTyped, ReadOutcomeTyped, CutRecordTyped, FillRecordTyped, RenameTyped DEF Step
<1>4. ASSUME NEW m \in Movers, Crash(m) PROVE Typed'
  BY <1>4, CrashTyped
<1> QED BY <1>1, <1>2, <1>3, <1>4 DEF Next

\* One file for each path, as TypeOK counts it.
LEMMA TypedTypeOK == Typed => TypeOK
<1> SUFFICES ASSUME Typed PROVE TypeOK
  OBVIOUS
<1>1. Cardinality(Paths) = Cardinality(files)
  <2> DEFINE at == [f \in files |-> Path(f)]
  <2>1. at \in Bijection(files, Paths)
    <3>1. at \in [files -> Paths] /\ \A f \in files : at[f] = Path(f)
      BY DEF Paths
    <3>2. \A f, g \in files : at[f] = at[g] => f = g
      BY <3>1 DEF Typed, OnePerPath
    <3>3. \A p \in Paths : \E f \in files : at[f] = p
      BY <3>1 DEF Paths
    <3> HIDE DEF at
    <3> QED BY <3>1, <3>2, <3>3 DEF Bijection, Injection, Surjection, IsInjective
  <2> HIDE DEF at
  <2>2. ExistsBijection(files, Paths)
    BY <2>1 DEF ExistsBijection
  <2> QED BY <2>2, FS_Bijection DEF Typed
<1>2. ASSUME NEW m \in Movers
      PROVE  /\ mover[m].stage \in DOMAIN NextStage \cup {"idle", "failed", "returned", "place"}
             /\ mover[m].step \in {"scan", "archive", "write", "writing", "written"} \cup Placing
             /\ mover[m].step \in Placing => mover[m].stage = "place"
  <2>1. mover[m] \in Moving /\ StandsRight(mover[m])
    BY DEF Typed
  <2> QED BY <2>1 DEF Moving, StandsRight, Stages, Repairs, Sweeps, AtRest, NextStage
<1> QED BY <1>1, <1>2 DEF Typed, TypeOK

\* TypeOK is an invariant for any number of movers and any interleaving: the
\* file operations never leave two files at one path, and a mover renames in
\* the placing stage alone.
THEOREM TypeCorrect == Spec => []TypeOK
<1>1. Init => Typed
  BY InitTyped
<1>2. Typed /\ [Next]_vars => Typed'
  BY NextTyped
<1>3. Typed => TypeOK
  BY TypedTypeOK
<1> QED BY <1>1, <1>2, <1>3, PTL DEF Spec

-----------------------------------------------------------------------------
\* The copy a repair keeps.

\* Of two actioned copies one is better, and better is transitive.
LEMMA BetterOrder ==
    ASSUME NEW f \in Copies, NEW g \in Copies, NEW h \in Copies,
           f.bucket \in Actioned, g.bucket \in Actioned, h.bucket \in Actioned
    PROVE  /\ Path(f) # Path(g) => Better(f, g) \/ Better(g, f)
           /\ Better(f, g) /\ Better(g, h) => Better(f, h)
<1>1. ASSUME NEW b \in Actioned, NEW c \in Actioned, Rank[b] = Rank[c] PROVE b = c
  BY <1>1 DEF Rank, Actioned
<1>2. \A b \in Actioned : Rank[b] \in Nat
  BY DEF Rank, Actioned
<1>3. /\ f.base \in Nat /\ f.nth \in Nat /\ g.base \in Nat /\ g.nth \in Nat
      /\ h.base \in Nat /\ h.nth \in Nat
      /\ Rank[f.bucket] \in Nat /\ Rank[g.bucket] \in Nat /\ Rank[h.bucket] \in Nat
  BY <1>2 DEF Copies
<1>4. Path(f) # Path(g) => Better(f, g) \/ Better(g, f)
  BY <1>1, <1>3 DEF Better, Path
<1>5. Better(f, g) /\ Better(g, h) => Better(f, h)
  BY <1>3 DEF Better
<1> QED BY <1>4, <1>5

\* Of finitely many actioned copies at different paths one is the best.
LEMMA BestExists ==
    ASSUME NEW S, IsFiniteSet(S), S # {}, S \subseteq Copies,
           \A f \in S : f.bucket \in Actioned,
           \A f, g \in S : Path(f) = Path(g) => f = g
    PROVE  \E f \in S : \A g \in S : g = f \/ Better(f, g)
<1> DEFINE HasBest(T) == \E f \in T : \A g \in T : g = f \/ Better(f, g)
           sizes == {n \in Nat : \E T \in SUBSET S : T # {} /\ Cardinality(T) = n /\ ~HasBest(T)}
<1>1. SUFFICES ASSUME ~HasBest(S) PROVE FALSE
  OBVIOUS
<1>2. PICK n \in sizes : \A k \in sizes : n <= k
  <2>1. Cardinality(S) \in sizes
    BY <1>1, FS_CardinalityType
  <2>2. sizes \subseteq Nat /\ sizes # {}
    BY <2>1
  <2> HIDE DEF sizes
  <2> QED BY <2>2, LeastNat
<1>3. PICK T \in SUBSET S : T # {} /\ Cardinality(T) = n /\ ~HasBest(T)
  BY <1>2
<1>4. PICK x \in T : TRUE
  BY <1>3
<1> DEFINE U == T \ {x}
<1>5. IsFiniteSet(U) /\ Cardinality(U) = n - 1 /\ n \in Nat /\ Cardinality(U) \in Nat
  <2>1. IsFiniteSet(T)
    BY FS_Subset
  <2> QED BY <1>3, <1>4, <2>1, FS_RemoveElement, FS_CardinalityType
<1>6. U # {}
  BY <1>3, <1>4
<1>7. HasBest(U)
  <2>1. Cardinality(U) \notin sizes
    <3> HIDE DEF sizes, U
    <3> QED BY <1>2, <1>5
  <2> QED BY <1>5, <1>6, <2>1
<1>8. PICK b \in U : \A g \in U : g = b \/ Better(b, g)
  BY <1>7
<1>9. x # b /\ x \in S /\ b \in S /\ Path(x) # Path(b)
  BY <1>4, <1>8
<1>10. CASE Better(b, x)
  BY <1>3, <1>8, <1>10
<1>11. CASE Better(x, b)
  <2>1. ASSUME NEW g \in T PROVE g = x \/ Better(x, g)
    <3>1. CASE g = x \/ g = b
      BY <1>11, <3>1
    <3>2. CASE g # x /\ g # b
      <4>1. Better(b, g)
        BY <1>8, <3>2
      <4> QED BY <1>9, <1>11, <4>1, BetterOrder
    <3> QED BY <3>1, <3>2
  <2> QED BY <1>3, <1>4, <2>1
<1> QED BY <1>9, <1>10, <1>11, BetterOrder

\* What a repair keeps is one of the actioned copies.
LEMMA KeptIsCanonical ==
    ASSUME files \subseteq Copies, IsFiniteSet(files), OnePerPath, Canonical # {}
    PROVE  Kept \in Canonical /\ (Protected # {} => Kept \in Protected)
<1>1. CASE Protected # {}
  BY <1>1 DEF Kept, Protected
<1>2. CASE Protected = {}
  <2>1. IsFiniteSet(Canonical) /\ Canonical \subseteq Copies /\ Canonical \subseteq files
    BY FS_Subset DEF Canonical
  <2>2. \E f \in Canonical : \A g \in Canonical : g = f \/ Better(f, g)
    BY <2>1, BestExists DEF Canonical, OnePerPath
  <2> QED BY <1>2, <2>2 DEF Kept
<1> QED BY <1>1, <1>2

\* A repair leaves the copy it keeps, or a copy of the queue.
LEMMA RepairLeaves ==
    ASSUME files \subseteq Copies, IsFiniteSet(files), OnePerPath, NEW f \in files,
           Path(f) \in RepairDuplicates
    PROVE  Kept \in Canonical /\ Path(Kept) \notin RepairDuplicates
<1>1. Canonical \subseteq files
  BY DEF Canonical
<1>2. Canonical # {}
  BY DEF RepairDuplicates
<1>3. Kept \in Canonical
  BY <1>2, KeptIsCanonical
<1> QED BY <1>1, <1>3 DEF RepairDuplicates, OnePerPath

\* A sweep leaves the actioned copies that the index knows, and picks nothing
\* when there are none.
LEMMA SweepLeaves ==
    ASSUME NEW f \in files, Path(f) \in SweepDuplicates
    PROVE  Active # {} /\ \A c \in Active : Path(c) \notin SweepDuplicates
<1>1. Active # {}
  BY DEF SweepDuplicates, Status
<1>2. \A c \in Active : Path(c)[1] \in Actioned
  BY DEF Active, Canonical, Path
<1>3. \A p \in SweepDuplicates : p[1] \in Queued
  BY DEF SweepDuplicates, Path
<1>4. Queued \cap Actioned = {}
  BY DEF Queued, Actioned
<1> QED BY <1>1, <1>2, <1>3, <1>4

\* Both pick generated copies only.
LEMMA PickedGenerated ==
    ASSUME OnePerPath, NEW f \in files, Path(f) \in RepairDuplicates \cup SweepDuplicates
    PROVE  f.kind = "generated" /\ IsGenerated(f) /\ ~IsRelation(f)
<1>1. PICK g \in files : Path(g) = Path(f) /\ IsGenerated(g) /\ ~IsRelation(g)
  BY DEF RepairDuplicates, SweepDuplicates, Canonical, Indexed
<1> QED BY <1>1 DEF OnePerPath, IsGenerated

-----------------------------------------------------------------------------
\* One process at a time.

\* What the folders promise of a mover is left alone by a step of another one
\* that writes no file.
LEMMA FrameMover ==
    ASSUME NEW n \in Movers, Sound(n), Picked(n), mover'[n] = mover[n], files' = files
    PROVE  Sound(n)' /\ Picked(n)'
BY DEF Sound, Chosen, Writing, Written, Archiving, Recording, Renaming, Picked, CutAt,
       Filled, Paths, Indexed

\* A mover between its file operations owes nothing.
LEMMA QuietMover ==
    ASSUME NEW n \in Movers, mover'[n].step \in {"scan", "archive"}
    PROVE  Sound(n)'
BY DEF Sound, Chosen, Writing, Written, Archiving, Recording, Renaming, Placing

\* While m works the others rest, so any step of m leaves them sound.
LEMMA OthersRest ==
    ASSUME Typed, Alone, NEW m \in Movers, Working(m),
           \A n \in Movers \ {m} : mover'[n] = mover[n]
    PROVE  \A n \in Movers \ {m} :
              /\ mover[n].step = "scan" /\ mover[n].todo = {}
              /\ mover'[n].step = "scan" /\ mover'[n].todo = {}
              /\ Sound(n)' /\ Picked(n)'
<1> SUFFICES ASSUME NEW n \in Movers, n # m
             PROVE  /\ mover[n].step = "scan" /\ mover[n].todo = {}
                    /\ mover'[n].step = "scan" /\ mover'[n].todo = {}
                    /\ Sound(n)' /\ Picked(n)'
  OBVIOUS
<1>1. mover'[n] = mover[n] /\ mover[n].stage \in AtRest
  BY DEF Alone, Working, AtRest
<1>2. mover[n].step = "scan" /\ mover[n].todo = {}
  BY <1>1 DEF Typed, StandsRight, Placing
<1>3. Sound(n)'
  BY <1>1, <1>2, QuietMover
<1>4. Picked(n)'
  BY <1>1, <1>2 DEF Picked, AtRest, Repairs, Sweeps
<1> QED BY <1>1, <1>2, <1>3, <1>4

\* A mover past its scan is at work.
LEMMA PastScanWorks ==
    ASSUME Typed, NEW m \in Movers, mover[m].step # "scan"
    PROVE  Working(m)
BY DEF Typed, StandsRight, Working, AtRest

\* A mover picks up no new path and opens no archive copy: what stands for the
\* ticket still does.
LEMMA StillOnBoard ==
    ASSUME OnBoard, files' = files, calm' => calm,
           \A n \in Movers : mover'[n].todo \subseteq mover[n].todo,
           \A n \in Movers : mover'[n].step = "writing" => mover'[n] = mover[n]
    PROVE  OnBoard'
<1>1. \A f : Stands(f) => Stands(f)'
  BY DEF Stands, InFlight
<1> QED BY <1>1 DEF OnBoard

\* A text stays safe while no file is written and no mover that writes a file
\* where it stands gives up, but for its text.
LEMMA StillSafe ==
    ASSUME NEW t, Safe(t), NEW m \in Movers, files' = files, spoiled \subseteq spoiled',
           \A n \in Movers \ {m} : mover'[n] = mover[n],
           InPlace(m) => mover[m].read.text \in spoiled'
    PROVE  Safe(t)'
<1>1. \A n \in Movers \ {m} : InPlace(n) => InPlace(n)'
  BY DEF InPlace
<1> QED BY <1>1 DEF Safe

\* A step of m that writes no file.
LEMMA NoFileWritten ==
    ASSUME LoneInv, NEW m \in Movers,
           files' = files, texts' = texts, spoiled \subseteq spoiled',
           InPlace(m) => mover[m].read.text \in spoiled',
           \A n \in Movers \ {m} : mover'[n] = mover[n],
           Sound(m)', Picked(m)', OnBoard'
    PROVE  LoneInv'
<1>1. \A n \in Movers : Sound(n)' /\ Picked(n)'
  BY FrameMover DEF LoneInv
<1>2. \A t \in texts' : Safe(t)'
  BY StillSafe DEF LoneInv
<1>3. RelationsArchived'
  BY DEF LoneInv, RelationsArchived
<1> QED BY <1>1, <1>2, <1>3 DEF LoneInv

\* A mover that fails or stops.
LEMMA FailLone ==
    ASSUME Typed, LoneInv, NEW m \in Movers, Fail(m),
           files' = files, texts' = texts, calm' => calm, spoiled \subseteq spoiled',
           InPlace(m) => mover[m].read.text \in spoiled'
    PROVE  LoneInv'
<1>1. /\ mover'[m] = [Idle EXCEPT !.stage = "failed", !.to = mover[m].to]
      /\ \A n \in Movers \ {m} : mover'[n] = mover[n]
  BY DEF Fail, Typed
<1>2. mover'[m].stage = "failed" /\ mover'[m].step = "scan" /\ mover'[m].todo = {}
  BY <1>1 DEF Idle
<1>3. Sound(m)' /\ Picked(m)'
  BY <1>2, QuietMover DEF Picked, Repairs, Sweeps
<1>4. OnBoard'
  BY <1>1, <1>2, StillOnBoard DEF LoneInv
<1> QED BY <1>1, <1>3, <1>4, NoFileWritten

\* The start.
LEMMA InitLone == Init => LoneInv
<1> SUFFICES ASSUME Init PROVE LoneInv
  OBVIOUS
<1>1. /\ \A f \in files : /\ f.body = "whole" /\ f.block \in {"none", "outcome", "plan_copy"}
                          /\ f.block = "plan_copy" => f.bucket = "archived"
      /\ \E f \in files : f.block # "plan_copy"
  BY StartAssumption DEF Init
<1>2. ASSUME NEW m \in Movers
      PROVE  mover[m].stage = "idle" /\ mover[m].step = "scan" /\ mover[m].todo = {}
  BY DEF Init, Idle
<1>3. ASSUME NEW m \in Movers PROVE Sound(m) /\ Picked(m)
  BY <1>2 DEF Sound, Chosen, Writing, Written, Archiving, Recording, Renaming, Placing,
              Picked, Repairs, Sweeps
<1>4. RelationsArchived /\ \A t \in texts : Safe(t)
  <2>1. RelationsArchived
    BY <1>1 DEF RelationsArchived, IsRelation
  <2>2. \A f \in files : Fine(f)
    BY <1>1 DEF Fine
  <2>3. \A t \in texts : \E f \in files : f.text = t
    BY DEF Init
  <2> QED BY <2>1, <2>2, <2>3 DEF Safe
<1>5. OnBoard
  <2>1. PICK f \in files : f.block # "plan_copy"
    BY <1>1
  <2>2. ~IsRelation(f) /\ ~CutInArchive(f)
    BY <1>1, <2>1 DEF IsRelation, CutInArchive
  <2>3. \A m \in Movers : Path(f) \notin mover[m].todo /\ ~InFlight(m, f)
    BY <1>2 DEF InFlight
  <2> QED BY <2>1, <2>2, <2>3 DEF OnBoard, Stands
<1> QED BY <1>3, <1>4, <1>5 DEF LoneInv

\* A move starts.
LEMMA StartLone ==
    ASSUME Typed, LoneInv, NEW m \in Movers, NEW to \in Targets, NEW rec \in BOOLEAN,
           Start(m, to, rec)
    PROVE  LoneInv'
<1>1. /\ mover'[m] = [Idle EXCEPT !.stage = "repair", !.to = to, !.rec = rec]
      /\ \A n \in Movers \ {m} : mover'[n] = mover[n]
      /\ files' = files /\ texts' = texts /\ spoiled' = spoiled /\ calm' = calm
  BY DEF Start, Typed
<1>2. mover'[m].stage = "repair" /\ mover'[m].step = "scan" /\ mover'[m].todo = {}
  BY <1>1 DEF Idle
<1>3. Sound(m)' /\ Picked(m)'
  BY <1>2, QuietMover DEF Picked
<1>4. OnBoard'
  BY <1>1, <1>2, StillOnBoard DEF LoneInv
<1>5. ~InPlace(m)
  BY DEF Start, Typed, StandsRight, AtRest, InPlace
<1> QED BY <1>1, <1>3, <1>4, <1>5, NoFileWritten

\* A scan leaves a copy that stands for the ticket: a repair the one it keeps, a
\* sweep the actioned ones.
LEMMA ScanLone ==
    ASSUME Typed, Alone, LoneInv, NEW m \in Movers, Scan(m)
    PROVE  LoneInv'
<1>0. /\ files' = files /\ texts' = texts /\ spoiled' = spoiled /\ ~InPlace(m)
      /\ calm' => calm /\ \A f \in files : ~CutInArchive(f)
      /\ mover[m].step = "scan" /\ mover[m].stage \in Repairs \cup Sweeps
  BY DEF Scan, Look, InPlace
<1>1. CASE Fail(m)
  BY <1>0, <1>1, FailLone
<1>2. ASSUME NEW todo \in {RepairDuplicates, SweepDuplicates},
             mover' = [mover EXCEPT ![m].step = "archive", ![m].todo = todo]
      PROVE  LoneInv'
  <2>1. /\ mover'[m] = [mover[m] EXCEPT !.step = "archive", !.todo = todo]
        /\ \A n \in Movers \ {m} : mover'[n] = mover[n]
        /\ mover[m] \in Moving
    BY <1>2 DEF Typed
  <2>2. mover'[m].step = "archive" /\ mover'[m].todo = todo
    BY <2>1 DEF Moving
  <2>3. Sound(m)'
    BY <2>2, QuietMover
  <2>4. Picked(m)'
    <3>1. ASSUME NEW f \in files, Path(f) \in todo PROVE f.kind = "generated"
      BY <3>1, PickedGenerated DEF Typed
    <3> QED BY <1>0, <2>2, <3>1 DEF Picked
  <2>5. OnBoard'
    <3>1. Working(m)
      BY <1>0 DEF Working, Repairs, Sweeps
    <3>2. \A n \in Movers \ {m} : mover'[n].todo = {} /\ mover'[n].step = "scan"
      BY <2>1, <3>1, OthersRest
    <3>3. ASSUME NEW w \in files, Path(w) \notin todo,
                 w.block # "broken" => ~IsRelation(w) /\ (calm' => ~CutInArchive(w))
          PROVE  OnBoard'
      <4>1. Stands(w)'
        BY <2>2, <3>2, <3>3 DEF Stands, InFlight
      <4> QED BY <1>0, <4>1 DEF OnBoard
    <3>4. PICK w \in files : Stands(w)
      BY DEF LoneInv, OnBoard
    <3>5. CASE Path(w) \notin todo
      BY <1>0, <3>3, <3>4, <3>5 DEF Stands
    <3>6. CASE Path(w) \in RepairDuplicates /\ todo = RepairDuplicates
      <4>1. Kept \in Canonical /\ Path(Kept) \notin todo
        BY <3>6, RepairLeaves DEF Typed
      <4> QED BY <1>0, <3>3, <4>1 DEF Canonical
    <3>7. CASE Path(w) \in SweepDuplicates /\ todo = SweepDuplicates
      <4>1. PICK c \in Active : Path(c) \notin todo
        BY <3>7, SweepLeaves
      <4> QED BY <1>0, <3>3, <4>1 DEF Active, Canonical
    <3> QED BY <3>5, <3>6, <3>7
  <2> QED BY <1>0, <2>1, <2>3, <2>4, <2>5, NoFileWritten
<1> QED BY <1>1, <1>2 DEF Scan

\* A pass ends.
LEMMA PassEndsLone ==
    ASSUME Typed, LoneInv, NEW m \in Movers, PassEnds(m)
    PROVE  LoneInv'
<1>0. /\ files' = files /\ texts' = texts /\ spoiled' = spoiled /\ ~InPlace(m)
      /\ calm' => calm
  BY DEF PassEnds, Look, InPlace
<1>1. CASE Fail(m)
  BY <1>0, <1>1, FailLone
<1>2. CASE Goto(m, NextStage[mover[m].stage])
  <2>1. /\ mover'[m] = [mover[m] EXCEPT !.stage = NextStage[mover[m].stage],
                                        !.step = "scan", !.todo = {}]
        /\ \A n \in Movers \ {m} : mover'[n] = mover[n]
        /\ mover[m] \in Moving
    BY <1>2 DEF Goto, Typed
  <2>2. mover'[m].step = "scan" /\ mover'[m].todo = {}
    BY <2>1 DEF Moving
  <2>3. Sound(m)' /\ Picked(m)'
    BY <2>2, QuietMover DEF Picked
  <2>4. OnBoard'
    BY <1>0, <2>1, <2>2, StillOnBoard DEF LoneInv
  <2> QED BY <1>0, <2>1, <2>3, <2>4, NoFileWritten
<1> QED BY <1>1, <1>2 DEF PassEnds

\* A source is read, or passed over.
LEMMA ReadSourceLone ==
    ASSUME Typed, LoneInv, NEW m \in Movers, NEW p \in mover[m].todo, ReadSource(m, p)
    PROVE  LoneInv'
<1>0. /\ mover[m] \in Moving /\ mover \in [Movers -> Moving]
      /\ files' = files /\ texts' = texts /\ spoiled' = spoiled /\ calm' = calm /\ ~InPlace(m)
  BY DEF Typed, ReadSource, InPlace
<1>1. CASE Fail(m)
  BY <1>0, <1>1, FailLone
<1>2. CASE p \in Paths
  <2>1. /\ mover'[m] = [mover[m] EXCEPT !.step = "write", !.read = At(p),
                                        !.dest = ArchiveName(At(p))]
        /\ \A n \in Movers \ {m} : mover'[n] = mover[n]
    BY <1>0, <1>2 DEF ReadSource
  <2>2. /\ mover'[m].step = "write" /\ mover'[m].todo = mover[m].todo
        /\ mover'[m].stage = mover[m].stage
        /\ mover'[m].read = At(p) /\ mover'[m].dest = ArchiveName(At(p))
    BY <1>0, <2>1 DEF Moving
  <2>3. /\ At(p) \in files /\ Path(At(p)) = p
        /\ ArchiveName(At(p))[1] = "archived"
        /\ ArchiveName(At(p)) = p \/ ArchiveName(At(p)) \notin Paths
    BY <1>2, FileAt, NameIsFree DEF Typed
  <2>4. Paths' = Paths
    BY <1>0 DEF Paths
  <2>5. Sound(m)'
    BY <1>0, <2>2, <2>3, <2>4
       DEF Sound, Chosen, Writing, Written, Archiving, Recording, Renaming, Placing
  <2>6. Picked(m)'
    BY <1>0, <2>2, <2>3 DEF LoneInv, Picked
  <2>7. OnBoard'
    BY <1>0, <2>1, <2>2, StillOnBoard DEF LoneInv
  <2> QED BY <1>0, <2>1, <2>5, <2>6, <2>7, NoFileWritten
<1>3. CASE mover' = [mover EXCEPT ![m].todo = @ \ {p}]
  <2>1. /\ mover'[m] = [mover[m] EXCEPT !.todo = @ \ {p}]
        /\ \A n \in Movers \ {m} : mover'[n] = mover[n]
    BY <1>0, <1>3
  <2>2. /\ mover'[m].step = "archive" /\ mover'[m].todo = mover[m].todo \ {p}
        /\ mover'[m].stage = mover[m].stage
    BY <1>0, <2>1 DEF Moving, ReadSource
  <2>3. Sound(m)'
    BY <2>2, QuietMover
  <2>4. Picked(m)'
    BY <1>0, <2>2 DEF LoneInv, Picked
  <2>5. OnBoard'
    BY <1>0, <2>1, <2>2, StillOnBoard DEF LoneInv
  <2> QED BY <1>0, <2>1, <2>3, <2>4, <2>5, NoFileWritten
<1> QED BY <1>1, <1>2, <1>3 DEF ReadSource

\* A step of m that writes files, while the others rest.
LEMMA FilesWritten ==
    ASSUME Typed, Alone, NEW m \in Movers, Working(m),
           \A n \in Movers \ {m} : mover'[n] = mover[n],
           Sound(m)', Picked(m)', RelationsArchived', \A t \in texts' : Safe(t)', OnBoard'
    PROVE  LoneInv'
BY OthersRest DEF LoneInv

\* Nobody else has a file open while m works.
LEMMA OnlyOneInPlace ==
    ASSUME Typed, Alone, NEW m \in Movers, Working(m), NEW n \in Movers, InPlace(n)
    PROVE  n = m
<1>1. Working(n)
  BY PastScanWorks DEF InPlace
<1> QED BY <1>1 DEF Alone

\* A copy that stands for the ticket still does after a step of m that leaves
\* its file and does not write there.
LEMMA StillStands ==
    ASSUME Typed, Alone, NEW m \in Movers, Working(m),
           \A n \in Movers \ {m} : mover'[n] = mover[n],
           mover'[m].todo \subseteq mover[m].todo, calm' => calm,
           NEW w \in files', Stands(w), ~InFlight(m, w)'
    PROVE  OnBoard'
<1>1. \A n \in Movers \ {m} : mover'[n].step = "scan" /\ mover'[n].todo = {}
  BY OthersRest
<1>2. \A n \in Movers : Path(w) \notin mover'[n].todo /\ ~InFlight(n, w)'
  BY <1>1 DEF Stands, InFlight
<1>3. Stands(w)'
  BY <1>2 DEF Stands
<1> QED BY <1>3 DEF OnBoard

\* So does one just written, when no mover has work of a pass.
LEMMA StandsWritten ==
    ASSUME NEW w \in files', ~IsRelation(w), calm' => ~CutInArchive(w),
           \A n \in Movers : mover'[n].todo = {} /\ mover'[n].step # "writing"
    PROVE  OnBoard'
BY DEF OnBoard, Stands, InFlight

\* The destination is opened: it is free, or the source itself.
LEMMA CutLone ==
    ASSUME Typed, Alone, LoneInv, NEW m \in Movers, NEW cut \in Cuts, CutDestination(m, cut)
    PROVE  LoneInv'
<1> DEFINE read == mover[m].read
           dest == mover[m].dest
           A == PlacedAt(Cut(read, cut), dest)
<1>1. /\ mover[m] \in Moving /\ mover[m].step = "write"
      /\ mover'[m] = [mover[m] EXCEPT !.step = "writing", !.open = dest]
      /\ \A n \in Movers \ {m} : mover'[n] = mover[n]
      /\ files' = {g \in files : Path(g) # dest} \cup {A}
      /\ texts' = texts /\ spoiled' = spoiled /\ calm' = calm
  BY DEF CutDestination, Typed, Replaced
<1>2. /\ mover'[m].step = "writing" /\ mover'[m].open = dest /\ mover'[m].dest = dest
      /\ mover'[m].read = read /\ mover'[m].todo = mover[m].todo
      /\ mover'[m].stage = mover[m].stage
  BY <1>1 DEF Moving
<1>3. /\ read \in files /\ Path(read) \in mover[m].todo /\ dest[1] = "archived"
      /\ dest = Path(read) \/ dest \notin Paths
  BY <1>1 DEF LoneInv, Sound, Chosen, Archiving
<1>4. Working(m)
  BY <1>1, PastScanWorks
<1>5. Path(A) = dest /\ A.kind = read.kind /\ ~IsRelation(A)
  <2>1. read \in Copies /\ dest \in FolderPaths
    BY <1>1 DEF Moving
  <2> HIDE DEF read, dest
  <2> QED BY <2>1, CutType, PlacedType
<1>6. Sound(m)'
  <2>1. A \in files'
    BY <1>1
  <2>2. dest = Path(read) \/ read \in files'
    BY <1>1, <1>3
  <2>3. \E c \in Cuts : PlacedAt(Cut(mover'[m].read, c), mover'[m].dest) \in files'
    BY <2>1, <1>2
  <2> HIDE DEF dest, read
  <2>4. Chosen(m)' /\ Written(m)' /\ Recording(m)' /\ Renaming(m)'
    BY <1>2 DEF Chosen, Written, Recording, Renaming, Placing
  <2>5. Archiving(m)'
    BY <1>2, <1>3 DEF Archiving
  <2>6. Writing(m)'
    BY <1>2, <2>2, <2>3 DEF Writing, CutAt
  <2> QED BY <2>4, <2>5, <2>6 DEF Sound
<1>7. Picked(m)'
  BY <1>1, <1>2, <1>5 DEF LoneInv, Picked
<1>8. RelationsArchived'
  BY <1>1, <1>5 DEF LoneInv, RelationsArchived
<1>9. ASSUME NEW t \in texts' PROVE Safe(t)'
  <2>1. Safe(t)
    BY <1>1, <1>9 DEF LoneInv
  <2>2. CASE t \in spoiled
    BY <1>1, <2>2 DEF Safe
  <2>3. ASSUME NEW n \in Movers, InPlace(n) PROVE FALSE
    <3>1. n = m
      BY <1>4, <2>3, OnlyOneInPlace
    <3> QED BY <1>1, <2>3, <3>1 DEF InPlace
  <2>4. ASSUME NEW f \in files, f.text = t, Fine(f) PROVE Safe(t)'
    <3>1. CASE Path(f) # dest
      BY <1>1, <2>4, <3>1 DEF Safe
    <3>2. CASE Path(f) = dest
      <4>1. dest = Path(read) /\ f = read
        BY <1>3, <3>2 DEF Paths, Typed, OnePerPath
      <4>2. InPlace(m)' /\ mover'[m].read.text = t /\ Fine(mover'[m].read)
        BY <1>2, <2>4, <4>1 DEF InPlace
      <4> QED BY <4>2 DEF Safe
    <3> QED BY <3>1, <3>2
  <2> QED BY <2>1, <2>2, <2>3, <2>4 DEF Safe
<1>10. OnBoard'
  <2>1. PICK w \in files : Stands(w)
    BY DEF LoneInv, OnBoard
  <2>2. Path(w) # dest
    BY <1>3, <2>1 DEF Stands, Paths
  <2>3. w \in files' /\ ~InFlight(m, w)'
    BY <1>1, <1>2, <2>1, <2>2 DEF InFlight
  <2> QED BY <1>1, <1>2, <1>4, <2>1, <2>3, StillStands
<1> QED BY <1>1, <1>4, <1>6, <1>7, <1>8, <1>9, <1>10, FilesWritten

\* The rest of the bytes go over the cut file.
LEMMA FillReplaces ==
    ASSUME Typed, LoneInv, NEW m \in Movers, FillDestination(m)
    PROVE  /\ files' = {g \in files : Path(g) # mover[m].dest} \cup {Filled(m)}
           /\ \E C \in files : Path(C) = mover[m].dest /\ ~Fine(C)
<1> DEFINE dest == mover[m].dest
           read == mover[m].read
           F == Filled(m)
<1>1. mover[m].step = "writing" /\ mover[m].open = dest /\ read \in Copies /\ dest \in FolderPaths
  BY DEF FillDestination, LoneInv, Sound, Writing, Typed, Moving
<1>2. PICK cut \in Cuts : PlacedAt(Cut(read, cut), dest) \in files
  BY <1>1 DEF LoneInv, Sound, Writing, CutAt
<1> DEFINE C == PlacedAt(Cut(read, cut), dest)
<1>3. C \in files /\ Path(C) = dest /\ ~Fine(C)
  <2> HIDE DEF read, dest
  <2> QED BY <1>1, <1>2, CutType, PlacedType DEF Fine
<1>4. F \in Copies /\ Path(F) = dest
  BY FilledType
<1>5. PlacedAt(F, dest) = F
  <2> HIDE DEF F, dest
  <2> QED BY <1>4, PlacedInPlace
<1> HIDE DEF C
<1>6. dest \in Paths
  BY <1>3 DEF Paths
<1>7. files' = Replaced(dest, PlacedAt(F, dest))
  BY <1>1, <1>6 DEF FillDestination, Rest
<1> QED BY <1>3, <1>5, <1>7 DEF Replaced

\* The rest of the copy is written, over the cut file.
LEMMA FillLone ==
    ASSUME Typed, Alone, LoneInv, NEW m \in Movers, FillDestination(m)
    PROVE  LoneInv'
<1> DEFINE read == mover[m].read
           dest == mover[m].dest
           F == Filled(m)
<1>1. /\ mover[m] \in Moving /\ mover[m].step = "writing"
      /\ mover'[m] = [mover[m] EXCEPT !.step = "written", !.open = NoPath]
      /\ \A n \in Movers \ {m} : mover'[n] = mover[n]
      /\ texts' = texts /\ spoiled' = spoiled /\ calm' = calm
  BY DEF FillDestination, Typed
<1>2. /\ mover'[m].step = "written" /\ mover'[m].dest = dest
      /\ mover'[m].read = read /\ mover'[m].todo = mover[m].todo
      /\ mover'[m].stage = mover[m].stage
  BY <1>1 DEF Moving
<1>3. /\ Path(read) \in mover[m].todo /\ dest[1] = "archived"
      /\ dest = Path(read) \/ read \in files
  BY <1>1 DEF LoneInv, Sound, Writing, Archiving
<1>4. PICK C \in files : Path(C) = dest /\ ~Fine(C)
  BY FillReplaces
<1>5. /\ F \in Copies /\ Path(F) = dest /\ F.kind = read.kind /\ F.text = read.text
      /\ F.bucket = "archived" /\ F.body = read.body
      /\ IsRelation(F) \/ F.block = "broken"
      /\ F.block = "broken" <=> read.block = "open"
  BY <1>3, FilledType
<1>6. files' = {g \in files : Path(g) # dest} \cup {F}
  BY FillReplaces
<1>7. Working(m)
  BY <1>1, PastScanWorks
<1>8. Sound(m)'
  <2>1. Filled(m)' = F
    BY <1>2 DEF Filled
  <2>2. dest = Path(read) \/ read \in files'
    BY <1>3, <1>6
  <2>3. Filled(m)' \in files'
    BY <1>6, <2>1
  <2> HIDE DEF dest, read, F
  <2>4. Chosen(m)' /\ Writing(m)' /\ Recording(m)' /\ Renaming(m)'
    BY <1>2 DEF Chosen, Writing, Recording, Renaming, Placing
  <2>5. Archiving(m)'
    BY <1>2, <1>3 DEF Archiving
  <2>6. Written(m)'
    BY <1>2, <2>2, <2>3 DEF Written
  <2> QED BY <2>4, <2>5, <2>6 DEF Sound
<1>9. Picked(m)'
  BY <1>1, <1>2, <1>5, <1>6 DEF LoneInv, Picked
<1>10. RelationsArchived'
  BY <1>5, <1>6 DEF LoneInv, RelationsArchived
<1>11. \A f \in files : Fine(f) => f \in files'
  BY <1>4, <1>6 DEF Typed, OnePerPath
<1>12. ASSUME NEW t \in texts' PROVE Safe(t)'
  <2>1. Safe(t)
    BY <1>1, <1>12 DEF LoneInv
  <2>2. CASE t \in spoiled
    BY <1>1, <2>2 DEF Safe
  <2>3. ASSUME NEW n \in Movers, InPlace(n), mover[n].read.text = t, Fine(mover[n].read)
        PROVE  Safe(t)'
    <3>1. n = m
      BY <1>7, <2>3, OnlyOneInPlace
    <3>2. F.text = t /\ Fine(F)
      BY <1>5, <2>3, <3>1 DEF Fine, IsRelation
    <3>3. F \in files'
      BY <1>6
    <3> QED BY <3>2, <3>3 DEF Safe
  <2> QED BY <1>11, <2>1, <2>2, <2>3 DEF Safe
<1>13. OnBoard'
  <2>1. PICK w \in files : Stands(w)
    BY DEF LoneInv, OnBoard
  <2>2. w \in files' /\ ~InFlight(m, w)'
    BY <1>1, <1>2, <1>6, <2>1 DEF Stands, InFlight
  <2> QED BY <1>1, <1>2, <1>7, <2>1, <2>2, StillStands
<1> QED BY <1>1, <1>7, <1>8, <1>9, <1>10, <1>12, <1>13, FilesWritten

\* The source is removed once its whole copy is beside it.
LEMMA RemoveLone ==
    ASSUME Typed, Alone, LoneInv, NEW m \in Movers, RemoveSource(m)
    PROVE  LoneInv'
<1> DEFINE read == mover[m].read
           p == Path(read)
           F == Filled(m)
           done == [mover EXCEPT ![m].step = "archive", ![m].todo = @ \ {p}]
<1>1. /\ mover[m] \in Moving /\ mover[m].step = "written" /\ mover \in [Movers -> Moving]
      /\ texts' = texts /\ spoiled' = spoiled /\ calm' = calm /\ ~InPlace(m)
  BY DEF RemoveSource, Typed, InPlace
<1>2. Working(m)
  BY <1>1, PastScanWorks
<1>3. CASE Fail(m) /\ files' = files
  BY <1>1, <1>3, FailLone
<1>4. CASE ~(Fail(m) /\ files' = files)
  <2>1. /\ done[m] = [mover[m] EXCEPT !.step = "archive", !.todo = @ \ {p}]
        /\ \A n \in Movers \ {m} : done[n] = mover[n]
    BY <1>1
  <2>2. done \in [Movers -> Moving] /\ \A n \in Movers : done[n].step \notin {"writing", "recording"}
    <3>1. done[m] \in Moving /\ done[m].step = "archive"
      BY <1>1, <2>1 DEF Moving
    <3>2. \A n \in Movers \ {m} : mover[n].stage \in AtRest /\ mover[n].step = "scan"
      BY <1>2 DEF Alone, Working, AtRest, Typed, StandsRight
    <3> QED BY <1>1, <2>1, <3>1, <3>2
  <2>3. mover' = done \/ mover' = Follow(done, p, NoPath)
    BY <1>4 DEF RemoveSource
  <2>4. mover' = done
    <3> HIDE DEF done
    <3> QED BY <2>2, <2>3, NobodyWriting
  <2>5. files' = files \/ (files' = {f \in files : Path(f) # p} /\ p # mover[m].dest)
    BY <1>4 DEF RemoveSource
  <2>6. /\ mover'[m].step = "archive" /\ mover'[m].todo = mover[m].todo \ {p}
        /\ mover'[m].stage = mover[m].stage
    BY <1>1, <2>1, <2>4 DEF Moving
  <2>7. \A n \in Movers \ {m} : mover'[n] = mover[n]
    BY <2>1, <2>4
  <2>8. files' \subseteq files
    BY <2>5
  <2>9. Sound(m)'
    BY <2>6, QuietMover
  <2>10. Picked(m)'
    BY <2>6, <2>8 DEF LoneInv, Picked
  <2>11. RelationsArchived'
    BY <2>8 DEF LoneInv, RelationsArchived
  <2>12. ASSUME NEW t \in texts' PROVE Safe(t)'
    <3>1. Safe(t)
      BY <1>1, <2>12 DEF LoneInv
    <3>2. CASE t \in spoiled
      BY <1>1, <3>2 DEF Safe
    <3>3. ASSUME NEW n \in Movers, InPlace(n) PROVE FALSE
      BY <1>1, <1>2, <3>3, OnlyOneInPlace
    <3>4. ASSUME NEW f \in files, f.text = t, Fine(f) PROVE Safe(t)'
      <4>1. CASE f \in files'
        BY <3>4, <4>1 DEF Safe
      <4>2. CASE f \notin files'
        <5>1. Path(f) = p /\ p # mover[m].dest
          BY <2>5, <4>2
        <5>2. F \in files /\ read \in files
          BY <1>1, <5>1 DEF LoneInv, Sound, Written
        <5>3. f = read
          BY <5>1, <5>2 DEF Typed, OnePerPath
        <5>4. /\ F.text = t /\ F.body = f.body /\ Path(F) = mover[m].dest
              /\ IsRelation(F) \/ F.block = "broken"
              /\ F.block = "broken" <=> f.block = "open"
          BY <3>4, <5>3, FilledType
        <5>5. F \in files'
          <6> HIDE DEF F
          <6> QED BY <2>5, <5>1, <5>2, <5>4
        <5>6. Fine(F)
          <6> HIDE DEF F
          <6> QED BY <3>4, <5>4 DEF Fine, IsRelation
        <5> QED BY <5>4, <5>5, <5>6 DEF Safe
      <4> QED BY <4>1, <4>2
    <3> QED BY <3>1, <3>2, <3>3, <3>4 DEF Safe
  <2>13. OnBoard'
    <3>1. PICK w \in files : Stands(w)
      BY DEF LoneInv, OnBoard
    <3>2. p \in mover[m].todo
      BY <1>1 DEF LoneInv, Sound, Archiving
    <3>3. w \in files' /\ ~InFlight(m, w)'
      BY <2>5, <2>6, <3>1, <3>2 DEF Stands, InFlight
    <3> QED BY <1>1, <1>2, <2>6, <2>7, <3>1, <3>3, StillStands
  <2> QED BY <1>2, <2>7, <2>9, <2>10, <2>11, <2>12, <2>13, FilesWritten
<1> QED BY <1>3, <1>4

\* The copies that a placing chooses are in the folders and the index knows them.
LEMMA IndexedIn == Indexed \subseteq files /\ \A f \in Indexed : ~IsRelation(f) /\ f.block # "broken"
BY DEF Indexed

\* Placing: a rename is prepared for an indexed copy, towards a bucket without
\* any; a discard leaves a copy in its own bucket out.
LEMMA PlaceLone ==
    ASSUME Typed, Alone, LoneInv, NEW m \in Movers, Place(m)
    PROVE  LoneInv'
<1>1. /\ mover[m] \in Moving /\ mover \in [Movers -> Moving] /\ StandsRight(mover[m])
      /\ mover[m].stage = "place" /\ mover[m].step = "scan"
      /\ files' = files /\ texts' = texts /\ spoiled' = spoiled /\ ~InPlace(m)
      /\ calm' => calm
  BY DEF Place, Look, Typed, InPlace
<1>2. mover[m].todo = {} /\ Working(m) /\ Indexed' = Indexed
  BY <1>1 DEF StandsRight, Working, Indexed
<1>3. CASE Fail(m)
  BY <1>1, <1>3, FailLone
<1>4. CASE PlaceReturns(m)
  <2>1. PICK got, read :
          mover' = [mover EXCEPT ![m].stage = "returned", ![m].got = got, ![m].read = read]
    BY <1>4 DEF PlaceReturns
  <2>2. /\ mover'[m] = [mover[m] EXCEPT !.stage = "returned", !.got = got, !.read = read]
        /\ \A n \in Movers \ {m} : mover'[n] = mover[n]
    BY <1>1, <2>1
  <2>3. mover'[m].stage = "returned" /\ mover'[m].step = "scan" /\ mover'[m].todo = {}
    BY <1>1, <1>2, <2>2 DEF Moving
  <2>4. Sound(m)' /\ Picked(m)'
    BY <2>3, QuietMover DEF Picked
  <2>5. OnBoard'
    BY <1>1, <2>2, <2>3, StillOnBoard DEF LoneInv
  <2> QED BY <1>1, <2>2, <2>4, <2>5, NoFileWritten
<1>5. CASE PlaceDiscards(m)
  <2> DEFINE todo == {Path(f) : f \in {g \in Indexed : g.bucket # "discarded"}}
             got == Path(FirstIn("discarded"))
             read == FirstIn("discarded")
  <2>1. /\ mover'[m] = [mover[m] EXCEPT !.got = got, !.read = read, !.stage = "discard",
                                        !.step = "archive", !.todo = todo]
        /\ \A n \in Movers \ {m} : mover'[n] = mover[n]
    BY <1>1, <1>5 DEF PlaceDiscards
  <2>2. mover'[m].stage = "discard" /\ mover'[m].step = "archive" /\ mover'[m].todo = todo
    <3> HIDE DEF todo, got, read
    <3> QED BY <1>1, <2>1 DEF Moving
  <2>3. Sound(m)'
    BY <2>2, QuietMover
  <2>4. Picked(m)'
    BY <2>2 DEF Picked, Repairs, Sweeps
  <2>5. OnBoard'
    <3>1. PICK w \in Indexed : w.bucket = "discarded"
      BY <1>5 DEF PlaceDiscards, Held
    <3>2. Path(w) \notin todo
      BY <3>1 DEF Path
    <3>3. \A n \in Movers \ {m} : mover'[n].todo = {} /\ mover'[n].step = "scan"
      BY <1>2, <2>1, OthersRest
    <3>4. w \in files' /\ ~IsRelation(w) /\ ~CutInArchive(w)
      BY <1>1, <3>1, IndexedIn DEF CutInArchive
    <3>5. Stands(w)'
      BY <2>2, <3>2, <3>3, <3>4 DEF Stands, InFlight
    <3> QED BY <3>4, <3>5 DEF OnBoard
  <2> QED BY <1>1, <2>1, <2>3, <2>4, <2>5, NoFileWritten
<1>6. CASE PlaceOutcome(m)
  <2> DEFINE got == Path(FirstIn("complete"))
             read == FirstIn("complete")
  <2>1. /\ mover'[m] = [mover[m] EXCEPT !.got = got, !.read = read, !.step = "outcome"]
        /\ \A n \in Movers \ {m} : mover'[n] = mover[n]
    BY <1>1, <1>6 DEF PlaceOutcome
  <2>2. read \in Indexed /\ read.bucket = "complete" /\ mover[m].to = "complete"
    BY <1>6, FirstExists DEF PlaceOutcome, Typed
  <2> HIDE DEF got, read
  <2>3. /\ mover'[m].step = "outcome" /\ mover'[m].read = read /\ mover'[m].todo = {}
        /\ mover'[m].to = "complete" /\ mover'[m].stage = "place"
    BY <1>1, <1>2, <2>1, <2>2 DEF Moving
  <2>4. Sound(m)'
    BY <1>1, <2>2, <2>3, IndexedIn
       DEF Sound, Chosen, Writing, Written, Archiving, Recording, Renaming
  <2>5. Picked(m)'
    BY <2>3 DEF Picked, Repairs, Sweeps
  <2>6. OnBoard'
    BY <1>1, <2>1, <2>3, StillOnBoard DEF LoneInv
  <2> QED BY <1>1, <2>1, <2>4, <2>5, <2>6, NoFileWritten
<1>7. CASE PlaceMoves(m)
  <2> DEFINE step == IF mover[m].to = "complete" THEN "outcome" ELSE "rename"
  <2>1. PICK src \in Indexed : /\ src.bucket = SourceBucket(Held, mover[m].to)
                               /\ src.bucket # mover[m].to
                               /\ mover' = [mover EXCEPT ![m].step = step, ![m].read = src]
    BY <1>7 DEF PlaceMoves
  <2>2. \/ step = "outcome" /\ mover[m].to = "complete"
        \/ step = "rename" /\ mover[m].to # "complete"
    <3>1. CASE mover[m].to = "complete"
      BY <3>1
    <3>2. CASE mover[m].to # "complete"
      BY <3>2
    <3> QED BY <3>1, <3>2
  <2> HIDE DEF step
  <2>3. /\ mover'[m] = [mover[m] EXCEPT !.step = step, !.read = src]
        /\ \A n \in Movers \ {m} : mover'[n] = mover[n]
    BY <1>1, <2>1
  <2>4. /\ mover'[m].step = step /\ mover'[m].read = src /\ mover'[m].todo = {}
        /\ mover'[m].to = mover[m].to /\ mover'[m].stage = "place"
    BY <1>1, <1>2, <2>3 DEF Moving
  <2>5. \A f \in Indexed : f.bucket # mover[m].to
    BY <1>7 DEF PlaceMoves, Held
  <2>6. mover[m].to = "complete" => src.bucket # "archived"
    <3>1. src.bucket \in Held
      BY <2>1 DEF Held
    <3>2. mover[m].to = "complete" => "archived" \notin Held
      BY <1>7 DEF PlaceMoves, Further, Rank, Actioned
    <3> QED BY <3>1, <3>2
  <2>7. Recording(m)'
    BY <1>1, <2>2, <2>4, <2>6, IndexedIn DEF Recording
  <2>8. Renaming(m)'
    BY <1>1, <1>2, <2>1, <2>4, <2>5, IndexedIn DEF Renaming
  <2>9. Sound(m)'
    BY <2>2, <2>4, <2>7, <2>8 DEF Sound, Chosen, Writing, Written, Archiving
  <2>10. Picked(m)'
    BY <2>4 DEF Picked, Repairs, Sweeps
  <2>11. OnBoard'
    BY <1>1, <2>2, <2>3, <2>4, StillOnBoard DEF LoneInv
  <2> QED BY <1>1, <2>3, <2>9, <2>10, <2>11, NoFileWritten
<1> QED BY <1>3, <1>4, <1>5, <1>6, <1>7, PlaceCases

\* What a mover that works alone reads for the outcome is the copy it chose.
LEMMA ReadsItsCopy ==
    ASSUME Typed, LoneInv, NEW m \in Movers, mover[m].step \in {"outcome", "record"}
    PROVE  /\ mover[m].read \in files /\ Path(mover[m].read) \in Paths
           /\ At(Path(mover[m].read)) = mover[m].read
<1>1. mover[m].read \in files
  BY DEF LoneInv, Sound, Recording
<1>2. Path(mover[m].read) \in Paths
  BY <1>1 DEF Paths
<1> QED BY <1>1, <1>2, FileAt DEF Typed, OnePerPath

\* The outcome is read.
LEMMA ReadOutcomeLone ==
    ASSUME Typed, LoneInv, NEW m \in Movers, ReadOutcome(m)
    PROVE  LoneInv'
<1> DEFINE read == mover[m].read
<1>1. /\ mover[m] \in Moving /\ mover \in [Movers -> Moving] /\ mover[m].step = "outcome"
      /\ mover[m].stage = "place" /\ mover[m].todo = {}
      /\ files' = files /\ texts' = texts /\ spoiled' = spoiled /\ ~InPlace(m)
      /\ calm' = calm /\ Indexed' = Indexed
  BY DEF ReadOutcome, Typed, InPlace, StandsRight, Placing, Indexed
<1>2. At(Path(read)) = read /\ read \in files
  BY <1>1, ReadsItsCopy
<1>3. /\ ~IsRelation(read) /\ read.block # "broken"
      /\ mover[m].to = "complete" /\ read.bucket # "archived"
      /\ read.bucket # mover[m].to => \A f \in Indexed : f.bucket # mover[m].to
  BY <1>1 DEF LoneInv, Sound, Recording, Renaming, Placing
<1>4. CASE Fail(m)
  BY <1>1, <1>4, FailLone
<1>5. CASE mover' = [mover EXCEPT ![m].step = "record", ![m].read = read]
  <2>1. /\ mover'[m] = [mover[m] EXCEPT !.step = "record", !.read = read]
        /\ \A n \in Movers \ {m} : mover'[n] = mover[n]
    BY <1>1, <1>5
  <2> HIDE DEF read
  <2>2. /\ mover'[m].step = "record" /\ mover'[m].read = read /\ mover'[m].todo = {}
        /\ mover'[m].to = mover[m].to /\ mover'[m].stage = "place"
    BY <1>1, <2>1 DEF Moving
  <2>3. Sound(m)'
    BY <1>1, <1>2, <1>3, <2>2
       DEF Sound, Chosen, Writing, Written, Archiving, Recording, Renaming
  <2>4. Picked(m)'
    BY <2>2 DEF Picked, Repairs, Sweeps
  <2>5. OnBoard'
    BY <1>1, <2>1, <2>2, StillOnBoard DEF LoneInv
  <2> QED BY <1>1, <2>1, <2>3, <2>4, <2>5, NoFileWritten
<1>6. CASE Go(m, read)
  <2> DEFINE there == read.bucket = mover[m].to
             stage == IF there THEN "returned" ELSE "place"
             step == IF there THEN "scan" ELSE "rename"
  <2>1. /\ mover'[m] = [mover[m] EXCEPT !.stage = stage, !.step = step, !.read = read,
                                        !.open = NoPath]
        /\ \A n \in Movers \ {m} : mover'[n] = mover[n]
    BY <1>1, <1>6 DEF Go
  <2>2. stage \notin Repairs \cup Sweeps /\ step \in {"scan", "rename"} /\ (step = "rename" => ~there)
    BY DEF Repairs, Sweeps
  <2> HIDE DEF read, stage, step
  <2>3. /\ mover'[m].step = step /\ mover'[m].read = read /\ mover'[m].todo = {}
        /\ mover'[m].to = mover[m].to /\ mover'[m].stage = stage
    BY <1>1, <2>1 DEF Moving
  <2>4. Sound(m)'
    <3>1. CASE step = "scan"
      BY <2>3, <3>1, QuietMover
    <3>2. CASE step = "rename"
      BY <1>1, <1>2, <1>3, <2>2, <2>3, <3>2
         DEF Sound, Chosen, Writing, Written, Archiving, Recording, Renaming
    <3> QED BY <2>2, <3>1, <3>2
  <2>5. Picked(m)'
    BY <2>2, <2>3 DEF Picked
  <2>6. OnBoard'
    BY <1>1, <2>1, <2>2, <2>3, StillOnBoard DEF LoneInv
  <2> QED BY <1>1, <2>1, <2>4, <2>5, <2>6, NoFileWritten
<1> QED BY <1>2, <1>4, <1>5, <1>6 DEF ReadOutcome

\* The copy is opened to write its outcome, where it stands.
LEMMA CutRecordLone ==
    ASSUME Typed, Alone, LoneInv, NEW m \in Movers, NEW cut \in Cuts, CutRecord(m, cut)
    PROVE  LoneInv'
<1> DEFINE read == mover[m].read
           p == Path(read)
           C == Cut(read, cut)
<1>1. /\ mover[m] \in Moving /\ mover[m].step = "record"
      /\ mover[m].stage = "place" /\ mover[m].todo = {}
      /\ mover'[m] = [mover[m] EXCEPT !.step = "recording", !.open = p, !.dest = p]
      /\ \A n \in Movers \ {m} : mover'[n] = mover[n]
      /\ files' = {g \in files : Path(g) # p} \cup {C}
      /\ texts' = texts /\ spoiled' = spoiled /\ calm' = calm
  BY DEF CutRecord, Typed, StandsRight, Placing, Replaced
<1>2. /\ read \in files /\ read \in Copies
      /\ ~IsRelation(read) /\ read.block # "broken"
      /\ mover[m].to = "complete" /\ read.bucket # "archived"
      /\ read.bucket # mover[m].to => \A f \in Indexed : f.bucket # mover[m].to
  BY <1>1 DEF LoneInv, Sound, Recording, Renaming, Placing, Typed
<1>3. /\ C \in Copies /\ Path(C) = p /\ ~IsRelation(C) /\ C.bucket = read.bucket
      /\ PlacedAt(C, p) = C
  <2> HIDE DEF read
  <2>1. C \in Copies /\ Path(C) = p /\ ~IsRelation(C) /\ C.bucket = read.bucket
    BY <1>2, CutType
  <2> HIDE DEF C
  <2> QED BY <2>1, PlacedInPlace
<1> HIDE DEF C
<1>4. Working(m)
  BY <1>1, PastScanWorks
<1> DEFINE r == mover'[m]
<1>5. /\ r.step = "recording" /\ r.open = p /\ r.dest = p /\ r.read = read /\ r.todo = {}
      /\ r.to = mover[m].to /\ r.stage = "place"
  <2> HIDE DEF p
  <2> QED BY <1>1 DEF Moving
<1>6. Sound(m)'
  <2>1. \E c \in Cuts : PlacedAt(Cut(r.read, c), Path(r.read)) \in files'
    BY <1>1, <1>3, <1>5 DEF C
  <2>2. \A f \in Indexed' : f \in Indexed \/ f.bucket = read.bucket
    BY <1>1, <1>3 DEF Indexed
  <2> HIDE DEF read
  <2>3. Recording(m)'
    BY <1>2, <1>5, <2>1 DEF Recording, CutAt
  <2>4. Renaming(m)'
    BY <1>2, <1>5, <2>2 DEF Renaming
  <2> QED BY <1>5, <2>3, <2>4 DEF Sound, Chosen, Writing, Written, Archiving
<1>7. Picked(m)'
  BY <1>5 DEF Picked, Repairs, Sweeps
<1>8. RelationsArchived'
  BY <1>1, <1>3 DEF LoneInv, RelationsArchived
<1>9. ASSUME NEW t \in texts' PROVE Safe(t)'
  <2>1. Safe(t)
    BY <1>1, <1>9 DEF LoneInv
  <2>2. CASE t \in spoiled
    BY <1>1, <2>2 DEF Safe
  <2>3. ASSUME NEW n \in Movers, InPlace(n) PROVE FALSE
    <3>1. n = m
      BY <1>4, <2>3, OnlyOneInPlace
    <3> QED BY <1>1, <2>3, <3>1 DEF InPlace
  <2>4. ASSUME NEW f \in files, f.text = t, Fine(f) PROVE Safe(t)'
    <3>1. CASE Path(f) # p
      BY <1>1, <2>4, <3>1 DEF Safe
    <3>2. CASE Path(f) = p
      <4>1. f = read
        BY <1>2, <3>2 DEF Typed, OnePerPath
      <4>2. InPlace(m)' /\ mover'[m].read.text = t /\ Fine(mover'[m].read)
        BY <1>5, <2>4, <4>1 DEF InPlace
      <4> QED BY <4>2 DEF Safe
    <3> QED BY <3>1, <3>2
  <2> QED BY <2>1, <2>2, <2>3, <2>4 DEF Safe
<1>10. OnBoard'
  <2>1. \A n \in Movers : mover'[n].todo = {} /\ mover'[n].step # "writing"
    BY <1>1, <1>4, <1>5, OthersRest
  <2>2. C \in files' /\ ~IsRelation(C) /\ ~CutInArchive(C)
    BY <1>1, <1>2, <1>3 DEF CutInArchive
  <2> QED BY <2>1, <2>2, StandsWritten
<1> QED BY <1>1, <1>4, <1>6, <1>7, <1>8, <1>9, <1>10, FilesWritten

\* The outcome goes over the cut copy.
LEMMA FillRecordReplaces ==
    ASSUME Typed, LoneInv, NEW m \in Movers, FillRecord(m)
    PROVE  LET read == mover[m].read
               W == WithBlock(read, "outcome")
           IN  /\ files' = {g \in files : Path(g) # Path(read)} \cup {W}
               /\ W \in Copies /\ Path(W) = Path(read) /\ W.bucket = read.bucket
               /\ W.text = read.text /\ W.kind = read.kind /\ W.body = read.body
               /\ W.block = IF read.block = "open" THEN "broken" ELSE "outcome"
               /\ IsGenerated(W) <=> IsGenerated(read)
               /\ \E cut \in Cuts : Cut(read, cut) \in files /\ Path(Cut(read, cut)) = Path(read)
               /\ ~IsRelation(read) /\ read.block # "broken"
               /\ mover[m].to = "complete" /\ read.bucket # "archived"
               /\ read.bucket # mover[m].to => \A f \in Indexed : f.bucket # mover[m].to
<1> DEFINE read == mover[m].read
           p == Path(read)
           W == WithBlock(read, "outcome")
<1>1. mover[m].step = "recording" /\ mover[m].open = p /\ read \in Copies
  BY DEF FillRecord, LoneInv, Sound, Recording, Typed, Moving
<1>2. PICK cut \in Cuts : PlacedAt(Cut(read, cut), p) \in files
  BY <1>1 DEF LoneInv, Sound, Recording, CutAt
<1>3. Cut(read, cut) \in files /\ Path(Cut(read, cut)) = p
  <2>1. Cut(read, cut) \in Copies /\ Path(Cut(read, cut)) = p
    <3> HIDE DEF read
    <3> QED BY <1>1, CutType
  <2>2. PlacedAt(Cut(read, cut), p) = Cut(read, cut)
    <3> DEFINE C == Cut(read, cut)
    <3>1. C \in Copies /\ Path(C) = p
      BY <2>1
    <3>2. PlacedAt(C, Path(C)) = C
      <4> HIDE DEF C
      <4> QED BY <3>1, PlacedInPlace
    <3> QED BY <3>1, <3>2
  <2> QED BY <1>2, <2>1, <2>2
<1>4. /\ W \in Copies /\ Path(W) = p /\ W.bucket = read.bucket
      /\ W.text = read.text /\ W.kind = read.kind /\ W.body = read.body
      /\ W.block = IF read.block = "open" THEN "broken" ELSE "outcome"
      /\ IsGenerated(W) <=> IsGenerated(read)
  <2> HIDE DEF read
  <2> QED BY <1>1, WithBlockType
<1>5. PlacedAt(W, p) = W
  <2>1. PlacedAt(W, Path(W)) = W
    <3> HIDE DEF W
    <3> QED BY <1>4, PlacedInPlace
  <2> QED BY <1>4, <2>1
<1>6. files' = {g \in files : Path(g) # p} \cup {W}
  <2>1. p \in Paths
    BY <1>3 DEF Paths
  <2>2. files' = Replaced(p, PlacedAt(W, p))
    BY <1>1, <2>1 DEF FillRecord, Rest
  <2> QED BY <1>5, <2>2 DEF Replaced
<1>7. /\ ~IsRelation(read) /\ read.block # "broken"
      /\ mover[m].to = "complete" /\ read.bucket # "archived"
      /\ read.bucket # mover[m].to => \A f \in Indexed : f.bucket # mover[m].to
  BY <1>1 DEF LoneInv, Sound, Recording, Renaming, Placing
<1> HIDE DEF W, read, p
<1>8. \E c \in Cuts : Cut(read, c) \in files /\ Path(Cut(read, c)) = Path(read)
  BY <1>3 DEF p
<1> QED BY <1>4, <1>6, <1>7, <1>8 DEF W, read, p

\* The outcome is written.
LEMMA FillRecordLone ==
    ASSUME Typed, Alone, LoneInv, NEW m \in Movers, FillRecord(m)
    PROVE  LoneInv'
<1> DEFINE read == mover[m].read
           p == Path(read)
           W == WithBlock(read, "outcome")
           there == read.bucket = mover[m].to
           stage == IF there THEN "returned" ELSE "place"
           step == IF there THEN "scan" ELSE "rename"
<1>1. /\ mover[m] \in Moving /\ mover[m].step = "recording" /\ mover[m].todo = {}
      /\ mover'[m] = [mover[m] EXCEPT !.stage = stage, !.step = step, !.read = read,
                                      !.open = NoPath]
      /\ \A n \in Movers \ {m} : mover'[n] = mover[n]
      /\ texts' = texts /\ spoiled' = spoiled /\ calm' = calm
  BY DEF FillRecord, Go, Typed, StandsRight, Placing
<1>2. stage \notin Repairs \cup Sweeps /\ step \in {"scan", "rename"} /\ (step = "rename" => ~there)
  BY DEF Repairs, Sweeps
<1>3. /\ files' = {g \in files : Path(g) # p} \cup {W}
      /\ W \in Copies /\ Path(W) = p /\ W.bucket = read.bucket
      /\ W.text = read.text /\ W.kind = read.kind /\ W.body = read.body
      /\ W.block = IF read.block = "open" THEN "broken" ELSE "outcome"
      /\ \E cut \in Cuts : Cut(read, cut) \in files /\ Path(Cut(read, cut)) = p
      /\ ~IsRelation(read) /\ read.block # "broken"
      /\ mover[m].to = "complete" /\ read.bucket # "archived"
      /\ read.bucket # mover[m].to => \A f \in Indexed : f.bucket # mover[m].to
  BY FillRecordReplaces
<1>4. PICK cut \in Cuts : Cut(read, cut) \in files /\ Path(Cut(read, cut)) = p
  BY <1>3
<1>5. ~IsRelation(W)
  BY <1>3 DEF IsRelation
<1>6. ~Fine(Cut(read, cut))
  <2>1. read \in Copies
    BY <1>1 DEF Moving
  <2> HIDE DEF read
  <2> QED BY <2>1, CutType DEF Fine
<1>7. Working(m)
  BY <1>1, PastScanWorks
<1> HIDE DEF W, stage, step, there
<1> DEFINE r == mover'[m]
<1>8. /\ r.step = step /\ r.read = read /\ r.todo = {} /\ r.to = mover[m].to /\ r.stage = stage
  <2> HIDE DEF read
  <2> QED BY <1>1 DEF Moving
<1>9. Sound(m)'
  <2>1. CASE step = "scan"
    BY <1>8, <2>1, QuietMover
  <2>2. CASE step = "rename"
    <3>1. W \in files'
      BY <1>3
    <3>2. \A f \in Indexed' : f \in Indexed \/ f.bucket = read.bucket
      BY <1>3 DEF Indexed
    <3>3. read.bucket # mover[m].to
      BY <1>2, <2>2 DEF there
    <3>4. \E f \in files' : Path(f) = Path(read) /\ ~IsRelation(f)
      BY <1>3, <1>5, <3>1
    <3> HIDE DEF read
    <3>5. Renaming(m)'
      BY <1>3, <1>8, <2>2, <3>2, <3>3, <3>4 DEF Renaming
    <3> QED BY <1>8, <2>2, <3>5 DEF Sound, Chosen, Writing, Written, Archiving, Recording
  <2> QED BY <1>2, <2>1, <2>2
<1>10. Picked(m)'
  BY <1>2, <1>8 DEF Picked
<1>11. RelationsArchived'
  BY <1>3, <1>5 DEF LoneInv, RelationsArchived
<1>12. ASSUME NEW t \in texts' PROVE Safe(t)'
  <2>1. Safe(t)
    BY <1>1, <1>12 DEF LoneInv
  <2>2. CASE t \in spoiled
    BY <1>1, <2>2 DEF Safe
  <2>3. ASSUME NEW n \in Movers, InPlace(n), mover[n].read.text = t, Fine(mover[n].read)
        PROVE  Safe(t)'
    <3>1. n = m
      BY <1>7, <2>3, OnlyOneInPlace
    <3>2. W.text = t /\ Fine(W)
      BY <1>3, <2>3, <3>1 DEF Fine
    <3> QED BY <1>3, <3>2 DEF Safe
  <2>4. ASSUME NEW f \in files, f.text = t, Fine(f) PROVE Safe(t)'
    <3>1. Path(f) # p
      BY <1>4, <1>6, <2>4 DEF Typed, OnePerPath
    <3> QED BY <1>3, <2>4, <3>1 DEF Safe
  <2> QED BY <2>1, <2>2, <2>3, <2>4 DEF Safe
<1>13. OnBoard'
  <2>1. \A n \in Movers : mover'[n].todo = {} /\ mover'[n].step # "writing"
    BY <1>1, <1>2, <1>7, <1>8, OthersRest
  <2>2. W \in files' /\ ~IsRelation(W) /\ ~CutInArchive(W)
    BY <1>3, <1>5 DEF CutInArchive
  <2> QED BY <2>1, <2>2, StandsWritten
<1> QED BY <1>1, <1>7, <1>9, <1>10, <1>11, <1>12, <1>13, FilesWritten

\* What a rename under these conditions does: one copy that is no relation
\* moves, and takes the place of none that the index knows.
LEMMA RenameMoves ==
    ASSUME Typed, Alone, LoneInv, NEW m \in Movers, Rename(m)
    PROVE  LET p     == Path(mover[m].read)
               x     == At(p)
               moved == [x EXCEPT !.bucket = mover[m].to]
               dest  == <<mover[m].to, mover[m].read.base, mover[m].read.nth>>
           IN  /\ x \in files /\ Path(x) = p /\ ~IsRelation(x)
               /\ moved \in Copies /\ Path(moved) = dest /\ moved.bucket = mover[m].to
               /\ moved.text = x.text /\ moved.kind = x.kind /\ moved.body = x.body
               /\ moved.block = x.block
               /\ files' = {f \in files : Path(f) \notin {p, dest}} \cup {moved}
               /\ calm' = (calm /\ ~CutInArchive(moved))
               /\ spoiled' = spoiled \cup {f.text : f \in {g \in files :
                                 mover[m].to = "archived" /\ Path(g) = dest}}
               /\ \A g \in files : Path(g) = dest =>
                     g.block = "broken" \/ (IsRelation(g) /\ mover[m].to = "archived")
               /\ mover' = [mover EXCEPT ![m].stage = "repair_again", ![m].step = "scan",
                                         ![m].got = dest]
<1> DEFINE read == mover[m].read
           to == mover[m].to
           p == Path(read)
           x == At(p)
           dest == <<to, read.base, read.nth>>
           moved == [x EXCEPT !.bucket = to]
           placed == [mover EXCEPT ![m].stage = "repair_again", ![m].step = "scan", ![m].got = dest]
<1>1. /\ mover[m] \in Moving /\ mover[m].step = "rename" /\ mover \in [Movers -> Moving]
      /\ read \in Copies /\ read.bucket # to /\ to \in Buckets
      /\ \E f \in files : Path(f) = p /\ ~IsRelation(f)
      /\ \A f \in Indexed : f.bucket # to
  BY DEF Rename, Typed, LoneInv, Sound, Renaming, Placing, Moving
<1>2. p \in Paths /\ x \in files /\ x \in Copies /\ Path(x) = p /\ ~IsRelation(x)
  <2>1. p \in Paths
    BY <1>1 DEF Paths
  <2> QED BY <1>1, <2>1, FileAt DEF Typed, OnePerPath
<1>3. x.base = read.base /\ x.nth = read.nth
  BY <1>2 DEF Path
<1>4. /\ moved \in Copies /\ moved.bucket = to
      /\ moved.text = x.text /\ moved.kind = x.kind /\ moved.body = x.body
      /\ moved.block = x.block /\ moved.base = x.base /\ moved.nth = x.nth
  <2> HIDE DEF x, to
  <2> QED BY <1>1, <1>2 DEF Copies
<1>5. Path(moved) = dest
  <2> HIDE DEF moved
  <2> QED BY <1>3, <1>4 DEF Path
<1>6. ASSUME NEW g \in files, Path(g) = dest
      PROVE  g.block = "broken" \/ (IsRelation(g) /\ to = "archived")
  <2>1. g.bucket = to
    BY <1>6 DEF Path
  <2>2. g \notin Indexed
    BY <1>1, <2>1
  <2>3. g.block = "broken" \/ IsRelation(g)
    BY <2>2 DEF Indexed
  <2>4. IsRelation(g) => g.bucket = "archived"
    BY DEF LoneInv, RelationsArchived
  <2>5. CASE IsRelation(g)
    BY <2>1, <2>4, <2>5
  <2>6. CASE g.block = "broken"
    BY <2>6
  <2> QED BY <2>3, <2>5, <2>6
<1>7. /\ files' = {f \in files : Path(f) \notin {p, dest}} \cup {moved}
      /\ mover' = Follow(placed, p, dest)
      /\ calm' = (calm /\ ~CutInArchive(moved))
      /\ spoiled' = spoiled \cup {f.text : f \in {g \in files : to = "archived" /\ Path(g) = dest}}
  BY <1>2 DEF Rename
<1>8. Working(m)
  BY <1>1, PastScanWorks
<1>9. mover' = placed
  <2>2. /\ placed[m] = [mover[m] EXCEPT !.stage = "repair_again", !.step = "scan", !.got = dest]
        /\ \A n \in Movers \ {m} : placed[n] = mover[n]
    BY <1>1
  <2>3. dest \in FolderPaths
    BY <1>1 DEF Moving, Copies, FolderPaths
  <2>4. placed[m] \in Moving /\ placed[m].step = "scan"
    <3> HIDE DEF dest
    <3> QED BY <1>1, <2>2, <2>3 DEF Moving, Stages, Repairs
  <2>5. placed \in [Movers -> Moving]
    <3> HIDE DEF dest
    <3> QED BY <1>1, <2>2, <2>4
  <2>6. \A n \in Movers \ {m} : mover[n].step = "scan"
    BY <1>8 DEF Alone, Working, AtRest, Typed, StandsRight
  <2> HIDE DEF placed, dest, p
  <2>7. \A n \in Movers : placed[n].step \notin {"writing", "recording"}
    BY <2>2, <2>4, <2>6
  <2>8. Follow(placed, p, dest) = placed
    BY <2>5, <2>7, NobodyWriting
  <2> QED BY <1>7, <2>8
<1> QED BY <1>2, <1>4, <1>5, <1>6, <1>7, <1>9

\* The rename.
LEMMA RenameLone ==
    ASSUME Typed, Alone, LoneInv, NEW m \in Movers, Rename(m)
    PROVE  LoneInv'
<1> DEFINE p == Path(mover[m].read)
           to == mover[m].to
           x == At(p)
           moved == [x EXCEPT !.bucket = to]
           dest == <<to, mover[m].read.base, mover[m].read.nth>>
<1>1. /\ x \in files /\ Path(x) = p /\ ~IsRelation(x)
      /\ moved \in Copies /\ Path(moved) = dest /\ moved.bucket = to
      /\ moved.text = x.text /\ moved.body = x.body /\ moved.block = x.block
      /\ files' = {f \in files : Path(f) \notin {p, dest}} \cup {moved}
      /\ calm' = (calm /\ ~CutInArchive(moved))
      /\ spoiled' = spoiled \cup {f.text : f \in {g \in files : to = "archived" /\ Path(g) = dest}}
      /\ \A g \in files : Path(g) = dest => g.block = "broken" \/ (IsRelation(g) /\ to = "archived")
      /\ mover' = [mover EXCEPT ![m].stage = "repair_again", ![m].step = "scan", ![m].got = dest]
  BY RenameMoves
<1>2. /\ mover[m] \in Moving /\ mover \in [Movers -> Moving] /\ StandsRight(mover[m])
      /\ mover[m].step = "rename" /\ mover[m].todo = {} /\ texts' = texts
  BY DEF Rename, Typed, StandsRight, Placing
<1> HIDE DEF moved, dest, x
<1>3. /\ mover'[m] = [mover[m] EXCEPT !.stage = "repair_again", !.step = "scan", !.got = dest]
      /\ \A n \in Movers \ {m} : mover'[n] = mover[n]
  BY <1>1, <1>2
<1>4. mover'[m].step = "scan" /\ mover'[m].todo = {}
  BY <1>2, <1>3 DEF Moving
<1>5. Working(m)
  BY <1>2, PastScanWorks
<1>6. Sound(m)' /\ Picked(m)'
  BY <1>4, QuietMover DEF Picked
<1>7. ~IsRelation(moved)
  BY <1>1 DEF IsRelation
<1>8. RelationsArchived'
  BY <1>1, <1>7 DEF LoneInv, RelationsArchived
<1>9. ASSUME NEW t \in texts' PROVE Safe(t)'
  <2>1. Safe(t)
    BY <1>2, <1>9 DEF LoneInv
  <2>2. CASE t \in spoiled
    BY <1>1, <2>2 DEF Safe
  <2>3. ASSUME NEW n \in Movers, InPlace(n) PROVE FALSE
    <3>1. n = m
      BY <1>5, <2>3, OnlyOneInPlace
    <3> QED BY <1>2, <2>3, <3>1 DEF InPlace
  <2>4. ASSUME NEW f \in files, f.text = t, Fine(f) PROVE Safe(t)'
    <3>1. CASE Path(f) = p
      <4>1. f = x
        BY <1>1, <3>1 DEF Typed, OnePerPath
      <4>2. Fine(moved) /\ moved.text = t /\ moved \in files'
        BY <1>1, <2>4, <4>1 DEF Fine
      <4> QED BY <4>2 DEF Safe
    <3>2. CASE Path(f) = dest
      <4>1. to = "archived"
        BY <1>1, <2>4, <3>2 DEF Fine
      <4>2. t \in spoiled'
        BY <1>1, <2>4, <3>2, <4>1
      <4> QED BY <4>2 DEF Safe
    <3>3. CASE Path(f) \notin {p, dest}
      BY <1>1, <2>4, <3>3 DEF Safe
    <3> QED BY <3>1, <3>2, <3>3
  <2> QED BY <2>1, <2>2, <2>3, <2>4 DEF Safe
<1>10. OnBoard'
  <2>1. \A n \in Movers : mover'[n].todo = {} /\ mover'[n].step = "scan"
    BY <1>3, <1>4, <1>5, OthersRest
  <2>2. moved \in files' /\ (calm' => ~CutInArchive(moved))
    BY <1>1
  <2> QED BY <1>7, <2>1, <2>2, StandsWritten
<1> QED BY <1>3, <1>5, <1>6, <1>8, <1>9, <1>10, FilesWritten

\* A mover that stops: what it was writing where it stands is spoiled.
LEMMA CrashLone ==
    ASSUME Typed, LoneInv, NEW m \in Movers, Crash(m)
    PROVE  LoneInv'
<1>1. /\ Fail(m) /\ files' = files /\ texts' = texts /\ calm' = calm
      /\ spoiled \subseteq spoiled' /\ (InPlace(m) => mover[m].read.text \in spoiled')
  BY DEF Crash
<1> QED BY <1>1, FailLone

\* Every step of a mover that works alone.
LEMMA NextLone ==
    ASSUME Typed, Alone, LoneInv, [Next]_vars
    PROVE  LoneInv'
<1>1. CASE UNCHANGED vars
  <2>1. \A n \in Movers : Sound(n)' /\ Picked(n)'
    BY <1>1, FrameMover DEF vars, LoneInv
  <2>2. OnBoard'
    BY <1>1, StillOnBoard DEF vars, LoneInv
  <2>3. \A t \in texts' : Safe(t)'
    BY <1>1 DEF vars, LoneInv, Safe, InPlace
  <2> QED BY <1>1, <2>1, <2>2, <2>3 DEF vars, LoneInv, RelationsArchived
<1>2. ASSUME NEW m \in Movers, NEW to \in Targets, NEW rec \in BOOLEAN, Start(m, to, rec)
      PROVE  LoneInv'
  BY <1>2, StartLone
<1>3. ASSUME NEW m \in Movers, Step(m) PROVE LoneInv'
  BY <1>3, ScanLone, PassEndsLone, ReadSourceLone, CutLone, FillLone, RemoveLone,
     PlaceLone, ReadOutcomeLone, CutRecordLone, FillRecordLone, RenameLone DEF Step
<1>4. ASSUME NEW m \in Movers, Crash(m) PROVE LoneInv'
  BY <1>4, CrashLone
<1> QED BY <1>1, <1>2, <1>3, <1>4 DEF Next

\* A mover that writes a file where it stands has it open.
LEMMA SafeSurvives ==
    ASSUME Typed, LoneInv, NEW t, Safe(t)
    PROVE  Survives(t) \/ t \in spoiled
<1>1. ASSUME NEW f \in files, f.text = t, Fine(f) PROVE Survives(t)
  BY <1>1 DEF Survives, Fine
<1>2. ASSUME NEW m \in Movers, InPlace(m), mover[m].read.text = t, Fine(mover[m].read)
      PROVE  Survives(t)
  <2> DEFINE read == mover[m].read
             o == mover[m].open
  <2>1. mover[m].step \in {"writing", "recording"} /\ read \in Copies /\ o \in FolderPaths
    BY <1>2 DEF InPlace, Typed, Moving
  <2>2. PICK cut \in Cuts : PlacedAt(Cut(read, cut), o) \in files
    BY <1>2, <2>1 DEF InPlace, LoneInv, Sound, Writing, Recording, CutAt
  <2>3. Path(PlacedAt(Cut(read, cut), o)) = o
    <3> HIDE DEF read, o
    <3> QED BY <2>1, CutType, PlacedType
  <2>4. o \in Paths
    BY <2>2, <2>3 DEF Paths
  <2> QED BY <1>2, <2>1, <2>4 DEF Survives, Fine
<1> QED BY <1>1, <1>2 DEF Safe

\* The texts that the folders held are never lost: each is whole in some file,
\* or in the memory of the mover that writes its file, unless a mover died
\* while it wrote that file where it stands, or a move to the archive replaced
\* a relation copy of the same name.
THEOREM TextsSurvive == Spec /\ []Alone => []NothingLost
<1>1. Init => Typed /\ LoneInv
  BY InitTyped, InitLone
<1>2. Typed /\ LoneInv /\ Alone /\ [Next]_vars => (Typed /\ LoneInv)'
  BY NextTyped, NextLone
<1>3. Typed /\ LoneInv => NothingLost
  BY SafeSurvives DEF LoneInv, NothingLost
<1> QED BY <1>1, <1>2, <1>3, PTL DEF Spec

\* The ticket keeps a copy of its own on the board, be it cut by a move that
\* died writing its outcome: the cut rest of an archive step stands for it only
\* once a scan has read such a rest, or a move has put one there.
THEOREM TicketStays == Spec /\ []Alone => []StaysOnBoard
<1>1. Init => Typed /\ LoneInv
  BY InitTyped, InitLone
<1>2. Typed /\ LoneInv /\ Alone /\ [Next]_vars => (Typed /\ LoneInv)'
  BY NextTyped, NextLone
<1>3. LoneInv => StaysOnBoard
  BY DEF LoneInv, OnBoard, Stands, StaysOnBoard, Indexed
<1> QED BY <1>1, <1>2, <1>3, PTL DEF Spec

\* A step outside a discard archives no copy that somebody wrote by hand.
LEMMA StepKeepsManual ==
    ASSUME Typed, Alone, LoneInv, [Next]_vars,
           \A m \in Movers : mover[m].stage # "discard"
    PROVE  ManualArchived(files') \subseteq ManualArchived(files)
<1> DEFINE Manual(f) == f.kind = "manual" /\ IsRelation(f)
           Carried == \A f \in files' : Manual(f) => \E g \in files : Manual(g) /\ g.text = f.text
<1>1. SUFFICES Carried
  BY DEF ManualArchived
<1>2. CASE files' \subseteq files
  BY <1>2
<1>3. ASSUME NEW m \in Movers, NEW cut \in Cuts, CutDestination(m, cut) PROVE Carried
  <2> DEFINE A == PlacedAt(Cut(mover[m].read, cut), mover[m].dest)
  <2>1. ~IsRelation(A)
    <3>1. mover[m].read \in Copies /\ mover[m].dest \in FolderPaths
      BY DEF Typed, Moving
    <3> QED BY <3>1, CutType, PlacedType
  <2>2. files' = Replaced(mover[m].dest, A)
    BY <1>3 DEF CutDestination
  <2> HIDE DEF A
  <2> QED BY <2>1, <2>2 DEF Replaced
<1>4. ASSUME NEW m \in Movers, FillDestination(m) PROVE Carried
  <2>1. mover[m].step = "writing" /\ mover[m].stage \in Repairs \cup Sweeps
    BY <1>4 DEF FillDestination, Typed, StandsRight, Moving, Stages, Placing
  <2>2. mover[m].read.kind = "generated"
    BY <2>1 DEF LoneInv, Picked
  <2>3. Filled(m).kind = "generated"
    BY <2>2, FilledType
  <2>4. files' = {g \in files : Path(g) # mover[m].dest} \cup {Filled(m)}
    BY <1>4, FillReplaces
  <2> QED BY <2>3, <2>4
<1>5. ASSUME NEW m \in Movers, NEW cut \in Cuts, CutRecord(m, cut) PROVE Carried
  <2>1. ~IsRelation(Cut(mover[m].read, cut))
    <3>1. mover[m].read \in Copies
      BY DEF Typed, Moving
    <3> QED BY <3>1, CutType
  <2> QED BY <1>5, <2>1 DEF CutRecord, Replaced
<1>6. ASSUME NEW m \in Movers, FillRecord(m) PROVE Carried
  <2> DEFINE W == WithBlock(mover[m].read, "outcome")
  <2>1. /\ files' = {g \in files : Path(g) # Path(mover[m].read)} \cup {W}
        /\ W.block = IF mover[m].read.block = "open" THEN "broken" ELSE "outcome"
    BY <1>6, FillRecordReplaces
  <2>2. ~IsRelation(W)
    BY <2>1 DEF IsRelation
  <2> HIDE DEF W
  <2> QED BY <2>1, <2>2
<1>7. ASSUME NEW m \in Movers, Rename(m) PROVE Carried
  <2> DEFINE p == Path(mover[m].read)
             dest == <<mover[m].to, mover[m].read.base, mover[m].read.nth>>
             moved == [At(p) EXCEPT !.bucket = mover[m].to]
  <2>1. /\ ~IsRelation(At(p)) /\ moved.block = At(p).block
        /\ files' = {f \in files : Path(f) \notin {p, dest}} \cup {moved}
    BY <1>7, RenameMoves
  <2>2. ~IsRelation(moved)
    BY <2>1 DEF IsRelation
  <2> HIDE DEF moved
  <2> QED BY <2>1, <2>2
<1>8. ASSUME NEW m \in Movers, RemoveSource(m) PROVE Carried
  BY <1>2, <1>8 DEF RemoveSource
<1>9. CASE files' = files
  BY <1>2, <1>9
<1> HIDE DEF Carried
<1>10. ASSUME NEW m \in Movers, Step(m) PROVE Carried
  BY <1>3, <1>4, <1>5, <1>6, <1>7, <1>8, <1>9, <1>10
     DEF Step, Scan, PassEnds, ReadSource, Place, ReadOutcome
<1> QED BY <1>9, <1>10 DEF Next, Start, Crash, vars

\* A copy that somebody wrote by hand is archived by an explicit discard alone.
THEOREM ManualKept == Spec /\ []Alone => ProtectedKept
<1>1. Init => Typed /\ LoneInv
  BY InitTyped, InitLone
<1>2. Typed /\ LoneInv /\ Alone /\ [Next]_vars => (Typed /\ LoneInv)'
  BY NextTyped, NextLone
<1>3. Typed /\ Alone /\ LoneInv /\ [Next]_vars =>
        [ManualArchived(files') \subseteq ManualArchived(files)
           \/ \E m \in Movers : mover[m].stage = "discard"]_vars
  BY StepKeepsManual
<1> QED BY <1>1, <1>2, <1>3, PTL DEF Spec, ProtectedKept

-----------------------------------------------------------------------------
\* Where a move of the only mover lands.

\* At most one element, as the code counts it.
LEMMA CountOne ==
    ASSUME NEW S, IsFiniteSet(S)
    PROVE  Cardinality(S) <= 1 <=> \A f, g \in S : f = g
<1>1. Cardinality(S) \in Nat
  BY FS_CardinalityType
<1>2. ASSUME NEW f \in S, NEW g \in S, f # g
      PROVE  ~(Cardinality(S) <= 1)
  <2>1. IsFiniteSet(S \ {f}) /\ Cardinality(S \ {f}) = Cardinality(S) - 1
    BY <1>2, FS_RemoveElement
  <2>2. Cardinality(S \ {f}) # 0
    BY <1>2, <2>1, FS_EmptySet
  <2> QED BY <1>1, <2>1, <2>2, FS_CardinalityType
<1>3. ASSUME \A f, g \in S : f = g PROVE Cardinality(S) <= 1
  <2>1. CASE S = {}
    BY <2>1, FS_EmptySet
  <2>2. CASE S # {}
    <3>1. PICK f \in S : TRUE
      BY <2>2
    <3>2. S = {f}
      BY <1>3, <3>1
    <3> QED BY <3>2, FS_Singleton
  <2> QED BY <2>1, <2>2
<1> QED BY <1>2, <1>3

\* A sweep has nothing to do when the ticket is not actioned or has no
\* generated queued copy.
LEMMA NothingToSweep ==
    SweepDuplicates = {} <=> Active = {} \/ QueuedCopies = {}
BY DEF SweepDuplicates, Status, QueuedCopies, Queuing

\* A repair that is not refused leaves one actioned copy off its list.
LEMMA RepairLeavesOne ==
    ASSUME Typed, ~RepairRefused, NEW f \in Canonical, NEW g \in Canonical,
           Path(f) \notin RepairDuplicates, Path(g) \notin RepairDuplicates
    PROVE  f = g
<1>1. IsFiniteSet(Canonical) /\ IsFiniteSet(Protected)
  BY FS_Subset DEF Typed, Canonical, Protected
<1>2. CASE Cardinality(Canonical) <= 1
  BY <1>1, <1>2, CountOne
<1>3. CASE ~(Cardinality(Canonical) <= 1)
  <2>1. Cardinality(Protected) <= 1
    <3>1. Cardinality(Canonical) \in Nat /\ Cardinality(Protected) \in Nat
      BY <1>1, FS_CardinalityType
    <3> QED BY <1>3, <3>1 DEF RepairRefused
  <2>2. \A a, b \in Protected : a = b
    BY <1>1, <2>1, CountOne
  <2>3. ASSUME NEW h \in Canonical, Path(h) \notin RepairDuplicates PROVE h = Kept
    <3>1. CASE IsGenerated(h)
      BY <1>3, <2>3, <3>1 DEF RepairDuplicates
    <3>2. CASE ~IsGenerated(h)
      <4>1. h \in Protected
        BY <3>2 DEF Protected
      <4>2. Kept \in Protected
        BY <4>1, KeptIsCanonical DEF Typed
      <4> QED BY <2>2, <4>1, <4>2
    <3> QED BY <3>1, <3>2
  <2> QED BY <2>3
<1> QED BY <1>2, <1>3

\* When the index knows no other actioned copy than one that a repair has
\* picked, the repair has preferred a copy that the index cannot read.
LEMMA RepairPrefers ==
    ASSUME Typed, NEW f \in files, Path(f) \in RepairDuplicates, Active \subseteq {f}
    PROVE  \E g \in files : g.block = "broken" /\ Path(g) \notin RepairDuplicates
<1>1. Kept \in Canonical /\ Path(Kept) \notin RepairDuplicates
  BY RepairLeaves DEF Typed
<1>2. Kept \in files /\ ~IsRelation(Kept) /\ Kept \notin Active
  BY <1>1 DEF Canonical
<1>3. Kept.block = "broken"
  BY <1>1, <1>2 DEF Active, Indexed
<1> QED BY <1>1, <1>2, <1>3

\* The lists name actioned copies, and queued ones.
LEMMA PickedBuckets ==
    /\ \A p \in RepairDuplicates : p[1] \in Actioned
    /\ \A p \in SweepDuplicates : p[1] \in Queued
BY DEF RepairDuplicates, SweepDuplicates, Canonical, Path

\* No copy is in flight between the file operations.
LEMMA NoneInFlight ==
    ASSUME NEW m \in Movers, mover[m].step # "writing"
    PROVE  Settled(m) = Active
BY DEF Settled, InFlight

\* A mover at the scan of a repair, or at rest after a failure, owes nothing.
LEMMA FreshLands ==
    ASSUME NEW m \in Movers, mover'[m].stage \in {"repair", "failed"}, mover'[m].step = "scan"
    PROVE  LandInv(m)'
BY DEF LandInv, OneLeft, OneAtMost, Sweeping, Swept, Discarding, Source, Landing, HasLanded,
       Repairs, Sweeps, Placing

\* A mover that fails.
LEMMA FailLands ==
    ASSUME Typed, NEW m \in Movers, Fail(m)
    PROVE  LandInv(m)'
<1>1. mover'[m] = [Idle EXCEPT !.stage = "failed", !.to = mover[m].to]
  BY DEF Fail, Typed
<1>2. mover'[m].stage = "failed" /\ mover'[m].step = "scan"
  BY <1>1 DEF Idle
<1> QED BY <1>2, FreshLands

\* The scan of a repair: one actioned copy is left off the list, and the moved
\* copy too, unless a repair prefers one that the index cannot read.
LEMMA RepairScanLands ==
    ASSUME Typed, NEW m \in Movers, LandInv(m), mover[m].step = "scan",
           mover[m].stage \in Repairs, ~RepairRefused, files' = files,
           mover'[m].step = "archive", mover'[m].todo = RepairDuplicates,
           mover'[m].to = mover[m].to, mover'[m].stage = mover[m].stage,
           mover'[m].got = mover[m].got
    PROVE  LandInv(m)'
<1> DEFINE todo == RepairDuplicates
<1>1. IsFiniteSet(files) /\ OnePerPath
  BY DEF Typed
<1>2. /\ mover'[m].step = "archive" /\ mover'[m].todo = todo /\ mover'[m].to = mover[m].to
      /\ mover'[m].stage = mover[m].stage /\ mover'[m].got = mover[m].got
  OBVIOUS
<1> HIDE DEF todo
<1>3. /\ Active' = Active /\ QueuedCopies' = QueuedCopies
      /\ Settled(m) = Active /\ Settled(m)' = Active
  BY <1>2, NoneInFlight DEF Active, Canonical, QueuedCopies, Indexed, Settled, InFlight
<1>4. \A f \in files : ~InFlight(m, f)'
  BY <1>2 DEF InFlight
<1>5. OneLeft(m)'
  BY <1>2, <1>3, RepairLeavesOne DEF OneLeft, todo, Active
<1>6. OneAtMost(m)'
  BY <1>2, <1>3 DEF LandInv, OneAtMost
<1>7. Swept(m)'
  BY <1>2, <1>3 DEF LandInv, Swept
<1>8. Landing(m)'
  <2> SUFFICES ASSUME mover[m].stage = "repair_again"
               PROVE  mover[m].got[1] = mover[m].to /\ (Firm(m)' \/ Excused(m)' \/ Beaten(m)')
    BY <1>2 DEF Landing, Repairs
  <2>1. mover[m].got[1] = mover[m].to /\ (Firm(m) \/ Excused(m))
    BY DEF LandInv, Landing
  <2>2. ASSUME NEW f \in files, Path(f) \in todo, Active \subseteq {f} PROVE Beaten(m)'
    <3>1. \E g \in files : g.block = "broken" /\ Path(g) \notin todo
      BY <2>2, RepairPrefers DEF todo
    <3> QED BY <1>2, <1>4, <3>1 DEF Beaten
  <2>3. CASE Firm(m)
    <3>1. PICK f \in files :
            /\ Path(f) = mover[m].got
            /\ mover[m].to = "discarded" \/ ~IsGenerated(f) \/ Settled(m) \subseteq {f}
      BY <2>3 DEF Firm
    <3>2. Path(f) \notin todo \/ Active \subseteq {f}
      <4>1. CASE mover[m].to = "discarded"
        BY <2>1, <3>1, <4>1, PickedBuckets DEF todo, Actioned
      <4>2. CASE ~IsGenerated(f)
        BY <1>1, <4>2, PickedGenerated DEF todo
      <4> QED BY <1>3, <3>1, <4>1, <4>2
    <3>3. Path(f) \notin todo => Firm(m)'
      BY <1>2, <1>3, <1>4, <3>1 DEF Firm
    <3> QED BY <2>1, <2>2, <3>2, <3>3
  <2>4. CASE Excused(m)
    <3>1. PICK c \in Active : c.bucket = "archived" /\ Active \subseteq {c}
      BY <1>3, <2>4 DEF Excused
    <3>2. c \in files
      BY <3>1 DEF Active, Canonical
    <3>3. Path(c) \notin todo => Excused(m)'
      BY <1>2, <1>3, <2>4, <3>1 DEF Excused
    <3> QED BY <2>1, <2>2, <3>1, <3>2, <3>3
  <2> QED BY <2>1, <2>3, <2>4
<1>9. Sweeping(m)' /\ Discarding(m)' /\ Source(m)' /\ HasLanded(m)'
  BY <1>2 DEF Sweeping, Discarding, Source, HasLanded, Repairs, Sweeps, Placing
<1> QED BY <1>5, <1>6, <1>7, <1>8, <1>9 DEF LandInv

\* The scan of a sweep: the moved copy is not on the list.
LEMMA SweepScanLands ==
    ASSUME Typed, NEW m \in Movers, LandInv(m), mover[m].step = "scan",
           mover[m].stage \in Sweeps, files' = files,
           mover'[m].step = "archive", mover'[m].todo = SweepDuplicates,
           mover'[m].to = mover[m].to, mover'[m].stage = mover[m].stage,
           mover'[m].got = mover[m].got
    PROVE  LandInv(m)'
<1> DEFINE todo == SweepDuplicates
<1>1. IsFiniteSet(files) /\ OnePerPath
  BY DEF Typed
<1>2. /\ mover'[m].step = "archive" /\ mover'[m].todo = todo /\ mover'[m].to = mover[m].to
      /\ mover'[m].stage = mover[m].stage /\ mover'[m].got = mover[m].got
  OBVIOUS
<1> HIDE DEF todo
<1>3. /\ Active' = Active /\ QueuedCopies' = QueuedCopies
      /\ Settled(m) = Active /\ Settled(m)' = Active
  BY <1>2, NoneInFlight DEF Active, Canonical, QueuedCopies, Indexed, Settled, InFlight
<1>4. \A f \in files : ~InFlight(m, f)'
  BY <1>2 DEF InFlight
<1>5. OneAtMost(m)'
  BY <1>2, <1>3 DEF LandInv, OneAtMost
<1>6. Sweeping(m)'
  <2>1. CASE Active = {}
    <3>1. todo = {}
      BY <2>1, NothingToSweep DEF todo
    <3> QED BY <1>2, <1>3, <2>1, <3>1 DEF Sweeping
  <2>2. CASE Active # {}
    <3>1. \A f \in QueuedCopies : Path(f) \in todo
      BY <2>2 DEF todo, SweepDuplicates, Status, QueuedCopies, Queuing
    <3> QED BY <1>2, <1>3, <3>1 DEF Sweeping
  <2> QED BY <2>1, <2>2
<1>7. Landing(m)'
  <2> SUFFICES ASSUME mover[m].stage = "sweep_again"
               PROVE  mover[m].got[1] = mover[m].to /\ (Firm(m)' \/ Excused(m)' \/ Beaten(m)')
    BY <1>2 DEF Landing, Sweeps
  <2>1. mover[m].got[1] = mover[m].to /\ (Firm(m) \/ Excused(m) \/ Beaten(m))
    BY DEF LandInv, Landing
  <2>2. Queued \cap Actioned = {} /\ "discarded" \notin Queued /\ "archived" \in Actioned
    BY DEF Queued, Actioned
  <2>3. CASE Firm(m)
    <3>1. PICK f \in files :
            /\ Path(f) = mover[m].got
            /\ mover[m].to = "discarded" \/ ~IsGenerated(f) \/ Settled(m) \subseteq {f}
      BY <2>3 DEF Firm
    <3>2. Path(f) \notin todo
      <4>1. CASE mover[m].to = "discarded"
        BY <2>1, <2>2, <3>1, <4>1, PickedBuckets DEF todo
      <4>2. CASE ~IsGenerated(f)
        BY <1>1, <4>2, PickedGenerated DEF todo
      <4>3. CASE Active = {}
        BY <4>3, NothingToSweep DEF todo
      <4>4. CASE Active = {f}
        BY <2>2, <4>4, PickedBuckets DEF todo, Active, Canonical, Path
      <4> QED BY <1>3, <3>1, <4>1, <4>2, <4>3, <4>4
    <3> QED BY <1>2, <1>3, <1>4, <2>1, <3>1, <3>2 DEF Firm
  <2>4. CASE Excused(m)
    <3>1. \A c \in Active : c.bucket = "archived" => Path(c) \notin todo
      BY <2>2, PickedBuckets DEF todo, Path
    <3>2. PICK c \in Active : c.bucket = "archived" /\ Active \subseteq {c} /\ mover[m].to \in Queued
      BY <1>3, <2>4 DEF Excused
    <3> QED BY <1>2, <1>3, <2>1, <3>1, <3>2 DEF Excused
  <2>5. CASE Beaten(m)
    <3>1. PICK f \in files : f.block = "broken"
      BY <2>5 DEF Beaten
    <3>2. Path(f) \notin todo
      BY <1>1, <3>1 DEF todo, SweepDuplicates, Indexed, OnePerPath
    <3> QED BY <1>2, <1>4, <2>1, <3>1, <3>2 DEF Beaten
  <2> QED BY <2>1, <2>3, <2>4, <2>5
<1>8. OneLeft(m)' /\ Swept(m)' /\ Discarding(m)' /\ Source(m)' /\ HasLanded(m)'
  BY <1>2 DEF OneLeft, Swept, Discarding, Source, HasLanded, Repairs, Sweeps, Placing
<1> QED BY <1>5, <1>6, <1>7, <1>8 DEF LandInv

\* What a step of the archiving does: it works off the list, adds no actioned
\* copy but the one in flight and no queued one, and touches no file off the
\* list.
Keeps(m) ==
    /\ mover[m].todo # {} /\ mover'[m].todo \subseteq mover[m].todo
    /\ mover'[m].step \in {"archive", "write", "writing", "written"}
    /\ mover'[m].stage = mover[m].stage /\ mover'[m].to = mover[m].to
    /\ mover'[m].got = mover[m].got
    /\ Settled(m)' \subseteq Settled(m) /\ QueuedCopies' \subseteq QueuedCopies
    /\ \A f \in files : Path(f) \notin mover[m].todo /\ ~InFlight(m, f) =>
           f \in files' /\ ~InFlight(m, f)'
    /\ \A f \in Indexed' : Path(f) \in mover[m].todo => Path(f) \in mover'[m].todo

\* Such a step keeps what the landing rests on.
LEMMA KeepsLands ==
    ASSUME Typed, LoneInv, NEW m \in Movers, LandInv(m), mover[m].step # "scan", Keeps(m)
    PROVE  LandInv(m)'
<1>1. /\ mover'[m].todo \subseteq mover[m].todo
      /\ mover'[m].step \in {"archive", "write", "writing", "written"}
      /\ mover'[m].stage = mover[m].stage /\ mover'[m].to = mover[m].to
      /\ mover'[m].got = mover[m].got
      /\ Settled(m)' \subseteq Settled(m) /\ QueuedCopies' \subseteq QueuedCopies
  BY DEF Keeps
<1>2. mover[m].stage \notin {"place", "returned"}
  BY DEF Keeps, Typed, StandsRight, AtRest
<1>3. \A f \in Settled(m)' : f \in Settled(m) /\
         (Path(f) \in mover[m].todo => Path(f) \in mover'[m].todo)
  BY DEF Keeps, Settled, Active, Indexed
<1>4. ASSUME NEW f \in files, Path(f) \notin mover[m].todo, ~InFlight(m, f)
      PROVE  /\ f \in files' /\ ~InFlight(m, f)' /\ Path(f) \notin mover'[m].todo
             /\ f \in Active => f \in Settled(m)'
  <2>1. f \in files' /\ ~InFlight(m, f)'
    BY <1>4 DEF Keeps
  <2> QED BY <1>1, <1>4, <2>1 DEF Settled, Active, Canonical, Indexed
<1>5. OneLeft(m)'
  <2> SUFFICES ASSUME mover[m].stage \in Repairs,
                      NEW f \in Settled(m)', NEW g \in Settled(m)',
                      Path(f) \notin mover'[m].todo, Path(g) \notin mover'[m].todo
               PROVE  f = g
    BY <1>1 DEF OneLeft
  <2>1. Path(f) \notin mover[m].todo /\ Path(g) \notin mover[m].todo
    BY <1>3
  <2> QED BY <1>3, <2>1 DEF LandInv, OneLeft
<1>6. OneAtMost(m)'
  BY <1>1, <1>3 DEF LandInv, OneAtMost
<1>7. Sweeping(m)'
  <2> SUFFICES ASSUME mover[m].stage \in Sweeps, NEW f \in QueuedCopies'
               PROVE  Path(f) \in mover'[m].todo
    BY <1>1 DEF Sweeping
  <2>1. f \in QueuedCopies /\ f \in Indexed'
    BY <1>1 DEF QueuedCopies
  <2>2. Path(f) \in mover[m].todo
    BY <2>1 DEF Keeps, LandInv, Sweeping
  <2> QED BY <2>1, <2>2 DEF Keeps
<1>8. Swept(m)'
  BY <1>1 DEF LandInv, Swept
<1>9. Discarding(m)'
  <2> SUFFICES ASSUME mover[m].stage = "discard"
               PROVE  /\ mover[m].got \in Paths' /\ mover[m].got \notin mover'[m].todo
                      /\ \A f \in Settled(m)' : Path(f) \in mover'[m].todo
    BY <1>1 DEF LandInv, Discarding
  <2>1. PICK f \in files : Path(f) = mover[m].got
    BY DEF LandInv, Discarding, Paths
  <2>2. Path(f) \notin mover[m].todo /\ ~InFlight(m, f)
    BY <2>1 DEF LandInv, LoneInv, Discarding, InFlight, Sound, Archiving
  <2>3. f \in files'
    BY <1>4, <2>2
  <2>4. mover[m].got \in Paths'
    BY <2>1, <2>3 DEF Paths
  <2> QED BY <1>1, <1>3, <2>4 DEF LandInv, Discarding
<1>10. Landing(m)'
  <2> SUFFICES ASSUME mover[m].stage \in {"repair_again", "sweep_again"}
               PROVE  mover[m].got[1] = mover[m].to /\ (Firm(m)' \/ Excused(m)' \/ Beaten(m)')
    BY <1>1 DEF Landing
  <2>1. mover[m].got[1] = mover[m].to /\ (Firm(m) \/ Excused(m) \/ Beaten(m))
    BY DEF LandInv, Landing
  <2>2. CASE Firm(m)
    <3>1. PICK f \in files :
            /\ Path(f) = mover[m].got /\ Path(f) \notin mover[m].todo /\ ~InFlight(m, f)
            /\ mover[m].to = "discarded" \/ ~IsGenerated(f) \/ Settled(m) \subseteq {f}
      BY <2>2 DEF Firm
    <3>2. f \in files' /\ ~InFlight(m, f)' /\ Path(f) \notin mover'[m].todo
      BY <1>4, <3>1
    <3> QED BY <1>1, <2>1, <3>1, <3>2 DEF Firm
  <2>3. CASE Excused(m)
    <3>1. PICK c \in Settled(m) :
            /\ c.bucket = "archived" /\ Path(c) \notin mover[m].todo /\ Settled(m) \subseteq {c}
            /\ mover[m].to \in Queued
      BY <2>3 DEF Excused
    <3>2. c \in files /\ c \in Active /\ ~InFlight(m, c)
      BY <3>1 DEF Settled, Active, Canonical
    <3>3. c \in Settled(m)' /\ Path(c) \notin mover'[m].todo /\ Settled(m)' \subseteq {c}
      BY <1>1, <1>4, <3>1, <3>2
    <3> QED BY <1>1, <2>1, <3>1, <3>3 DEF Excused
  <2>4. CASE Beaten(m)
    <3>1. PICK f \in files :
            f.block = "broken" /\ Path(f) \notin mover[m].todo /\ ~InFlight(m, f)
      BY <2>4 DEF Beaten
    <3> QED BY <1>4, <2>1, <3>1 DEF Beaten
  <2> QED BY <2>1, <2>2, <2>3, <2>4
<1>11. Source(m)' /\ HasLanded(m)'
  BY <1>1, <1>2 DEF Source, HasLanded, Placing
<1> QED BY <1>5, <1>6, <1>7, <1>8, <1>9, <1>10, <1>11 DEF LandInv

\* Reading a source.
LEMMA ReadSourceLands ==
    ASSUME Typed, LoneInv, NEW m \in Movers, LandInv(m),
           NEW p \in mover[m].todo, ReadSource(m, p)
    PROVE  LandInv(m)'
<1>0. mover[m] \in Moving /\ mover \in [Movers -> Moving] /\ mover[m].step = "archive"
      /\ files' = files
  BY DEF Typed, ReadSource
<1>1. Active' = Active /\ Indexed' = Indexed /\ QueuedCopies' = QueuedCopies
  BY <1>0 DEF Active, Canonical, Indexed, QueuedCopies
<1>2. CASE Fail(m)
  BY <1>2, FailLands
<1>3. CASE p \in Paths
  <2>1. mover'[m] = [mover[m] EXCEPT !.step = "write", !.read = At(p), !.dest = ArchiveName(At(p))]
    BY <1>0, <1>3 DEF ReadSource
  <2>2. /\ mover'[m].step = "write" /\ mover'[m].todo = mover[m].todo
        /\ mover'[m].to = mover[m].to /\ mover'[m].stage = mover[m].stage
        /\ mover'[m].got = mover[m].got
    BY <1>0, <2>1 DEF Moving
  <2>3. Settled(m) = Active /\ Settled(m)' = Active /\ \A f : ~InFlight(m, f)'
    BY <1>0, <1>1, <2>2 DEF Settled, InFlight
  <2>4. Keeps(m)
    BY <1>0, <1>1, <2>2, <2>3 DEF Keeps
  <2> QED BY <1>0, <2>4, KeepsLands
<1>4. CASE p \notin Paths /\ mover' = [mover EXCEPT ![m].todo = @ \ {p}]
  <2>1. mover'[m] = [mover[m] EXCEPT !.todo = @ \ {p}]
    BY <1>0, <1>4
  <2>2. /\ mover'[m].step = "archive" /\ mover'[m].todo = mover[m].todo \ {p}
        /\ mover'[m].to = mover[m].to /\ mover'[m].stage = mover[m].stage
        /\ mover'[m].got = mover[m].got
    BY <1>0, <2>1 DEF Moving
  <2>3. Settled(m) = Active /\ Settled(m)' = Active /\ \A f : ~InFlight(m, f)'
    BY <1>0, <1>1, <2>2 DEF Settled, InFlight
  <2>4. \A f \in Indexed : Path(f) # p
    BY <1>4 DEF Indexed, Paths
  <2>5. Keeps(m)
    BY <1>0, <1>1, <2>2, <2>3, <2>4 DEF Keeps
  <2> QED BY <1>0, <2>5, KeepsLands
<1> QED BY <1>2, <1>3, <1>4 DEF ReadSource

\* Opening the destination.
LEMMA CutLands ==
    ASSUME Typed, LoneInv, NEW m \in Movers, LandInv(m), NEW cut \in Cuts, CutDestination(m, cut)
    PROVE  LandInv(m)'
<1> DEFINE dest == mover[m].dest
           A == PlacedAt(Cut(mover[m].read, cut), dest)
<1>0. /\ mover[m] \in Moving /\ mover \in [Movers -> Moving] /\ mover[m].step = "write"
      /\ mover'[m] = [mover[m] EXCEPT !.step = "writing", !.open = dest]
      /\ files' = {g \in files : Path(g) # dest} \cup {A}
  BY DEF Typed, CutDestination, Replaced
<1>1. /\ mover'[m].step = "writing" /\ mover'[m].todo = mover[m].todo
      /\ mover'[m].to = mover[m].to /\ mover'[m].stage = mover[m].stage
      /\ mover'[m].got = mover[m].got /\ mover'[m].dest = dest
  BY <1>0 DEF Moving
<1>2. /\ mover[m].read \in files /\ Path(mover[m].read) \in mover[m].todo
      /\ dest[1] = "archived"
      /\ dest = Path(mover[m].read) \/ dest \notin Paths
  BY <1>0 DEF LoneInv, Sound, Chosen, Archiving
<1>3. Path(A) = dest /\ A.bucket = "archived"
  <2>1. mover[m].read \in Copies /\ dest \in FolderPaths
    BY <1>0 DEF Moving
  <2>2. Path(A) = dest /\ A.bucket = dest[1]
    <3> HIDE DEF dest
    <3> QED BY <2>1, CutType, PlacedType
  <2> QED BY <1>2, <2>2
<1>4. \A f \in files : Path(f) \notin mover[m].todo => Path(f) # dest
  BY <1>2 DEF Paths
<1>5. Settled(m) = Active
  BY <1>0, NoneInFlight
<1> HIDE DEF dest, A
<1>6. \A f : InFlight(m, f)' <=> Path(f) = dest
  BY <1>1 DEF InFlight
<1>7. Settled(m)' = {f \in Active : Path(f) # dest}
  BY <1>0, <1>3, <1>6 DEF Settled, Active, Canonical, Indexed
<1>8. QueuedCopies' \subseteq QueuedCopies
  <2>1. "archived" \notin Queued
    BY DEF Queued
  <2> QED BY <1>0, <1>3, <2>1 DEF QueuedCopies, Queuing, Indexed
<1>9. Keeps(m)
  BY <1>0, <1>1, <1>2, <1>4, <1>5, <1>6, <1>7, <1>8 DEF Keeps
<1> QED BY <1>0, <1>9, KeepsLands

\* Writing the rest.
LEMMA FillLands ==
    ASSUME Typed, LoneInv, NEW m \in Movers, LandInv(m), FillDestination(m)
    PROVE  LandInv(m)'
<1> DEFINE dest == mover[m].dest
           F == Filled(m)
<1>0. /\ mover[m] \in Moving /\ mover \in [Movers -> Moving] /\ mover[m].step = "writing"
      /\ mover'[m] = [mover[m] EXCEPT !.step = "written", !.open = NoPath]
  BY DEF Typed, FillDestination
<1>1. /\ mover'[m].step = "written" /\ mover'[m].todo = mover[m].todo
      /\ mover'[m].to = mover[m].to /\ mover'[m].stage = mover[m].stage
      /\ mover'[m].got = mover[m].got /\ mover'[m].dest = dest
  BY <1>0 DEF Moving
<1>2. Path(mover[m].read) \in mover[m].todo
  BY <1>0 DEF LoneInv, Sound, Archiving
<1>3. Path(F) = dest /\ (IsRelation(F) \/ F.block = "broken")
  BY FilledType
<1>4. files' = {g \in files : Path(g) # dest} \cup {F}
  BY FillReplaces
<1> HIDE DEF dest, F
<1>5. \A f : InFlight(m, f) <=> Path(f) = dest
  BY <1>0 DEF InFlight, dest
<1>6. \A f : ~InFlight(m, f)'
  BY <1>1 DEF InFlight
<1>7. Indexed' = {f \in Indexed : Path(f) # dest}
  BY <1>3, <1>4 DEF Indexed
<1>8. Settled(m)' = Settled(m)
  <2>1. Active = {f \in Indexed : f.bucket \in Actioned}
    BY DEF Active, Canonical, Indexed
  <2>2. Active' = {f \in Indexed' : f.bucket \in Actioned}
    BY DEF Active, Canonical, Indexed
  <2> QED BY <1>5, <1>6, <1>7, <2>1, <2>2 DEF Settled
<1>9. QueuedCopies' \subseteq QueuedCopies
  BY <1>7 DEF QueuedCopies
<1>10. Keeps(m)
  BY <1>1, <1>2, <1>4, <1>5, <1>6, <1>8, <1>9 DEF Keeps
<1> QED BY <1>0, <1>10, KeepsLands

\* What the removal does: the source goes, or it was archived in place.
LEMMA RemoveMoves ==
    ASSUME Typed, Alone, LoneInv, NEW m \in Movers, RemoveSource(m)
    PROVE  LET p == Path(mover[m].read)
           IN  /\ mover' = [mover EXCEPT ![m].step = "archive", ![m].todo = @ \ {p}]
               /\ \/ files' = {f \in files : Path(f) # p}
                  \/ files' = files /\ \E f \in files : Path(f) = p /\ f \notin Indexed
<1> DEFINE read == mover[m].read
           p == Path(read)
           dest == mover[m].dest
           F == Filled(m)
           done == [mover EXCEPT ![m].step = "archive", ![m].todo = @ \ {p}]
<1>1. /\ mover[m] \in Moving /\ mover[m].step = "written" /\ mover \in [Movers -> Moving]
      /\ F \in files
      /\ dest = p \/ read \in files
  BY DEF RemoveSource, Typed, LoneInv, Sound, Written
<1>2. Path(F) = dest /\ F \notin Indexed
  BY FilledType DEF Indexed
<1>3. CASE p = dest
  BY <1>1, <1>2, <1>3 DEF RemoveSource
<1>4. CASE p # dest
  <2>1. dest \in Paths /\ At(dest) = F
    <3>1. dest \in Paths
      BY <1>1, <1>2 DEF Paths
    <3> QED BY <1>1, <1>2, <3>1, FileAt DEF Typed, OnePerPath
  <2>2. p \in Paths
    BY <1>1, <1>4 DEF Paths
  <2>3. files' = {f \in files : Path(f) # p} /\ mover' = Follow(done, p, NoPath)
    BY <1>4, <2>1, <2>2 DEF RemoveSource
  <2>4. /\ done[m] = [mover[m] EXCEPT !.step = "archive", !.todo = @ \ {p}]
        /\ \A n \in Movers \ {m} : done[n] = mover[n]
    BY <1>1
  <2>5. done[m] \in Moving /\ done[m].step = "archive"
    BY <1>1, <2>4 DEF Moving
  <2>6. \A n \in Movers \ {m} : mover[n].step = "scan"
    <3>1. Working(m)
      BY <1>1, PastScanWorks
    <3> QED BY <3>1 DEF Alone, Working, AtRest, Typed, StandsRight
  <2>7. done \in [Movers -> Moving] /\ \A n \in Movers : done[n].step \notin {"writing", "recording"}
    BY <1>1, <2>4, <2>5, <2>6
  <2>8. Follow(done, p, NoPath) = done
    <3> HIDE DEF done
    <3> QED BY <2>7, NobodyWriting
  <2> QED BY <2>3, <2>8
<1> QED BY <1>3, <1>4

\* Removing the source.
LEMMA RemoveLands ==
    ASSUME Typed, Alone, LoneInv, NEW m \in Movers, LandInv(m), RemoveSource(m)
    PROVE  LandInv(m)'
<1> DEFINE p == Path(mover[m].read)
<1>0. /\ mover[m] \in Moving /\ mover \in [Movers -> Moving] /\ mover[m].step = "written"
      /\ mover'[m] = [mover[m] EXCEPT !.step = "archive", !.todo = @ \ {p}]
      /\ p \in mover[m].todo
  <2>1. mover' = [mover EXCEPT ![m].step = "archive", ![m].todo = @ \ {p}]
    BY RemoveMoves
  <2>2. mover[m] \in Moving /\ mover \in [Movers -> Moving] /\ mover[m].step = "written"
    BY DEF Typed, RemoveSource
  <2> QED BY <2>1, <2>2 DEF LoneInv, Sound, Archiving
<1>1. /\ mover'[m].step = "archive" /\ mover'[m].todo = mover[m].todo \ {p}
      /\ mover'[m].to = mover[m].to /\ mover'[m].stage = mover[m].stage
      /\ mover'[m].got = mover[m].got
  BY <1>0 DEF Moving
<1>2. files' \subseteq files /\ \A f \in files : Path(f) # p => f \in files'
  BY RemoveMoves
<1>3. \A f \in Indexed' : Path(f) # p
  <2>1. \/ files' = {f \in files : Path(f) # p}
        \/ files' = files /\ \E f \in files : Path(f) = p /\ f \notin Indexed
    BY RemoveMoves
  <2> HIDE DEF p
  <2>2. CASE files' = {f \in files : Path(f) # p}
    BY <2>2 DEF Indexed
  <2>3. CASE files' = files /\ \E f \in files : Path(f) = p /\ f \notin Indexed
    BY <2>3 DEF Indexed, Typed, OnePerPath
  <2> QED BY <2>1, <2>2, <2>3
<1> HIDE DEF p
<1>4. Active' \subseteq Active /\ QueuedCopies' \subseteq QueuedCopies
  BY <1>2 DEF Active, Canonical, QueuedCopies, Indexed
<1>5. Settled(m) = Active /\ Settled(m)' = Active' /\ \A f : ~InFlight(m, f)'
  BY <1>0, <1>1 DEF Settled, InFlight
<1>6. Keeps(m)
  BY <1>0, <1>1, <1>2, <1>3, <1>4, <1>5 DEF Keeps
<1> QED BY <1>0, <1>6, KeepsLands

\* The scans.
LEMMA ScanLands ==
    ASSUME Typed, NEW m \in Movers, LandInv(m), Scan(m)
    PROVE  LandInv(m)'
<1>1. CASE Fail(m)
  BY <1>1, FailLands
<1>2. ASSUME NEW todo, mover' = [mover EXCEPT ![m].step = "archive", ![m].todo = todo]
      PROVE  /\ mover'[m].step = "archive" /\ mover'[m].todo = todo
             /\ mover'[m].to = mover[m].to /\ mover'[m].stage = mover[m].stage
             /\ mover'[m].got = mover[m].got
  <2>1. mover'[m] = [mover[m] EXCEPT !.step = "archive", !.todo = todo] /\ mover[m] \in Moving
    BY <1>2 DEF Typed
  <2> QED BY <2>1 DEF Moving
<1>3. CASE ~Fail(m) /\ mover[m].stage \in Repairs
  <2>1. /\ ~RepairRefused
        /\ mover' = [mover EXCEPT ![m].step = "archive", ![m].todo = RepairDuplicates]
    BY <1>3 DEF Scan
  <2> QED BY <1>2, <1>3, <2>1, RepairScanLands DEF Scan
<1>4. CASE ~Fail(m) /\ mover[m].stage \in Sweeps /\ mover[m].stage \notin Repairs
  <2>1. mover' = [mover EXCEPT ![m].step = "archive", ![m].todo = SweepDuplicates]
    BY <1>4 DEF Scan
  <2> QED BY <1>2, <1>4, <2>1, SweepScanLands DEF Scan
<1> QED BY <1>1, <1>3, <1>4 DEF Scan

\* The end of a pass: what it left is what the next stage, or the caller, finds.
LEMMA PassEndsLands ==
    ASSUME Typed, NEW m \in Movers, LandInv(m), PassEnds(m)
    PROVE  LandInv(m)'
<1>0. /\ mover[m] \in Moving /\ mover \in [Movers -> Moving] /\ files' = files
      /\ mover[m].step = "archive" /\ mover[m].todo = {}
      /\ mover[m].stage \in Repairs \cup Sweeps \cup {"discard"}
  BY DEF Typed, PassEnds
<1>1. CASE Fail(m)
  BY <1>1, FailLands
<1>2. CASE Goto(m, NextStage[mover[m].stage])
  <2>1. mover'[m] = [mover[m] EXCEPT !.stage = NextStage[mover[m].stage], !.step = "scan",
                                     !.todo = {}]
    BY <1>0, <1>2 DEF Goto
  <2>2. /\ mover'[m].step = "scan" /\ mover'[m].todo = {} /\ mover'[m].to = mover[m].to
        /\ mover'[m].stage = NextStage[mover[m].stage] /\ mover'[m].got = mover[m].got
    BY <1>0, <2>1 DEF Moving
  <2>3. /\ Active' = Active /\ QueuedCopies' = QueuedCopies /\ Paths' = Paths
        /\ Settled(m) = Active /\ Settled(m)' = Active
        /\ \A f \in files : ~InFlight(m, f)'
    BY <1>0, <2>2 DEF Active, Canonical, QueuedCopies, Indexed, Paths, Settled, InFlight
  <2>4. CASE mover[m].stage = "repair"
    <3>1. mover'[m].stage = "sweep"
      BY <2>2, <2>4 DEF NextStage
    <3>2. \A f, g \in Active : f = g
      BY <1>0, <2>3, <2>4 DEF LandInv, OneLeft, Repairs
    <3> QED BY <2>2, <2>3, <3>1, <3>2
         DEF LandInv, OneLeft, OneAtMost, Sweeping, Swept, Discarding, Source, Landing, HasLanded,
             Repairs, Sweeps, Placing
  <2>5. CASE mover[m].stage = "sweep"
    <3>1. mover'[m].stage = "index"
      BY <2>2, <2>5 DEF NextStage
    <3>2. \A f, g \in Active : f = g
      BY <2>3, <2>5 DEF LandInv, OneAtMost, Sweeps
    <3>3. Active = {} \/ QueuedCopies = {}
      BY <1>0, <2>5 DEF LandInv, Sweeping, Sweeps
    <3> QED BY <2>2, <2>3, <3>1, <3>2, <3>3
         DEF LandInv, OneLeft, OneAtMost, Sweeping, Swept, Discarding, Source, Landing, HasLanded,
             Repairs, Sweeps, Placing
  <2>6. CASE mover[m].stage = "index"
    <3>1. mover'[m].stage = "place"
      BY <2>2, <2>6 DEF NextStage
    <3>2. \A f, g \in Active : f = g
      BY <2>3, <2>6 DEF LandInv, OneAtMost
    <3>3. Active = {} \/ QueuedCopies = {}
      BY <2>3, <2>6 DEF LandInv, Swept
    <3> QED BY <2>2, <2>3, <3>1, <3>2, <3>3
         DEF LandInv, OneLeft, OneAtMost, Sweeping, Swept, Discarding, Source, Landing, HasLanded,
             Repairs, Sweeps, Placing
  <2>7. CASE mover[m].stage = "repair_again"
    <3>1. mover'[m].stage = "sweep_again"
      BY <2>2, <2>7 DEF NextStage
    <3>2. \A f, g \in Active : f = g
      BY <1>0, <2>3, <2>7 DEF LandInv, OneLeft, Repairs
    <3>3. mover[m].got[1] = mover[m].to /\ (Firm(m)' \/ Excused(m)' \/ Beaten(m)')
      <4>1. mover[m].got[1] = mover[m].to /\ (Firm(m) \/ Excused(m) \/ Beaten(m))
        BY <2>7 DEF LandInv, Landing
      <4>2. Firm(m) => Firm(m)'
        BY <1>0, <2>2, <2>3 DEF Firm
      <4>3. Excused(m) => Excused(m)'
        BY <1>0, <2>2, <2>3 DEF Excused
      <4>4. Beaten(m) => Beaten(m)'
        BY <1>0, <2>2, <2>3 DEF Beaten
      <4> QED BY <4>1, <4>2, <4>3, <4>4
    <3>4. Landing(m)'
      BY <2>2, <3>1, <3>3 DEF Landing
    <3> QED BY <2>2, <2>3, <3>1, <3>2, <3>4
         DEF LandInv, OneLeft, OneAtMost, Sweeping, Swept, Discarding, Source, HasLanded,
             Repairs, Sweeps, Placing
  <2>8. CASE mover[m].stage = "sweep_again"
    <3>1. mover'[m].stage = "returned"
      BY <2>2, <2>8 DEF NextStage
    <3>2. \A f, g \in Active : f = g
      BY <2>3, <2>8 DEF LandInv, OneAtMost, Sweeps
    <3>3. Active = {} \/ QueuedCopies = {}
      BY <1>0, <2>8 DEF LandInv, Sweeping, Sweeps
    <3>4. /\ mover[m].got[1] = mover[m].to
          /\ \/ mover[m].got \in Paths
             \/ mover[m].to \in Queued /\ \E f \in Active : f.bucket = "archived"
             \/ \E f \in files : f.block = "broken"
      BY <2>3, <2>8 DEF LandInv, Landing, Firm, Excused, Beaten, Paths
    <3>5. HasLanded(m)'
      BY <1>0, <2>2, <2>3, <3>2, <3>3, <3>4 DEF HasLanded
    <3> QED BY <2>2, <3>1, <3>5
         DEF LandInv, OneLeft, OneAtMost, Sweeping, Swept, Discarding, Source, Landing,
             Repairs, Sweeps, Placing
  <2>9. CASE mover[m].stage = "discard"
    <3>1. mover'[m].stage = "returned"
      BY <2>2, <2>9 DEF NextStage
    <3>2. /\ mover[m].got[1] = mover[m].to /\ mover[m].got \in Paths /\ Active = {}
      BY <1>0, <2>3, <2>9 DEF LandInv, Discarding
    <3>3. HasLanded(m)'
      BY <2>2, <2>3, <3>2 DEF HasLanded
    <3> QED BY <2>2, <3>1, <3>3
         DEF LandInv, OneLeft, OneAtMost, Sweeping, Swept, Discarding, Source, Landing,
             Repairs, Sweeps, Placing
  <2> QED BY <1>0, <2>4, <2>5, <2>6, <2>7, <2>8, <2>9 DEF Repairs, Sweeps
<1> QED BY <1>1, <1>2 DEF PassEnds

\* The copy that a move takes from another bucket: no pass will archive it in
\* the target, or it comes from the discarded bucket beside an archived one.
LEMMA SourceLands ==
    ASSUME Typed, NEW to \in Buckets, NEW src \in Indexed,
           \A f, g \in Active : f = g, Active = {} \/ QueuedCopies = {},
           to \notin Held, Further(Held, to) = {}, src.bucket = SourceBucket(Held, to)
    PROVE  \/ to = "discarded" \/ ~IsGenerated(src)
           \/ \A f \in Active : Path(f) = Path(src)
           \/ to \in Queued /\ \E c \in Active : c.bucket = "archived" /\ Active \subseteq {c}
<1> SUFFICES ASSUME to # "discarded", IsGenerated(src),
                    NEW c \in Active, Path(c) # Path(src)
             PROVE  to \in Queued /\ c.bucket = "archived" /\ Active \subseteq {c}
  OBVIOUS
<1>1. src \notin Active /\ QueuedCopies = {} /\ Active \subseteq {c}
  OBVIOUS
<1>2. src \in files /\ src \in Copies /\ ~IsRelation(src)
  BY DEF Indexed, Typed
<1>3. src.bucket = "discarded"
  <2>1. src.bucket \notin Actioned
    BY <1>1, <1>2 DEF Active, Canonical
  <2>2. src.bucket \notin Queued
    BY <1>1 DEF QueuedCopies, Queuing
  <2> QED BY <1>2, <2>1, <2>2 DEF Copies, Buckets
<1>4. c.bucket = "archived" /\ "archived" \in Held
  <2>1. c.bucket \in Held /\ c.bucket \in Actioned
    BY DEF Held, Active, Canonical
  <2> QED BY <1>3, <2>1, FromDiscarded
<1>5. to \in Queued
  <2>1. to \notin Actioned
    <3>1. ASSUME to \in Actioned PROVE Rank["archived"] > Rank[to]
      BY <1>4, <3>1 DEF Rank, Actioned
    <3> QED BY <1>4, <3>1 DEF Further, Actioned
  <2> QED BY <2>1 DEF Buckets
<1> QED BY <1>1, <1>4, <1>5

\* Placing: the path of a copy in the target bucket or further along, the list
\* of a discard, or the copy to give its outcome or to rename.
LEMMA PlaceLands ==
    ASSUME Typed, NEW m \in Movers, LandInv(m), Place(m)
    PROVE  LandInv(m)'
<1>0. /\ mover[m] \in Moving /\ mover \in [Movers -> Moving] /\ files' = files
      /\ files \subseteq Copies /\ OnePerPath /\ mover[m].to \in Buckets
      /\ mover[m].step = "scan" /\ mover[m].stage = "place" /\ mover[m].todo = {}
  BY DEF Typed, Place, StandsRight, Moving
<1>1. /\ Active' = Active /\ QueuedCopies' = QueuedCopies /\ Paths' = Paths
      /\ Settled(m) = Active
  BY <1>0, NoneInFlight DEF Active, Canonical, QueuedCopies, Indexed, Paths
<1>2. /\ \A f, g \in Active : f = g
      /\ Active = {} \/ QueuedCopies = {}
  BY <1>0, <1>1 DEF LandInv, OneAtMost, Swept
<1>3. CASE Fail(m)
  BY <1>3, FailLands
<1>4. CASE PlaceReturns(m)
  <2>1. PICK b \in Held, read \in Copies :
          /\ b \in {mover[m].to} \cup Further(Buckets, mover[m].to)
          /\ mover' = [mover EXCEPT ![m].stage = "returned", ![m].got = Path(FirstIn(b)),
                                    ![m].read = read]
    BY <1>4 DEF PlaceReturns
  <2> DEFINE got == Path(FirstIn(b))
  <2>2. got \in Paths /\ got[1] = b
    BY <1>0, FirstExists DEF Paths, Indexed, Path
  <2> HIDE DEF got
  <2>3. mover'[m] = [mover[m] EXCEPT !.stage = "returned", !.got = got, !.read = read]
    BY <1>0, <2>1 DEF got
  <2>4. /\ mover'[m].stage = "returned" /\ mover'[m].step = "scan"
        /\ mover'[m].to = mover[m].to /\ mover'[m].got = got
    BY <1>0, <2>3 DEF Moving
  <2>5. HasLanded(m)'
    BY <1>1, <1>2, <2>1, <2>2, <2>4 DEF HasLanded
  <2> QED BY <2>4, <2>5
       DEF LandInv, OneLeft, OneAtMost, Sweeping, Swept, Discarding, Source, Landing,
           Repairs, Sweeps, Placing
<1>5. CASE PlaceDiscards(m)
  <2> DEFINE got == Path(FirstIn("discarded"))
             read == FirstIn("discarded")
             todo == {Path(f) : f \in {g \in Indexed : g.bucket # "discarded"}}
  <2>1. got \in Paths /\ got[1] = "discarded"
    BY <1>0, <1>5, FirstExists DEF Paths, Indexed, Path, PlaceDiscards
  <2>2. \A p \in todo : p[1] # "discarded"
    BY DEF Path
  <2>3. \A f \in Active : Path(f) \in todo
    BY DEF Active, Canonical, Actioned
  <2>4. mover'[m] = [mover[m] EXCEPT !.got = got, !.read = read, !.stage = "discard",
                                     !.step = "archive", !.todo = todo]
    BY <1>0, <1>5 DEF PlaceDiscards
  <2> HIDE DEF got, read, todo
  <2>5. /\ mover'[m].stage = "discard" /\ mover'[m].step = "archive" /\ mover'[m].todo = todo
        /\ mover'[m].to = mover[m].to /\ mover'[m].got = got
    BY <1>0, <2>4 DEF Moving
  <2>6. Settled(m)' \subseteq Active
    BY <1>1 DEF Settled
  <2>7. Discarding(m)'
    BY <1>1, <1>5, <2>1, <2>2, <2>3, <2>5, <2>6 DEF Discarding, PlaceDiscards
  <2> QED BY <2>5, <2>7
       DEF LandInv, OneLeft, OneAtMost, Sweeping, Swept, Source, Landing, HasLanded,
           Repairs, Sweeps, Placing
<1>6. ASSUME NEW step \in {"outcome", "rename"}, NEW read, NEW got,
             mover'[m] = [mover[m] EXCEPT !.got = got, !.read = read, !.step = step]
      PROVE  /\ mover'[m].step = step /\ mover'[m].read = read /\ mover'[m].todo = {}
             /\ mover'[m].to = mover[m].to /\ mover'[m].stage = "place" /\ mover'[m].got = got
             /\ Settled(m)' = Active
             /\ Source(m)' => LandInv(m)'
  <2>1. /\ mover'[m].step = step /\ mover'[m].read = read /\ mover'[m].todo = {}
        /\ mover'[m].to = mover[m].to /\ mover'[m].stage = "place" /\ mover'[m].got = got
    BY <1>0, <1>6 DEF Moving
  <2>2. Settled(m)' = Active
    BY <1>1, <2>1 DEF Settled, InFlight
  <2>3. OneAtMost(m)' /\ Swept(m)'
    BY <1>1, <1>2, <2>1, <2>2 DEF OneAtMost, Swept
  <2> QED BY <2>1, <2>2, <2>3
       DEF LandInv, OneLeft, Sweeping, Discarding, Landing, HasLanded, Repairs, Sweeps
<1>7. CASE PlaceOutcome(m)
  <2> DEFINE got == Path(FirstIn("complete"))
             read == FirstIn("complete")
  <2>1. read.bucket = "complete" /\ mover[m].to = "complete"
    BY <1>0, <1>7, FirstExists DEF PlaceOutcome
  <2>2. mover'[m] = [mover[m] EXCEPT !.got = got, !.read = read, !.step = "outcome"]
    BY <1>0, <1>7 DEF PlaceOutcome
  <2>3. got = Path(read)
    OBVIOUS
  <2> HIDE DEF got, read
  <2>4. /\ mover'[m].step = "outcome" /\ mover'[m].read = read /\ mover'[m].to = mover[m].to
        /\ mover'[m].got = got
        /\ Source(m)' => LandInv(m)'
    BY <1>6, <2>2
  <2>5. Source(m)'
    BY <2>1, <2>3, <2>4 DEF Source
  <2> QED BY <2>4, <2>5
<1>8. CASE PlaceMoves(m)
  <2> DEFINE step == IF mover[m].to = "complete" THEN "outcome" ELSE "rename"
  <2>1. PICK src \in Indexed : /\ src.bucket = SourceBucket(Held, mover[m].to)
                               /\ src.bucket # mover[m].to
                               /\ mover' = [mover EXCEPT ![m].step = step, ![m].read = src]
    BY <1>8 DEF PlaceMoves
  <2>2. step \in {"outcome", "rename"}
    OBVIOUS
  <2> HIDE DEF step
  <2>3. mover'[m] = [mover[m] EXCEPT !.got = mover[m].got, !.read = src, !.step = step]
    BY <1>0, <2>1 DEF Moving
  <2>4. \/ mover[m].to = "discarded" \/ ~IsGenerated(src)
        \/ \A f \in Active : Path(f) = Path(src)
        \/ mover[m].to \in Queued /\ \E c \in Active : c.bucket = "archived" /\ Active \subseteq {c}
    BY <1>0, <1>2, <1>8, <2>1, SourceLands DEF PlaceMoves
  <2>5. \A f \in files : Path(f) = Path(src) => f = src
    BY <1>0 DEF Indexed, OnePerPath
  <2>6. /\ mover'[m].step = step /\ mover'[m].read = src /\ mover'[m].to = mover[m].to
        /\ Source(m)' => LandInv(m)'
    BY <1>6, <2>2, <2>3
  <2>7. Source(m)'
    BY <1>0, <1>1, <2>1, <2>4, <2>5, <2>6 DEF Source
  <2> QED BY <2>6, <2>7
<1> QED BY <1>3, <1>4, <1>5, <1>7, <1>8, PlaceCases

\* What follows the outcome record: the copy in the target bucket is returned,
\* or the copy is renamed.
LEMMA GoLands ==
    ASSUME Typed, NEW m \in Movers, mover[m].stage = "place", mover[m].todo = {},
           Go(m, mover[m].read),
           \A f, g \in Active' : f = g, Active' = {} \/ QueuedCopies' = {},
           mover[m].read.bucket = mover[m].to =>
               mover[m].got = Path(mover[m].read) /\ mover[m].got \in Paths',
           \/ mover[m].read.bucket = mover[m].to
           \/ mover[m].to = "discarded" \/ ~IsGenerated(mover[m].read)
           \/ \A f \in Active' : Path(f) = Path(mover[m].read)
           \/ /\ mover[m].to \in Queued
              /\ \E c \in Active' : c.bucket = "archived" /\ Active' \subseteq {c},
           \A f \in files' : Path(f) = Path(mover[m].read) =>
               (IsGenerated(f) <=> IsGenerated(mover[m].read))
    PROVE  LandInv(m)'
<1> DEFINE read == mover[m].read
<1>0. mover[m] \in Moving /\ mover \in [Movers -> Moving]
  BY DEF Typed
<1>1. CASE read.bucket = mover[m].to
  <2>1. mover'[m] = [mover[m] EXCEPT !.stage = "returned", !.step = "scan", !.read = read,
                                     !.open = NoPath]
    BY <1>0, <1>1 DEF Go
  <2>2. /\ mover'[m].stage = "returned" /\ mover'[m].step = "scan"
        /\ mover'[m].to = mover[m].to /\ mover'[m].got = mover[m].got
    <3> HIDE DEF read
    <3> QED BY <1>0, <2>1 DEF Moving
  <2>3. mover[m].got[1] = mover[m].to
    BY <1>1 DEF Path
  <2>4. HasLanded(m)'
    BY <1>1, <2>2, <2>3 DEF HasLanded
  <2> QED BY <2>2, <2>4
       DEF LandInv, OneLeft, OneAtMost, Sweeping, Swept, Discarding, Source, Landing,
           Repairs, Sweeps, Placing
<1>2. CASE read.bucket # mover[m].to
  <2>1. mover'[m] = [mover[m] EXCEPT !.stage = "place", !.step = "rename", !.read = read,
                                     !.open = NoPath]
    BY <1>0, <1>2 DEF Go
  <2>2. /\ mover'[m].stage = "place" /\ mover'[m].step = "rename" /\ mover'[m].read = read
        /\ mover'[m].to = mover[m].to
    <3> HIDE DEF read
    <3> QED BY <1>0, <2>1 DEF Moving
  <2>3. Settled(m)' = Active'
    BY <2>2 DEF Settled, InFlight
  <2>4. OneAtMost(m)' /\ Swept(m)'
    BY <2>2, <2>3 DEF OneAtMost, Swept
  <2>5. Source(m)'
    BY <1>2, <2>2 DEF Source
  <2> QED BY <2>2, <2>4, <2>5
       DEF LandInv, OneLeft, Sweeping, Discarding, Landing, HasLanded, Repairs, Sweeps
<1> QED BY <1>1, <1>2

\* The outcome is read.
LEMMA ReadOutcomeLands ==
    ASSUME Typed, LoneInv, NEW m \in Movers, LandInv(m), ReadOutcome(m)
    PROVE  LandInv(m)'
<1> DEFINE read == mover[m].read
<1>0. /\ mover[m] \in Moving /\ mover \in [Movers -> Moving] /\ mover[m].step = "outcome"
      /\ mover[m].stage = "place" /\ mover[m].todo = {} /\ files' = files
      /\ Active' = Active /\ QueuedCopies' = QueuedCopies /\ Paths' = Paths
  BY DEF ReadOutcome, Typed, StandsRight, Placing, Active, Canonical, Indexed, QueuedCopies, Paths
<1>1. At(Path(read)) = read /\ read \in files /\ Path(read) \in Paths
  BY <1>0, ReadsItsCopy
<1>2. /\ Settled(m) = Active /\ \A f, g \in Active : f = g
      /\ Active = {} \/ QueuedCopies = {}
  BY <1>0, NoneInFlight DEF LandInv, OneAtMost, Swept
<1>3. /\ \/ read.bucket = mover[m].to
         \/ mover[m].to = "discarded" \/ ~IsGenerated(read)
         \/ \A f \in Active : Path(f) = Path(read)
         \/ mover[m].to \in Queued /\ \E c \in Active : c.bucket = "archived" /\ Active \subseteq {c}
      /\ read.bucket = mover[m].to => mover[m].got = Path(read)
  BY <1>0 DEF LandInv, Source, Placing
<1>4. CASE Fail(m)
  BY <1>4, FailLands
<1>5. CASE mover' = [mover EXCEPT ![m].step = "record", ![m].read = read]
  <2>1. mover'[m] = [mover[m] EXCEPT !.step = "record", !.read = read]
    BY <1>0, <1>5
  <2>2. /\ mover'[m].step = "record" /\ mover'[m].read = read /\ mover'[m].todo = {}
        /\ mover'[m].to = mover[m].to /\ mover'[m].stage = "place" /\ mover'[m].got = mover[m].got
    <3> HIDE DEF read
    <3> QED BY <1>0, <2>1 DEF Moving
  <2>3. Settled(m)' = Active
    BY <1>0, <2>2 DEF Settled, InFlight
  <2>4. OneAtMost(m)' /\ Swept(m)' /\ Source(m)'
    BY <1>0, <1>2, <1>3, <2>2, <2>3 DEF OneAtMost, Swept, Source
  <2> QED BY <2>2, <2>4
       DEF LandInv, OneLeft, Sweeping, Discarding, Landing, HasLanded, Repairs, Sweeps
<1>6. CASE Go(m, read)
  <2>1. \A f \in files' : Path(f) = Path(read) => f = read
    BY <1>0, <1>1 DEF Typed, OnePerPath
  <2> QED BY <1>0, <1>1, <1>2, <1>3, <1>6, <2>1, GoLands
<1> QED BY <1>1, <1>4, <1>5, <1>6 DEF ReadOutcome

\* A file written over an indexed copy of the same bucket adds no actioned copy
\* and no queued one.
LEMMA WrittenOver ==
    ASSUME OnePerPath, NEW old \in Indexed, NEW new,
           Path(new) = Path(old), new.bucket = old.bucket,
           files' = {g \in files : Path(g) # Path(old)} \cup {new}
    PROVE  /\ \A f \in Active' : \/ f \in Active /\ Path(f) # Path(old)
                                 \/ f = new /\ old \in Active
           /\ \A f \in QueuedCopies' : f \in QueuedCopies \/ f = new
           /\ (\A f, g \in Active : f = g) => \A f, g \in Active' : f = g
<1>1. old \in files /\ ~IsRelation(old)
  BY DEF Indexed
<1>2. ASSUME NEW f \in Active'
      PROVE  \/ f \in Active /\ Path(f) # Path(old)
             \/ f = new /\ old \in Active
  <2>1. f \in files' /\ f.bucket \in Actioned /\ ~IsRelation(f) /\ f.block # "broken"
    BY DEF Active, Canonical, Indexed
  <2>2. CASE f = new
    BY <1>1, <2>1, <2>2 DEF Active, Canonical
  <2>3. CASE f # new
    BY <2>1, <2>3 DEF Active, Canonical, Indexed
  <2> QED BY <2>2, <2>3
<1>3. \A f \in QueuedCopies' : f \in QueuedCopies \/ f = new
  BY DEF QueuedCopies, Indexed
<1>4. ASSUME \A f, g \in Active : f = g, NEW f \in Active', NEW g \in Active'
      PROVE  f = g
  BY <1>2, <1>4
<1> QED BY <1>2, <1>3, <1>4

\* The copy is opened to write its outcome.
LEMMA CutRecordLands ==
    ASSUME Typed, LoneInv, NEW m \in Movers, LandInv(m), NEW cut \in Cuts, CutRecord(m, cut)
    PROVE  LandInv(m)'
<1> DEFINE read == mover[m].read
           p == Path(read)
           C == Cut(read, cut)
<1>1. /\ mover[m] \in Moving /\ mover[m].step = "record"
      /\ mover[m].stage = "place" /\ mover[m].todo = {}
      /\ mover'[m] = [mover[m] EXCEPT !.step = "recording", !.open = p, !.dest = p]
      /\ files' = {g \in files : Path(g) # p} \cup {C}
  BY DEF CutRecord, Typed, StandsRight, Placing, Replaced
<1>2. /\ read \in Indexed /\ read \in Copies /\ mover[m].to = "complete" /\ OnePerPath
  BY <1>1 DEF LoneInv, Sound, Recording, Typed, Indexed
<1>3. /\ Path(C) = p /\ C.bucket = read.bucket
      /\ IsGenerated(C) => IsGenerated(read)
  <2> HIDE DEF read
  <2> QED BY <1>2, CutType
<1> HIDE DEF C
<1>4. /\ \A f \in Active' : f \in Active \/ (f = C /\ read \in Active)
      /\ \A f \in QueuedCopies' : f \in QueuedCopies \/ f = C
      /\ (\A f, g \in Active : f = g) => \A f, g \in Active' : f = g
  BY <1>1, <1>2, <1>3, WrittenOver
<1> DEFINE r == mover'[m]
<1>5. /\ r.step = "recording" /\ r.read = read /\ r.todo = {} /\ r.to = mover[m].to
      /\ r.stage = "place" /\ r.got = mover[m].got
  <2> HIDE DEF p
  <2> QED BY <1>1 DEF Moving
<1>6. Settled(m) = Active /\ Settled(m)' = Active'
  BY <1>1, <1>5 DEF Settled, InFlight
<1>7. /\ \A f, g \in Active : f = g
      /\ Active = {} \/ QueuedCopies = {}
  BY <1>1, <1>6 DEF LandInv, OneAtMost, Swept
<1>8. OneAtMost(m)'
  BY <1>4, <1>6, <1>7 DEF OneAtMost
<1>9. Swept(m)'
  <2>1. CASE Active = {}
    BY <1>4, <1>6, <2>1 DEF Swept
  <2>2. CASE QueuedCopies = {}
    <3>1. ~Queuing(read)
      BY <1>2, <2>2 DEF QueuedCopies
    <3>2. QueuedCopies' = {}
      <4>1. ~Queuing(C)
        BY <1>3, <3>1 DEF Queuing
      <4> QED BY <1>4, <2>2, <4>1 DEF QueuedCopies
    <3> HIDE DEF read
    <3> QED BY <1>5, <3>1, <3>2 DEF Swept
  <2> QED BY <1>7, <2>1, <2>2
<1>10. Source(m)'
  <2>1. "complete" \notin Queued
    BY DEF Queued
  <2>2. \/ read.bucket = mover[m].to
        \/ mover[m].to = "discarded" \/ ~IsGenerated(read)
        \/ \A f \in Active : Path(f) = Path(read)
    BY <1>1, <1>2, <2>1 DEF LandInv, Source, Placing
  <2>3. (\A f \in Active : Path(f) = Path(read)) => \A f \in Active' : Path(f) = Path(read)
    BY <1>3, <1>4
  <2>4. read.bucket = mover[m].to => mover[m].got = Path(read)
    BY <1>1 DEF LandInv, Source
  <2> HIDE DEF read
  <2> QED BY <1>5, <2>2, <2>3, <2>4 DEF Source
<1> QED BY <1>5, <1>8, <1>9, <1>10
     DEF LandInv, OneLeft, Sweeping, Discarding, Landing, HasLanded, Repairs, Sweeps

\* The outcome is written.
LEMMA FillRecordLands ==
    ASSUME Typed, LoneInv, NEW m \in Movers, LandInv(m), FillRecord(m)
    PROVE  LandInv(m)'
<1> DEFINE read == mover[m].read
           p == Path(read)
           W == WithBlock(read, "outcome")
<1>1. /\ mover[m] \in Moving /\ mover[m].step = "recording"
      /\ mover[m].stage = "place" /\ mover[m].todo = {} /\ Go(m, read) /\ OnePerPath
  BY DEF FillRecord, Typed, StandsRight, Placing
<1>2. /\ files' = {g \in files : Path(g) # p} \cup {W}
      /\ Path(W) = p /\ W.bucket = read.bucket
      /\ IsGenerated(W) <=> IsGenerated(read)
      /\ \E cut \in Cuts : Cut(read, cut) \in files /\ Path(Cut(read, cut)) = p
      /\ mover[m].to = "complete"
  BY FillRecordReplaces
<1>3. PICK cut \in Cuts : Cut(read, cut) \in files /\ Path(Cut(read, cut)) = p
  BY <1>2
<1> DEFINE C == Cut(read, cut)
<1>4. C \in Indexed /\ Path(C) = p /\ C.bucket = read.bucket
  <2>1. read \in Copies
    BY <1>1 DEF Moving
  <2>2. ~IsRelation(C) /\ C.block \in {"none", "open"} /\ C.bucket = read.bucket
    <3> HIDE DEF read
    <3> QED BY <2>1, CutType
  <2> QED BY <1>3, <2>2 DEF Indexed
<1> HIDE DEF C, W
<1>5. /\ \A f \in Active' : f \in Active \/ (f = W /\ C \in Active)
      /\ \A f \in QueuedCopies' : f \in QueuedCopies \/ f = W
      /\ (\A f, g \in Active : f = g) => \A f, g \in Active' : f = g
  BY <1>1, <1>2, <1>4, WrittenOver
<1>6. Settled(m) = Active
  BY <1>1, NoneInFlight
<1>7. /\ \A f, g \in Active : f = g
      /\ Active = {} \/ (QueuedCopies = {} /\ ~Queuing(read))
  BY <1>1, <1>6 DEF LandInv, OneAtMost, Swept
<1>8. \A f, g \in Active' : f = g
  BY <1>5, <1>7
<1>9. Active' = {} \/ QueuedCopies' = {}
  <2>1. ~Queuing(read) => ~Queuing(W)
    BY <1>2 DEF Queuing
  <2>2. \A f \in QueuedCopies' : Queuing(f)
    BY DEF QueuedCopies
  <2> QED BY <1>5, <1>7, <2>1, <2>2
<1>10. \/ read.bucket = mover[m].to
       \/ mover[m].to = "discarded" \/ ~IsGenerated(read)
       \/ \A f \in Active' : Path(f) = Path(read)
  <2>1. "complete" \notin Queued
    BY DEF Queued
  <2>2. \/ read.bucket = mover[m].to
        \/ mover[m].to = "discarded" \/ ~IsGenerated(read)
        \/ \A f \in Active : Path(f) = Path(read)
    BY <1>1, <1>2, <2>1 DEF LandInv, Source, Placing
  <2>3. (\A f \in Active : Path(f) = Path(read)) => \A f \in Active' : Path(f) = Path(read)
    BY <1>2, <1>5
  <2> QED BY <2>2, <2>3
<1>11. read.bucket = mover[m].to => mover[m].got = Path(read) /\ mover[m].got \in Paths'
  BY <1>1, <1>2 DEF LandInv, Source, Paths
<1>12. \A f \in files' : Path(f) = Path(read) => (IsGenerated(f) <=> IsGenerated(read))
  BY <1>2
<1> QED BY <1>1, <1>8, <1>9, <1>10, <1>11, <1>12, GoLands

\* The copy that was moved is safe from the passes that follow, or it was taken
\* back from the discarded bucket beside an archived one.
LEMMA RenameLands ==
    ASSUME Typed, Alone, LoneInv, NEW m \in Movers, LandInv(m), Rename(m)
    PROVE  LandInv(m)'
<1> DEFINE p == Path(mover[m].read)
           to == mover[m].to
           x == At(p)
           moved == [x EXCEPT !.bucket = to]
           dest == <<to, mover[m].read.base, mover[m].read.nth>>
<1>1. /\ x \in files /\ Path(x) = p /\ Path(moved) = dest
      /\ moved.kind = x.kind /\ moved.body = x.body
      /\ files' = {f \in files : Path(f) \notin {p, dest}} \cup {moved}
      /\ mover' = [mover EXCEPT ![m].stage = "repair_again", ![m].step = "scan", ![m].got = dest]
  BY RenameMoves
<1>2. /\ mover[m] \in Moving /\ mover \in [Movers -> Moving] /\ mover[m].step = "rename"
      /\ mover[m].todo = {} /\ mover[m].read.bucket # to /\ dest[1] = to
  BY DEF Rename, Typed, StandsRight, Placing, LoneInv, Sound, Renaming
<1> HIDE DEF moved, dest, x
<1>3. mover'[m] = [mover[m] EXCEPT !.stage = "repair_again", !.step = "scan", !.got = dest]
  BY <1>1, <1>2
<1>4. /\ mover'[m].step = "scan" /\ mover'[m].todo = {} /\ mover'[m].to = to
      /\ mover'[m].got = dest /\ mover'[m].stage = "repair_again"
  BY <1>2, <1>3 DEF Moving
<1>5. IsGenerated(moved) <=> IsGenerated(mover[m].read)
  <2>1. IsGenerated(x) <=> IsGenerated(mover[m].read)
    BY <1>1, <1>2 DEF LandInv, Source
  <2> QED BY <1>1, <2>1 DEF IsGenerated
<1>6. /\ Settled(m)' = Active' /\ \A f : ~InFlight(m, f)'
      /\ \A f \in Active' : (f \in Active /\ Path(f) # p) \/ f = moved
  BY <1>1, <1>4 DEF Settled, InFlight, Active, Canonical, Indexed
<1>7. Firm(m)' \/ Excused(m)'
  <2>1. CASE to = "discarded" \/ ~IsGenerated(moved) \/ Active' \subseteq {moved}
    BY <1>1, <1>4, <1>6, <2>1 DEF Firm
  <2>2. CASE \A f \in Active : Path(f) = p
    BY <1>6, <2>1, <2>2
  <2>3. CASE to \in Queued /\ \E c \in Active : c.bucket = "archived" /\ Active \subseteq {c}
    <3>1. PICK c \in Active : c.bucket = "archived" /\ Active \subseteq {c}
      BY <2>3
    <3>2. moved.bucket = to /\ "archived" \notin Queued /\ Queued \cap Actioned = {}
      BY <1>1, <1>2 DEF Path, Queued, Actioned
    <3>3. moved \notin Active'
      BY <2>3, <3>2 DEF Active, Canonical
    <3>4. CASE Path(c) = p
      BY <1>6, <2>1, <3>1, <3>4
    <3>5. CASE Path(c) # p
      <4>1. Path(c) # dest
        BY <1>2, <2>3, <3>1, <3>2 DEF Path
      <4>2. c \in Active'
        BY <1>1, <3>5, <4>1 DEF Active, Canonical, Indexed
      <4>3. Active' \subseteq {c}
        BY <1>6, <3>1, <3>3
      <4>4. Path(c) \notin mover'[m].todo
        BY <1>4
      <4> QED BY <1>4, <1>6, <2>3, <3>1, <4>2, <4>3, <4>4 DEF Excused
    <3> QED BY <3>4, <3>5
  <2> QED BY <1>2, <1>5, <2>1, <2>2, <2>3 DEF LandInv, Source, Placing
<1>8. Landing(m)'
  BY <1>2, <1>4, <1>7 DEF Landing
<1> QED BY <1>4, <1>8
     DEF LandInv, OneLeft, OneAtMost, Sweeping, Swept, Discarding, Source, HasLanded,
         Repairs, Sweeps, Placing

\* The start.
LEMMA InitLands ==
    ASSUME Init, NEW m \in Movers
    PROVE  LandInv(m)
<1>1. mover[m].stage = "idle" /\ mover[m].step = "scan"
  BY DEF Init, Idle
<1> QED BY <1>1
     DEF LandInv, OneLeft, OneAtMost, Sweeping, Swept, Discarding, Source, Landing, HasLanded,
         Repairs, Sweeps, Placing

\* Every step of the only mover.
LEMMA NextLands ==
    ASSUME NEW m, Movers = {m}, Typed, LoneInv, LandInv(m), [Next]_vars
    PROVE  LandInv(m)'
<1>1. Alone
  BY DEF Alone
<1>2. CASE UNCHANGED vars
  BY <1>2 DEF vars, LandInv, OneLeft, OneAtMost, Sweeping, Swept, Discarding, Source, Landing,
     HasLanded, Settled, Active, Canonical, QueuedCopies, Indexed, Paths, Firm, Excused, Beaten,
     InFlight
<1>3. ASSUME NEW to \in Targets, NEW rec \in BOOLEAN, Start(m, to, rec) PROVE LandInv(m)'
  <2>1. mover'[m] = [Idle EXCEPT !.stage = "repair", !.to = to, !.rec = rec]
    BY <1>3 DEF Start, Typed
  <2>2. mover'[m].stage = "repair" /\ mover'[m].step = "scan"
    BY <2>1 DEF Idle
  <2> QED BY <2>2, FreshLands
<1>4. ASSUME Step(m) PROVE LandInv(m)'
  BY <1>1, <1>4, ScanLands, PassEndsLands, ReadSourceLands, CutLands, FillLands, RemoveLands,
     PlaceLands, ReadOutcomeLands, CutRecordLands, FillRecordLands, RenameLands DEF Step
<1>5. ASSUME Crash(m) PROVE LandInv(m)'
  BY <1>5, FailLands DEF Crash
<1> QED BY <1>2, <1>3, <1>4, <1>5 DEF Next

\* A move of the only mover that returns has landed: the ticket is where the
\* returned path says, in the target bucket or further along, with one actioned
\* copy at most that the index knows and no generated queued one beside it,
\* whatever was cut short by moves that stopped before it.
THEOREM MoveLands ==
    ASSUME NEW m, Movers = {m}
    PROVE  Spec => []Landed
<1>1. Init => Typed /\ LoneInv /\ LandInv(m)
  BY InitTyped, InitLone, InitLands
<1>2. Typed /\ LoneInv /\ LandInv(m) /\ [Next]_vars => (Typed /\ LoneInv /\ LandInv(m))'
  <2>1. Alone /\ Alone'
    BY DEF Alone
  <2> QED BY <2>1, NextTyped, NextLone, NextLands
<1>3. Typed /\ LandInv(m) => Landed
  <2> SUFFICES ASSUME Typed, LandInv(m), mover[m].stage = "returned"
               PROVE  /\ \/ mover[m].got \in Paths
                         \/ mover[m].to \in Queued /\ (\E f \in Active : f.bucket = "archived")
                         \/ \E f \in files : f.block = "broken"
                      /\ mover[m].got[1] \in {mover[m].to} \cup Further(Buckets, mover[m].to)
                      /\ Cardinality(Active) <= 1
                      /\ SweepDuplicates = {}
    BY DEF Landed
  <2>1. /\ \A f, g \in Active : f = g
        /\ Active = {} \/ QueuedCopies = {}
    BY DEF LandInv, HasLanded
  <2>2. IsFiniteSet(Active)
    BY FS_Subset DEF Typed, Active, Canonical
  <2>3. Cardinality(Active) <= 1 /\ SweepDuplicates = {}
    BY <2>1, <2>2, CountOne, NothingToSweep
  <2> QED BY <2>3 DEF LandInv, HasLanded
<1> QED BY <1>1, <1>2, <1>3, PTL DEF Spec
=============================================================================
