----------------------------- MODULE PartialRun -----------------------------
(***************************************************************************)
(* Which files a partial compaction merges: select_partial_run and the     *)
(* count trigger around it (src/src/storage/engine.rs), on a reader list   *)
(* that flushes extend at its newest end and merges shorten.               *)
(*                                                                         *)
(* A file is its entry count and its level: how many times the most        *)
(* rewritten of its records has been merged.                               *)
(***************************************************************************)
EXTENDS Naturals, SequencesExt

CONSTANTS
    MergeMin,       \* CompactionConfig::merge_min
    MaxSstCount,    \* CompactionConfig::max_sst_count
    FlushSizes,     \* entry counts a memtable flush may write
    MaxRecords      \* bound: records flushed

ASSUME TierAssumption ==
    /\ {MergeMin, MaxSstCount, MaxRecords} \subseteq Nat
    /\ FlushSizes \subseteq Nat \ {0}

VARIABLES
    overwrites, \* whether keys recur between files and are deleted
    files,      \* the reader list, newest first
    notified,   \* the permit of compaction_notify
    flushed     \* records flushed so far

listVars == <<overwrites, files, notified, flushed>>

File == [size : Nat, level : Nat]

Sizes == [i \in DOMAIN files |-> files[i].size]

-----------------------------------------------------------------------------
(* The selection.                                                          *)

\* entry_count().max(1)
AtLeastOne(n) == IF n = 0 THEN 1 ELSE n

Larger(a, b)  == IF a >= b THEN a ELSE b
Smaller(a, b) == IF a <= b THEN a ELSE b

MutAnyRatio(hi, lo) == TRUE

\* SIZE_TIER_RATIO = 2.0
InRatio(hi, lo) == hi <= 2 * lo

\* One turn of the inner loop: a span that ends before file j takes in that file
\* if its smallest and largest stay within the ratio; else it ends there.
Widen(span, j, next) ==
    LET nlo == Smaller(span.lo, next)
        nhi == Larger(span.hi, next)
    IN  IF span.end = j - 1 /\ InRatio(nhi, nlo)
        THEN [end |-> j, lo |-> nlo, hi |-> nhi]
        ELSE span

\* The inner loop: the end of the span that starts at i.
SpanEnd(s, i) ==
    LET base == AtLeastOne(s[i])
        span[j \in i .. Len(s)] ==
            IF j = i THEN [end |-> i, lo |-> base, hi |-> base]
            ELSE Widen(span[j - 1], j, AtLeastOne(s[j]))
    IN  span[Len(s)].end

MutLongEnough(i, j) == j - i >= MergeMin

LongEnough(i, j) == j - i + 1 >= Larger(MergeMin, 2)

None == <<>>

\* The outer loop: the first span with enough files, else None.
SelectPartialRun(s) ==
    LET from[i \in 1 .. Len(s) + 1] ==
            IF i > Len(s) THEN None
            ELSE LET j == SpanEnd(s, i)
                 IN  IF LongEnough(i, j) THEN <<i, j>> ELSE from[j + 1]
    IN  from[1]

-----------------------------------------------------------------------------
(* The list.                                                               *)

ListInit ==
    /\ overwrites \in BOOLEAN
    /\ files = <<>> /\ notified = FALSE /\ flushed = 0

\* A flush's file becomes the newest of the list.
Prepend(n) ==
    /\ flushed + n <= MaxRecords
    /\ flushed' = flushed + n /\ overwrites' = overwrites
    /\ files' = <<[size |-> n, level |-> 0]>> \o files

\* flush_active also raises the count trigger.
Flush(n) ==
    /\ Prepend(n)
    /\ notified' = (notified \/ (MaxSstCount > 0 /\ Len(files') >= MaxSstCount))

\* The flush of the WAL's pre-rotate callback does not.
RotationFlush(n) == Prepend(n) /\ notified' = notified

SumOf(s)   == FoldLeft(LAMBDA a, b : a + b, 0, s)
Highest(s) == FoldLeft(Larger, 0, s)

\* The entry counts a merge of the run may write: one of each distinct key,
\* without the deleted ones when the run reaches the oldest file.
OutputSizes(run) ==
    LET s == SubSeq(Sizes, run[1], run[2])
    IN  IF ~overwrites THEN {SumOf(s)}
        ELSE IF run[2] = Len(files) THEN 0 .. SumOf(s)
        ELSE Highest(s) .. SumOf(s)

\* compact_partial: merge the selected run into one file in its place.
CompactPartial ==
    /\ notified
    /\ notified' = FALSE
    /\ LET run == SelectPartialRun(Sizes)
       IN  IF run = None THEN files' = files
           ELSE \E n \in OutputSizes(run) :
                   LET levels == [i \in 1 .. run[2] - run[1] + 1 |->
                                      files[run[1] + i - 1].level]
                       out    == [size |-> n, level |-> Highest(levels) + 1]
                   IN  files' = SubSeq(files, 1, run[1] - 1) \o <<out>>
                                    \o SubSeq(files, run[2] + 1, Len(files))
    /\ flushed' = flushed /\ overwrites' = overwrites

ListNext == CompactPartial \/ \E n \in FlushSizes : Flush(n) \/ RotationFlush(n)

ListSpec == ListInit /\ [][ListNext]_listVars

-----------------------------------------------------------------------------
(* Properties.                                                             *)

\* A contiguous range of files whose entry counts are within the ratio: the
\* tier of select_partial_run's comment, written without its loops.
IsTier(s, i, j) ==
    \A a, b \in i .. j : AtLeastOne(s[a]) <= 2 * AtLeastOne(s[b])

Windows(s) == {w \in (1 .. Len(s)) \X (1 .. Len(s)) : w[1] <= w[2]}

\* What select_partial_run promises, stated without its loops: the run it
\* returns is a tier of at least merge_min files that no older file extends,
\* and the files newer than the run (all files, when it returns None) hold no
\* tier of 2 * merge_min - 1 files.  The scan goes on where the last span
\* ended and so may cut a tier in two, but it never skips a longer one.
RunIsTier ==
    LET s == Sizes
        m == Larger(MergeMin, 2)
        run == SelectPartialRun(s)
        bound == IF run = None THEN Len(s) ELSE run[1] - 1
    IN  /\ run # None =>
              /\ IsTier(s, run[1], run[2])
              /\ run[2] - run[1] + 1 >= m
              /\ run[2] < Len(s) => ~IsTier(s, run[1], run[2] + 1)
        /\ \A w \in Windows(s) :
              w[2] <= bound /\ IsTier(s, w[1], w[2])
                  => w[2] - w[1] + 1 < 2 * m - 1

\* With distinct keys a record that has been merged L times lies in a file of
\* at least 2^L records, so an import of N records rewrites each at most
\* log2(N) times ("write amplification O(log N) instead of quadratic",
\* select_partial_run).  A run of two files, one half the other, would grow the
\* larger only by half, so this needs merge_min of at least 3.
LogAmplification ==
    ~overwrites => \A i \in DOMAIN files : 2 ^ files[i].level <= files[i].size

=============================================================================
