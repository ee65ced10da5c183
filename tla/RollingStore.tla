---------------------------- MODULE RollingStore ----------------------------
(***************************************************************************)
(* The segmented record store of core/agent/src/rolling_file_store.rs as   *)
(* the API audit stream uses it (audit.rs, write_audit_events_unlocked):   *)
(* records are appended to numbered segment files listed in a manifest,    *)
(* the oldest segments are evicted, old records pruned, and the whole      *)
(* store is rewritten through a sibling directory when one is deleted.     *)
(* One writer at a time holds the stream's MemGuard; it may crash between  *)
(* any two changes of the disk.  Readers take no lock, and repair what     *)
(* they find.                                                              *)
(***************************************************************************)
EXTENDS Naturals, FiniteSetsExt, SequencesExt

CONSTANTS
    LastRecord,     \* records are numbered in the order they are appended
    LegacyRecords,  \* how many are in the newline-delimited file of old, if there is one
    Slice,          \* slice_bytes, in records
    Stable,         \* stable_bytes, in records
    MaxRewrites,    \* deletions considered
    MaxCrashes      \* crashes considered

VARIABLES
    dir,        \* the segments directory
    legacy,     \* the file of old, <<>> when there is none
    temps,      \* directories .rolling-segments.tmp-*
    backups,    \* directories .rolling-segments.old-*
    op,         \* the writer
    next,       \* the next record
    rewrites, crashes,
    kept,       \* history: records appended with success and not given up since
    misled,     \* history: a repair took a directory it should not have taken
    jumbled     \* history: a store rewritten into several segments was appended to

vars == <<dir, legacy, temps, backups, op, next, rewrites, crashes, kept, misled, jumbled>>

(* A file name: segment-%08d (a rewritten segment) or segment-%016d.       *)
Appended(n) == [wide |-> TRUE, n |-> n]
Rewritten(n) == [wide |-> FALSE, n |-> n]

(* Names are compared as text: eight digits other than zeros come after    *)
(* every number that starts with eight zeros.                              *)
Far == 100
NameKey(f) == IF f.wide \/ f.n = 0 THEN f.n ELSE Far + f.n

NoManifest == [next |-> 0, list |-> <<>>]
EmptyDir == [there |-> TRUE, files |-> <<>>, manifest |-> NoManifest,
             dirty |-> FALSE, cut |-> FALSE]
NoDir == [EmptyDir EXCEPT !.there = FALSE]
Idle == [pc |-> "idle", rec |-> 0, manifest |-> NoManifest, limit |-> 0, spare |-> 0,
         temp |-> EmptyDir, rest |-> <<>>]

Init ==
    /\ dir = NoDir
    /\ legacy \in {<<>>, [r \in 1 .. LegacyRecords |-> r]}
    /\ temps = {} /\ backups = {}
    /\ op = Idle
    /\ next = Len(legacy) + 1
    /\ rewrites = 0 /\ crashes = 0
    /\ kept = Range(legacy)
    /\ misled = FALSE /\ jumbled = FALSE
-----------------------------------------------------------------------------
Exists == dir.there
Without(f, S) == [x \in DOMAIN f \ S |-> f[x]]
With(f, x, v) == [y \in DOMAIN f \cup {x} |-> IF y = x THEN v ELSE f[y]]

(* segment_entries: the segment files by name, oldest first.               *)
SegmentEntries(d) == SetToSortSeq(DOMAIN d.files, LAMBDA f, g : NameKey(f) < NameKey(g))

(* read_segmented_records of a directory.                                  *)
Content(d) == FlattenSeq([i \in DOMAIN SegmentEntries(d) |-> d.files[SegmentEntries(d)[i]]])

(* manifest_from_segments                                                  *)
FromSegments(d) ==
    LET entries == SegmentEntries(d)
    IN  [next |-> IF entries = <<>> THEN 1 ELSE Last(entries).n + 1,
         list |-> [i \in DOMAIN entries |->
                     [name |-> entries[i], size |-> Len(d.files[entries[i]])]]]

(* refresh_rolling_manifest: the manifest is rebuilt from the files, with  *)
(* a next index that never decreases; then the mark is removed.            *)
Refreshed(d) ==
    LET m == FromSegments(d)
    IN  [d EXCEPT !.manifest = [m EXCEPT !.next = Max({@, d.manifest.next})],
                  !.dirty = FALSE, !.cut = FALSE]

(* load_or_rebuild_manifest                                                *)
Loaded(d) == IF d.dirty \/ d.manifest = NoManifest THEN Refreshed(d) ELSE d

Total(m) == FoldFunction(LAMBDA s, n : s.size + n, 0, m.list)
-----------------------------------------------------------------------------
(* A directory beside the store is whole when it holds what the store      *)
(* would hold.                                                             *)
Strays == temps \cup backups

(* Mutant: a half-finished temporary is preferred to the backup. *)
RepairWithTemps == IF temps # {} THEN temps ELSE backups

(* What recover_segmented_directory may move into place: the backup with   *)
(* the greatest name, or else such a temporary.  Names begin with the      *)
(* process id, so which one is greatest says nothing about their age.      *)
RepairWith == IF backups # {} THEN backups ELSE temps

(* recover_segmented_directory, by whoever looks at the store first: a     *)
(* reader without the lock, or the writer before anything else.  It is     *)
(* misled when all it finds is an unfinished temporary, or when it picks   *)
(* an outdated copy.                                                       *)
Recover ==
    /\ ~Exists /\ Strays # {}
    /\ \E t \in RepairWith :
         /\ dir' = t.dir
         /\ misled' = (misled \/ (~t.whole /\ (t \in backups \/ backups = {})))
    /\ temps' = {} /\ backups' = {}
    /\ UNCHANGED <<legacy, op, next, rewrites, crashes, kept, jumbled>>

(* The writer has the lock, and the store is in place.                     *)
Begins == op.pc = "idle" /\ (Exists \/ Strays = {})

(* migrate_legacy_file copies the old file slice by slice into a temporary *)
(* directory ...                                                           *)
StartCopy ==
    /\ Begins /\ ~Exists /\ legacy # <<>>
    /\ op' = [Idle EXCEPT !.pc = "copy", !.rest = legacy]
    /\ temps' = temps \cup {[dir |-> EmptyDir, whole |-> FALSE]}
    /\ UNCHANGED <<dir, legacy, backups, next, rewrites, crashes, kept, misled, jumbled>>

Chunk(s) == SubSeq(s, 1, Min({Slice, Len(s)}))
Rest(s) == SubSeq(s, Len(Chunk(s)) + 1, Len(s))
Partial(t) == [dir |-> t, whole |-> FALSE]
Mine == {t \in temps : t.dir = op.temp}

(* One more segment of the temporary directory.  If a reader has moved the *)
(* directory away the write fails and the writer gives up.                 *)
WriteSegment(name) ==
    LET grown == [op.temp EXCEPT !.files = With(@, name, Chunk(op.rest))]
    IN  /\ op.rest # <<>>
        /\ IF Mine = {}
           THEN op' = Idle /\ UNCHANGED temps
           ELSE /\ temps' = (temps \ Mine) \cup {Partial(grown)}
                /\ op' = [op EXCEPT !.temp = grown, !.rest = Rest(@)]
        /\ UNCHANGED <<dir, legacy, backups, next, rewrites, crashes, kept, misled, jumbled>>

Copy == op.pc = "copy" /\ WriteSegment(Appended(Cardinality(DOMAIN op.temp.files) + 1))

(* ... adds the manifest and moves it into place; then the old file goes.  *)
PutInPlace ==
    LET done == [op.temp EXCEPT !.manifest = FromSegments(op.temp)] IN
    /\ op.pc = "copy" /\ op.rest = <<>>
    /\ IF Mine = {} \/ dir \notin {NoDir, EmptyDir}
       THEN op' = Idle /\ temps' = temps \ Mine /\ UNCHANGED dir
       ELSE dir' = done /\ temps' = temps \ Mine /\ op' = [op EXCEPT !.pc = "copied"]
    /\ UNCHANGED <<legacy, backups, next, rewrites, crashes, kept, misled, jumbled>>

RemoveLegacy ==
    /\ op.pc = "copied"
    /\ legacy' = <<>>
    /\ op' = Idle
    /\ UNCHANGED <<dir, temps, backups, next, rewrites, crashes, kept, misled, jumbled>>
-----------------------------------------------------------------------------
Segment(m, name) == [next |-> Max({m.next, 1}) + 1,
                     list |-> Append(m.list, [name |-> name, size |-> 0])]

(* Mutant: a new segment is numbered by how many there are. *)
ByCount(m) == Segment(m, Appended(Len(m.list) + 1))

(* A new segment is numbered by next_index. *)
Rolled(m) == Segment(m, Appended(Max({m.next, 1})))

(* append_rolling_record_with_result: the active segment is the last one   *)
(* of the manifest, at the length it really has, or a new one, which the   *)
(* manifest lists before it exists.                                        *)
Active(d) ==
    LET m == d.manifest
        last == Last(m.list).name
        actual == IF last \in DOMAIN d.files THEN Len(d.files[last]) ELSE 0
        m0 == IF m.list = <<>> THEN m
              ELSE [m EXCEPT !.list = Append(Front(@), [name |-> last, size |-> actual])]
    IN  IF m.list # <<>> /\ actual < Slice THEN m0 ELSE Rolled(m0)

StartAppend ==
    LET loaded == Loaded(IF Exists THEN dir ELSE EmptyDir)
        m == Active(loaded)
    IN
    /\ Begins /\ (Exists \/ legacy = <<>>)
    /\ next <= LastRecord
    /\ next' = next + 1
    /\ dir' = IF Len(m.list) > Len(loaded.manifest.list)
              THEN [loaded EXCEPT !.manifest = m] ELSE loaded
    /\ op' = [Idle EXCEPT !.pc = "write", !.rec = next, !.manifest = m]
    /\ UNCHANGED <<legacy, temps, backups, rewrites, crashes, kept, misled, jumbled>>

(* The record is written and synced.                                       *)
WriteRecord ==
    LET target == Last(op.manifest.list)
        old == IF target.name \in DOMAIN dir.files THEN dir.files[target.name] ELSE <<>>
    IN
    /\ op.pc = "write"
    /\ dir' = [dir EXCEPT !.files = With(@, target.name, Append(old, op.rec))]
    /\ op' = [op EXCEPT !.pc = "evict", !.limit = Stable, !.spare = 1,
                 !.manifest.list = Append(Front(@), [target EXCEPT !.size = @ + 1])]
    /\ jumbled' = (jumbled \/ (target.name.wide /\ Rewritten(1) \in DOMAIN dir.files))
    /\ UNCHANGED <<legacy, temps, backups, next, rewrites, crashes, kept, misled>>

(* trim_rolling_segments, to make room in the audit directory.             *)
StartTrim(limit) ==
    /\ Begins /\ Exists
    /\ dir' = Loaded(dir)
    /\ op' = [Idle EXCEPT !.pc = "evict", !.limit = limit, !.manifest = Loaded(dir).manifest]
    /\ UNCHANGED <<legacy, temps, backups, next, rewrites, crashes, kept, misled, jumbled>>

TooMuch == Total(op.manifest) > op.limit /\ Len(op.manifest.list) > op.spare

Victim == Head(op.manifest.list).name

(* The oldest segment is removed; when its file is missing the call fails. *)
Evict ==
    /\ op.pc = "evict" /\ TooMuch
    /\ IF Victim \in DOMAIN dir.files
       THEN /\ dir' = [dir EXCEPT !.files = Without(@, {Victim})]
            /\ op' = [op EXCEPT !.manifest.list = SelectSeq(@, LAMBDA s : s.name # Victim)]
            /\ kept' = kept \ Range(dir.files[Victim])
       ELSE op' = Idle /\ UNCHANGED <<dir, kept>>
    /\ UNCHANGED <<legacy, temps, backups, next, rewrites, crashes, misled, jumbled>>

(* The manifest is written and the call returns.                           *)
Seal ==
    /\ op.pc = "evict" /\ ~TooMuch
    /\ dir' = [dir EXCEPT !.manifest = op.manifest]
    /\ kept' = IF op.rec # 0 /\ op.rec \in Range(Content(dir)) THEN kept \cup {op.rec} ELSE kept
    /\ op' = Idle
    /\ UNCHANGED <<legacy, temps, backups, next, rewrites, crashes, misled, jumbled>>
-----------------------------------------------------------------------------
(* A record is deleted: rewrite_segmented_records writes all the others    *)
(* into a temporary directory ...                                          *)
StartRewrite(r) ==
    /\ Begins /\ Exists
    /\ r \in Range(Content(dir))
    /\ rewrites < MaxRewrites
    /\ rewrites' = rewrites + 1
    /\ kept' = kept \ {r}
    /\ op' = [Idle EXCEPT !.pc = "rewrite", !.rest = SelectSeq(Content(dir), LAMBDA x : x # r)]
    /\ temps' = temps \cup {Partial(EmptyDir)}
    /\ UNCHANGED <<dir, legacy, backups, next, crashes, misled, jumbled>>

Rewrite == op.pc = "rewrite" /\ WriteSegment(Rewritten(Cardinality(DOMAIN op.temp.files)))

(* ... moves the store aside, where it is the copy to go back to ...       *)
MoveAside ==
    /\ op.pc = "rewrite" /\ op.rest = <<>>
    /\ backups' = backups \cup {[dir |-> dir, whole |-> TRUE]}
    /\ dir' = NoDir
    /\ op' = [op EXCEPT !.pc = "install"]
    /\ UNCHANGED <<legacy, temps, next, rewrites, crashes, kept, misled, jumbled>>

(* ... and the new one into its place, unless a reader has repaired the    *)
(* store meanwhile.  The copy is now out of date.                          *)
Outdated(S) == {[b EXCEPT !.whole = FALSE] : b \in S}

Install ==
    /\ op.pc = "install"
    /\ IF Mine # {} /\ dir \in {NoDir, EmptyDir}
       THEN /\ dir' = op.temp
            /\ temps' = temps \ Mine
            /\ backups' = Outdated(backups)
            /\ op' = [op EXCEPT !.pc = "sweep"]
       ELSE op' = Idle /\ temps' = temps \ Mine /\ UNCHANGED <<dir, backups>>
    /\ UNCHANGED <<legacy, next, rewrites, crashes, kept, misled, jumbled>>

(* The copy is removed, if that succeeds, and the file of old.             *)
Sweep ==
    /\ op.pc = "sweep"
    /\ backups' \in {{}, backups}
    /\ legacy' = <<>>
    /\ op' = Idle
    /\ UNCHANGED <<dir, temps, next, rewrites, crashes, kept, misled, jumbled>>
-----------------------------------------------------------------------------
(* Mutant: the store is not marked before its files are edited. *)
MarkedNot(d) == Refreshed(d)

Marked(d) == [Refreshed(d) EXCEPT !.dirty = TRUE]

(* prune_audit_jsonl: the manifest is refreshed and marked, the records    *)
(* before the cutoff are removed segment by segment, and the manifest is   *)
(* rebuilt.                                                                *)
StartPrune(cutoff) ==
    /\ Begins /\ Exists
    /\ dir' = Marked(dir)
    /\ op' = [Idle EXCEPT !.pc = "prune", !.limit = cutoff, !.rest = SegmentEntries(dir)]
    /\ kept' = {r \in kept : r >= cutoff}
    /\ UNCHANGED <<legacy, temps, backups, next, rewrites, crashes, misled, jumbled>>

PruneSegment ==
    LET f == Head(op.rest)
        left == SelectSeq(dir.files[f], LAMBDA r : r >= op.limit)
    IN
    /\ op.pc = "prune" /\ op.rest # <<>>
    /\ dir' = [dir EXCEPT !.files = IF left = <<>> THEN Without(@, {f}) ELSE With(@, f, left)]
    /\ op' = [op EXCEPT !.rest = Tail(@)]
    /\ UNCHANGED <<legacy, temps, backups, next, rewrites, crashes, kept, misled, jumbled>>

EndPrune ==
    /\ op.pc = "prune" /\ op.rest = <<>>
    /\ dir' = Refreshed(dir)
    /\ op' = Idle
    /\ UNCHANGED <<legacy, temps, backups, next, rewrites, crashes, kept, misled, jumbled>>

(* The process ends where it is.                                           *)
Crash ==
    /\ op.pc # "idle"
    /\ crashes < MaxCrashes
    /\ crashes' = crashes + 1
    /\ dir' = [dir EXCEPT !.cut = @ \/ (op.pc = "evict" /\
                 \E s \in Range(dir.manifest.list) :
                     s.name \notin {t.name : t \in Range(op.manifest.list)})]
    /\ op' = Idle
    /\ UNCHANGED <<legacy, temps, backups, next, rewrites, kept, misled, jumbled>>

Next ==
    \/ Recover
    \/ StartCopy \/ Copy \/ PutInPlace \/ RemoveLegacy
    \/ StartAppend \/ WriteRecord \/ Evict \/ Seal
    \/ \E r \in 1 .. LastRecord : StartTrim(r) \/ StartRewrite(r) \/ StartPrune(r)
    \/ Rewrite \/ MoveAside \/ Install \/ Sweep
    \/ PruneSegment \/ EndPrune
    \/ Crash

Spec == Init /\ [][Next]_vars
-----------------------------------------------------------------------------
(* A record whose append succeeded is read back, once, until it is         *)
(* evicted, pruned or deleted: through crashes between any two changes of  *)
(* the disk, readers that repair the store while it is being swapped, and  *)
(* rewrites that fail.  The exceptions are repairs that took an unfinished *)
(* temporary or an outdated copy for the store.                            *)
StoredRecordsStay ==
    (Exists \/ Strays = {}) /\ ~misled =>
        LET readable == IF Exists THEN Content(dir) ELSE legacy
        IN  kept \subseteq Range(readable) /\ IsInjective(readable)

(* "oldest-to-newest order": records are read in the order they were       *)
(* appended, and so evicted in that order, unless a store that was         *)
(* rewritten into several segments has been appended to.                   *)
ReadOldestFirst ==
    Exists /\ ~jumbled =>
        \A i, j \in DOMAIN Content(dir) : i < j => Content(dir)[i] < Content(dir)[j]

(* Every record that was stored stays, and in its order, through crashes,  *)
(* rewrites, evictions and the repair of an interrupted rewrite.           *)
RecordsAreKept == StoredRecordsStay /\ ReadOldestFirst

(* A manifest that will be trusted names the files there are, each once,   *)
(* save one that is about to be created: otherwise evictions fail for ever *)
(* or never reach a segment.  A crash in the middle of an eviction is the  *)
(* exception, until the next pruning.                                      *)
ManifestAccounts ==
    LET list == dir.manifest.list
        names == [i \in DOMAIN list |-> list[i].name]
    IN  op.pc = "idle" /\ Exists /\ ~dir.dirty /\ dir.manifest # NoManifest /\ ~dir.cut
            /\ ~jumbled =>
          /\ IsInjective(names)
          /\ DOMAIN dir.files \subseteq Range(names)
          /\ \A i \in DOMAIN list : i < Len(list) => names[i] \in DOMAIN dir.files
=============================================================================
