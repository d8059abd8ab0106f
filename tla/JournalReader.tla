---------------------------- MODULE JournalReader ----------------------------
(***************************************************************************)
(* The normalized webhook journal and the reader that carries it into the  *)
(* visit store: the rotating file handler writes lines and renames files   *)
(* while the reader opens the files one by one, reads on from its stored   *)
(* offsets and stores each line's effect together with its progress.       *)
(* Files are known by their inode, which the system may reuse; the process *)
(* may crash at any step, and a power failure may take back what neither   *)
(* SQLite (synchronous=NORMAL) nor the journal had forced to disk.         *)
(***************************************************************************)
EXTENDS Integers, Sequences, FiniteSets, SequencesExt

CONSTANTS Event,     \* offline events; each is written once
          Inode,     \* file identities (st_dev:st_ino)
          None,      \* no file, no row
          Backups,   \* rotation_backup_count
          Failures,  \* crashes and power failures are bounded by Failures
          Rotations  \* rotations are bounded by Rotations

ASSUME JournalAssumption == Backups \in Nat \ {0} /\ Failures \in Nat /\ Rotations \in Nat

ASSUME NoneAssumption == None \notin Event \cup Inode

VARIABLES
  slot,      \* slot[0] is the active file, slot[k] the file named .k
  content,   \* content[i]: complete lines of file i
  tail,      \* tail[i]: what follows the last newline: "none", "line" or "torn"
  writing,   \* the event whose line is being written
  written,   \* events handed to the journal
  rot,       \* 0, or the next name the rotation in progress moves a file to
  rows,      \* table visit_reader_state
  applied,   \* events in table visit_source_events
  synced,    \* what the database falls back to after a power failure
  scan,      \* the reader's scan: its place, the open files and the position in one of them
  failures,
  rotations

vars == <<slot, content, tail, writing, written, rot, rows, applied, synced, scan, failures, rotations>>

Names == 0 .. Backups

\* A complete line ends with the bytes of one event; with the remains of a torn line in front of them
\* it is not valid JSON.
Line == [event : Event, valid : BOOLEAN]

IdleScan == [pc |-> "idle", name |-> 0, found |-> <<>>, source |-> 0, cursor |-> 0]

Init ==
  /\ slot = [k \in Names |-> None]
  /\ content = [i \in Inode |-> <<>>]
  /\ tail = [i \in Inode |-> "none"]
  /\ writing = None
  /\ written = {}
  /\ rot = 0
  /\ rows = [i \in Inode |-> None]
  /\ applied = {}
  /\ synced = [rows |-> rows, applied |-> {}]
  /\ scan = IdleScan
  /\ failures = 0
  /\ rotations = 0

-----------------------------------------------------------------------------
(* Writing: append_many and RotatingFileHandler                            *)

Linked == {slot[k] : k \in Names} \ {None}

Opened == {scan.found[n].inode : n \in DOMAIN scan.found}

\* inodes the file system may give to a new file
Free == Inode \ (Linked \cup Opened)

\* The line's first bytes reach the file, which is created when it is missing.
BeginLine(e, i) ==
  /\ rot = 0 /\ writing = None
  /\ e \notin written
  /\ IF slot[0] = None THEN i \in Free ELSE i = slot[0]
  /\ slot' = [slot EXCEPT ![0] = i]
  /\ content' = IF slot[0] = None THEN [content EXCEPT ![i] = <<>>] ELSE content
  /\ tail' = [tail EXCEPT ![i] = IF slot[0] # None /\ tail[i] = "line" THEN "torn" ELSE "line"]
  /\ writing' = e
  /\ written' = written \cup {e}
  /\ UNCHANGED <<rot, rows, applied, synced, scan, failures, rotations>>

\* The rest of the line and its newline; after the remains of a torn line it is not JSON.
EndLine ==
  /\ writing # None
  /\ LET i == slot[0]
     IN /\ content' = [content EXCEPT ![i] = Append(@, [event |-> writing, valid |-> tail[i] # "torn"])]
        /\ tail' = [tail EXCEPT ![i] = "none"]
  /\ writing' = None
  /\ UNCHANGED <<slot, written, rot, rows, applied, synced, scan, failures, rotations>>

\* doRollover, one rename at a time: .1 to .2 (the old .2 is removed), then the active file to .1
BeginRotation ==
  /\ rot = 0 /\ writing = None
  /\ rotations < Rotations
  /\ slot[0] # None /\ content[slot[0]] # <<>>
  /\ rot' = Backups
  /\ rotations' = rotations + 1
  /\ UNCHANGED <<slot, content, tail, writing, written, rows, applied, synced, scan, failures>>

Rename ==
  /\ rot > 0
  /\ slot' = IF slot[rot - 1] = None THEN slot
             ELSE [slot EXCEPT ![rot] = slot[rot - 1], ![rot - 1] = None]
  /\ rot' = rot - 1
  /\ UNCHANGED <<content, tail, writing, written, rows, applied, synced, scan, failures, rotations>>

-----------------------------------------------------------------------------
(* Reading: scan_once                                                      *)

StartScan ==
  /\ scan.pc = "idle"
  /\ scan' = [IdleScan EXCEPT !.pc = "discover", !.name = Backups]
  /\ UNCHANGED <<slot, content, tail, writing, written, rot, rows, applied, synced, failures, rotations>>

\* found with file i under name k; a file met twice is kept once, as the active one if it is
Found(i, k) ==
  IF i = None THEN scan.found
  ELSE IF i \in Opened
  THEN [n \in DOMAIN scan.found |->
          IF scan.found[n].inode = i /\ k = 0 THEN [inode |-> i, active |-> TRUE] ELSE scan.found[n]]
  ELSE Append(scan.found, [inode |-> i, active |-> k = 0])

\* _discover_sources opens one name after the other, oldest first.
Discover ==
  /\ scan.pc = "discover"
  /\ scan' = [scan EXCEPT !.found = Found(slot[scan.name], scan.name),
                          !.name = IF @ > 0 THEN @ - 1 ELSE 0,
                          !.pc = IF scan.name > 0 THEN "discover" ELSE "sources",
                          !.source = IF scan.name > 0 THEN 0 ELSE 1]
  /\ UNCHANGED <<slot, content, tail, writing, written, rot, rows, applied, synced, failures, rotations>>

Source == scan.found[scan.source]

\* _checkpoint: length, first and last bytes of what has been read
Checkpoint(i, offset) ==
  IF offset = 0 THEN <<0>> ELSE <<offset, content[i][1], content[i][offset]>>

Row(i, offset, retired) ==
  [offset |-> offset, check |-> Checkpoint(i, offset), retired |-> retired, missing |-> FALSE]

\* Variant: the checkpoint is not compared with the file.
MustRestart_NoCheckpoint(i, active) ==
  /\ rows[i] # None
  /\ \/ rows[i].missing
     \/ rows[i].retired /\ active
     \/ Len(content[i]) < rows[i].offset

\* source_reappeared, retired_identity_reused, source_truncated, checkpoint_mismatch
MustRestart(i, active) ==
  /\ rows[i] # None
  /\ \/ rows[i].missing
     \/ rows[i].retired /\ active
     \/ Len(content[i]) < rows[i].offset
     \/ rows[i].check # Checkpoint(i, rows[i].offset)

\* Variant: the row is reset but the scan goes on at its old offset.
OpenSource_KeepsCursor ==
  /\ scan.pc = "sources"
  /\ scan.source <= Len(scan.found)
  /\ LET i == Source.inode
     IN /\ rows' = IF MustRestart(i, Source.active) THEN [rows EXCEPT ![i] = Row(i, 0, FALSE)] ELSE rows
        /\ scan' = [scan EXCEPT !.pc = "lines", !.cursor = IF rows[i] = None THEN 0 ELSE rows[i].offset]
  /\ UNCHANGED <<slot, content, tail, writing, written, rot, applied, synced, failures, rotations>>

\* Variant: a file met for the first time is taken as read.
OpenSource_Forgets ==
  /\ scan.pc = "sources"
  /\ scan.source <= Len(scan.found)
  /\ scan' = [scan EXCEPT !.pc = "lines",
                          !.cursor = IF rows[Source.inode] = None THEN Len(content[Source.inode])
                                     ELSE rows[Source.inode].offset]
  /\ UNCHANGED <<slot, content, tail, writing, written, rot, rows, applied, synced, failures, rotations>>

\* _process_source up to the loop: a source that must be read again has its row reset first.
OpenSource ==
  /\ scan.pc = "sources"
  /\ scan.source <= Len(scan.found)
  /\ LET i == Source.inode
         restart == MustRestart(i, Source.active)
     IN /\ rows' = IF restart THEN [rows EXCEPT ![i] = Row(i, 0, FALSE)] ELSE rows
        /\ scan' = [scan EXCEPT !.pc = "lines",
                                !.cursor = IF restart \/ rows[i] = None THEN 0 ELSE rows[i].offset]
  /\ UNCHANGED <<slot, content, tail, writing, written, rot, applied, synced, failures, rotations>>

NextSource == [scan EXCEPT !.pc = "sources", !.source = @ + 1, !.cursor = 0]

\* events a reader takes from a sequence of complete lines
Events(lines) == {l.event : l \in {x \in Range(lines) : x.valid}}

\* A complete line: its effect and the progress are one transaction (apply_journal_line).
ReadLine ==
  /\ scan.pc = "lines"
  /\ scan.cursor < Len(content[Source.inode])
  /\ applied' = applied \cup Events(<<content[Source.inode][scan.cursor + 1]>>)
  /\ rows' = [rows EXCEPT ![Source.inode] = Row(Source.inode, scan.cursor + 1, FALSE)]
  /\ scan' = [scan EXCEPT !.cursor = @ + 1]
  /\ UNCHANGED <<slot, content, tail, writing, written, rot, synced, failures, rotations>>

\* The file ends in a line without newline: progress up to its start.
ReadPartial ==
  /\ scan.pc = "lines"
  /\ scan.cursor = Len(content[Source.inode])
  /\ tail[Source.inode] # "none"
  /\ rows' = [rows EXCEPT ![Source.inode] = Row(Source.inode, scan.cursor, FALSE)]
  /\ scan' = NextSource
  /\ UNCHANGED <<slot, content, tail, writing, written, rot, applied, synced, failures, rotations>>

\* End of file: a file that is not the active one is complete.
EndSource ==
  /\ scan.pc = "lines"
  /\ scan.cursor = Len(content[Source.inode])
  /\ tail[Source.inode] = "none"
  /\ rows' = [rows EXCEPT ![Source.inode] = Row(Source.inode, scan.cursor, ~Source.active)]
  /\ scan' = NextSource
  /\ UNCHANGED <<slot, content, tail, writing, written, rot, applied, synced, failures, rotations>>

\* The scan's budget of lines, bytes or time is used up: the sources that are left are skipped.
BudgetExhausted ==
  /\ scan.pc \in {"sources", "lines"}
  /\ scan.pc = "sources" => scan.source <= Len(scan.found)
  /\ scan' = [scan EXCEPT !.pc = "missing", !.cursor = 0]
  /\ UNCHANGED <<slot, content, tail, writing, written, rot, rows, applied, synced, failures, rotations>>

SourcesDone ==
  /\ scan.pc = "sources"
  /\ scan.source > Len(scan.found)
  /\ scan' = [scan EXCEPT !.pc = "missing"]
  /\ UNCHANGED <<slot, content, tail, writing, written, rot, rows, applied, synced, failures, rotations>>

\* sources with a row that this scan did not find and has not dealt with
Missing == {i \in Inode \ Opened : rows[i] # None /\ (rows[i].retired \/ ~rows[i].missing)}

\* _reconcile_missing: a completed file's row is deleted, another one's is marked.
ReconcileMissing(i) ==
  /\ scan.pc = "missing"
  /\ i \in Missing
  /\ rows' = [rows EXCEPT ![i] = IF rows[i].retired THEN None ELSE [rows[i] EXCEPT !.missing = TRUE]]
  /\ UNCHANGED <<slot, content, tail, writing, written, rot, applied, synced, scan, failures, rotations>>

EndScan ==
  /\ scan.pc = "missing"
  /\ Missing = {}
  /\ scan' = IdleScan
  /\ UNCHANGED <<slot, content, tail, writing, written, rot, rows, applied, synced, failures, rotations>>

\* An exception (BUSY write slot, I/O error, stop) ends the scan; what was committed stays.
ScanFails ==
  /\ scan.pc # "idle"
  /\ scan' = IdleScan
  /\ UNCHANGED <<slot, content, tail, writing, written, rot, rows, applied, synced, failures, rotations>>

-----------------------------------------------------------------------------
(* Failures.  The writer and the reader live in one process.               *)

Stopped ==
  /\ failures < Failures
  /\ failures' = failures + 1
  /\ rot' = 0
  /\ writing' = None
  /\ scan' = IdleScan
  /\ UNCHANGED <<slot, written, rotations>>

Crash ==
  /\ Stopped
  /\ UNCHANGED <<content, tail, rows, applied, synced>>

\* SQLite forces its log to disk (a checkpoint, a clean close).
Sync ==
  /\ synced' = [rows |-> rows, applied |-> applied]
  /\ UNCHANGED <<slot, content, tail, writing, written, rot, rows, applied, scan, failures, rotations>>

\* The database falls back to a state it had since the last sync; the active file may lose lines.
PowerFailure(keep) ==
  /\ Stopped
  /\ rows' = synced.rows
  /\ applied' = synced.applied
  /\ LET i == slot[0]
     IN IF i = None \/ keep >= Len(content[i]) THEN UNCHANGED <<content, tail>>
        ELSE /\ content' = [content EXCEPT ![i] = SubSeq(@, 1, keep)]
             /\ tail' = [tail EXCEPT ![i] = "none"]
  /\ UNCHANGED synced

Writer ==
  \/ \E e \in Event, i \in Inode : BeginLine(e, i)
  \/ EndLine
  \/ BeginRotation
  \/ Rename

Reader ==
  \/ StartScan
  \/ Discover
  \/ OpenSource
  \/ ReadLine
  \/ ReadPartial
  \/ EndSource
  \/ SourcesDone
  \/ \E i \in Inode : ReconcileMissing(i)
  \/ EndScan

Next ==
  \/ Writer
  \/ Reader
  \/ BudgetExhausted
  \/ ScanFails
  \/ Crash
  \/ Sync
  \/ \E keep \in 0 .. Cardinality(Event) : PowerFailure(keep)

Spec == Init /\ [][Next]_vars

\* The reader keeps scanning, and from some time on scans neither fail nor run out of budget (the
\* write slot serves the reader as long as it is the only background thread or its waits outlast
\* the escape, see WriteCoordinator, and a scan's budget exceeds what is written between two scans).
FairSpec ==
  /\ Spec
  /\ WF_vars(EndLine)
  /\ WF_vars(Rename)
  /\ WF_vars(Reader)
  /\ <>[][~ScanFails /\ ~BudgetExhausted]_vars

-----------------------------------------------------------------------------
(* Properties                                                              *)

\* Types; no file has two names, and the name a rotation is about to use is known.
TypeOK ==
  /\ slot \in [Names -> Inode \cup {None}]
  /\ \A j, k \in Names : slot[j] = slot[k] /\ slot[j] # None => j = k
  /\ \A i \in Inode : content[i] \in Seq(Line)
  /\ tail \in [Inode -> {"none", "line", "torn"}]
  /\ rot \in Names
  /\ applied \subseteq written
  /\ \A i \in Inode : rows[i] # None => rows[i].offset \in Nat
  /\ scan.pc \in {"idle", "discover", "sources", "lines", "missing"}

\* What the next scan would skip of file i: nothing, or all up to a stored offset that passes every
\* test of _process_source.
Skipped(i, active) ==
  IF rows[i] = None \/ MustRestart(i, active) THEN {} ELSE Events(SubSeq(content[i], 1, rows[i].offset))

\* No line is skipped: whatever rotations, reused inodes, failed scans, crashes and power failures
\* came before, everything in front of a stored offset the reader would trust is in the store.
NothingSkipped ==
  \A k \in Names : slot[k] # None => Skipped(slot[k], k = 0) \subseteq applied

\* The same inside a scan, whose files were opened under names they may have lost meanwhile.
CursorIsHonest ==
  scan.pc = "lines" =>
    /\ scan.cursor <= Len(content[Source.inode])
    /\ Events(SubSeq(content[Source.inode], 1, scan.cursor)) \subseteq applied

\* Neither a stored offset nor the cursor of a scan ever runs ahead of the store.
OffsetsAreEarned == TypeOK /\ NothingSkipped /\ CursorIsHonest

\* Every complete line in a file the rotation keeps is carried into the store eventually.
LinesAreApplied ==
  \A e \in Event :
    (\E k \in Names : slot[k] # None /\ e \in Events(content[slot[k]]))
      ~> \/ e \in applied
         \/ \A k \in Names : slot[k] # None => e \notin Events(content[slot[k]])
=============================================================================
