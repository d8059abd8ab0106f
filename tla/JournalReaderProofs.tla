------------------------- MODULE JournalReaderProofs -------------------------
(***************************************************************************)
(* Proofs about JournalReader.  A checkpoint names the last line in front  *)
(* of its offset, and every line is written once: a file that still passes *)
(* the test of its row therefore has, up to the stored offset, the very    *)
(* lines the store has, whatever became of the file's identity since.      *)
(***************************************************************************)
EXTENDS JournalReader, SequenceTheorems, TLAPS

-----------------------------------------------------------------------------
(* The invariant *)

CheckType == {<<0>>} \cup (Nat \X Line \X Line)

RowType == [offset : Nat, check : CheckType, retired : BOOLEAN, missing : BOOLEAN]

SourceType == [inode : Inode, active : BOOLEAN]

ScanType ==
  [pc : {"idle", "discover", "sources", "lines", "missing"}, name : Names,
   found : Seq(SourceType), source : Nat, cursor : Nat]

TableType == [Inode -> RowType \cup {None}]

FilesInv ==
  /\ slot \in [Names -> Inode \cup {None}]
  /\ \A j, k \in Names : slot[j] = slot[k] /\ slot[j] # None => j = k
  /\ content \in [Inode -> Seq(Line)]
  /\ tail \in [Inode -> {"none", "line", "torn"}]
  /\ rot \in Names

\* A line is being written to the active file, and never while a rotation moves files.
WriterInv ==
  /\ written \subseteq Event
  /\ writing \in written \cup {None}
  /\ writing # None => slot[0] # None /\ rot = 0

TablesInv ==
  /\ rows \in TableType
  /\ applied \subseteq written
  /\ synced \in [rows : TableType, applied : SUBSET written]

\* The event whose line is being written is in no line yet.
LinesInv == \A i \in Inode : \A p \in DOMAIN content[i] : content[i][p].event \in written \ {writing}

\* The first n lines of a file are in the store A.
Stored(lines, n, A) == \A p \in 1 .. n : lines[p].valid => lines[p].event \in A

\* what _checkpoint returns for the first n lines of a file
Check(lines, n) == IF n = 0 THEN <<0>> ELSE <<n, lines[1], lines[n]>>

\* A row names a line of W, and if a file's lines pass its test they are in the store A.
Earned(row, lines, W, A) ==
  /\ row.offset # 0 => row.check[3].event \in W
  /\ row.offset <= Len(lines) /\ row.check = Check(lines, row.offset) => Stored(lines, row.offset, A)

TableEarned(R, C, W, A) == \A i \in Inode : R[i] # None => Earned(R[i], C[i], W, A)

RowsInv ==
  /\ TableEarned(rows, content, written \ {writing}, applied)
  /\ TableEarned(synced.rows, content, written \ {writing}, synced.applied)

ScanInv ==
  /\ scan \in ScanType
  /\ scan.pc = "sources" => scan.source > 0
  /\ scan.pc = "lines" =>
       /\ scan.source \in DOMAIN scan.found
       /\ scan.cursor <= Len(content[Source.inode])
       /\ Stored(content[Source.inode], scan.cursor, applied)

IInv == FilesInv /\ WriterInv /\ TablesInv /\ LinesInv /\ RowsInv /\ ScanInv

-----------------------------------------------------------------------------
(* The files' lines *)

\* A line that is appended changes neither the lines before it nor their checkpoints.
LEMMA AppendKeeps ==
  ASSUME NEW lines \in Seq(Line), NEW line \in Line
  PROVE  /\ Append(lines, line) \in Seq(Line)
         /\ Len(Append(lines, line)) = Len(lines) + 1
         /\ Append(lines, line)[Len(lines) + 1] = line
         /\ \A p \in 1 .. Len(lines) : Append(lines, line)[p] = lines[p]
BY AppendProperties

\* A file that is cut off keeps the lines in front of the cut.
LEMMA CutKeeps ==
  ASSUME NEW lines \in Seq(Line), NEW keep \in Nat, keep < Len(lines)
  PROVE  /\ SubSeq(lines, 1, keep) \in Seq(Line)
         /\ Len(SubSeq(lines, 1, keep)) = keep
         /\ \A p \in 1 .. keep : SubSeq(lines, 1, keep)[p] = lines[p]
BY SubSeqProperties

\* What a reader takes from the first n lines is in the store if these lines are stored.
LEMMA EventsOfPrefix ==
  ASSUME NEW lines \in Seq(Line), NEW n \in 0 .. Len(lines), NEW A, Stored(lines, n, A)
  PROVE  Events(SubSeq(lines, 1, n)) \subseteq A
<1> DEFINE prefix == SubSeq(lines, 1, n)
<1>1. prefix \in Seq(Line) /\ Len(prefix) = n /\ \A p \in 1 .. n : prefix[p] = lines[p]
  BY SubSeqProperties
<1>2. DOMAIN prefix = 1 .. n
  BY <1>1
<1> HIDE DEF prefix
<1>3. \A l \in Range(prefix) : \E p \in 1 .. n : l = lines[p]
  BY <1>1, <1>2 DEF Range
<1>4. \A e \in Events(prefix) : e \in A
  BY <1>3 DEF Events, Stored
<1> QED
  BY <1>4 DEF prefix

\* The event of a complete line, if the line is valid.
LEMMA EventsOfLine ==
  ASSUME NEW line \in Line
  PROVE  Events(<<line>>) = IF line.valid THEN {line.event} ELSE {}
<1>1. Range(<<line>>) = {line}
  BY DEF Range
<1> QED
  BY <1>1 DEF Events

\* A longer file passes no more tests than before, as its new line is in no checkpoint.
LEMMA EarnedAppend ==
  ASSUME NEW row \in RowType, NEW lines \in Seq(Line), NEW line \in Line, NEW W, NEW A,
         Earned(row, lines, W, A), line.event \notin W
  PROVE  Earned(row, Append(lines, line), W, A)
<1> DEFINE longer == Append(lines, line)
<1>1. /\ Len(lines) \in Nat /\ Len(longer) = Len(lines) + 1
      /\ longer[Len(lines) + 1] = line
      /\ \A p \in 1 .. Len(lines) : longer[p] = lines[p]
  BY AppendKeeps
<1> HIDE DEF longer
<1>2. row.offset \in Nat
  BY DEF RowType
<1>3. SUFFICES ASSUME row.offset <= Len(longer), row.check = Check(longer, row.offset)
               PROVE  Stored(longer, row.offset, A)
  BY DEF Earned, longer
<1>4. row.offset # Len(lines) + 1
  <2>1. SUFFICES ASSUME row.offset = Len(lines) + 1
                 PROVE  FALSE
    OBVIOUS
  <2>2. row.check = <<row.offset, longer[1], line>>
    BY <1>1, <1>3, <2>1 DEF Check
  <2>3. row.check[3].event \in W
    BY <1>1, <2>1 DEF Earned
  <2> QED
    BY <2>2, <2>3
<1>5. row.offset <= Len(lines)
  BY <1>1, <1>2, <1>3, <1>4
<1>6. Check(longer, row.offset) = Check(lines, row.offset)
  BY <1>1, <1>2, <1>5 DEF Check
<1>7. Stored(lines, row.offset, A)
  BY <1>3, <1>5, <1>6 DEF Earned
<1> QED
  BY <1>1, <1>2, <1>5, <1>7 DEF Stored

\* A file that lost lines at its end passes no more tests than before.
LEMMA EarnedCut ==
  ASSUME NEW row \in RowType, NEW lines \in Seq(Line), NEW keep \in Nat, keep < Len(lines), NEW W, NEW A,
         Earned(row, lines, W, A)
  PROVE  Earned(row, SubSeq(lines, 1, keep), W, A)
<1> DEFINE shorter == SubSeq(lines, 1, keep)
<1>1. Len(lines) \in Nat /\ Len(shorter) = keep /\ \A p \in 1 .. keep : shorter[p] = lines[p]
  BY CutKeeps
<1> HIDE DEF shorter
<1>2. row.offset \in Nat
  BY DEF RowType
<1>3. SUFFICES ASSUME row.offset <= Len(shorter), row.check = Check(shorter, row.offset)
               PROVE  Stored(shorter, row.offset, A)
  BY DEF Earned, shorter
<1>4. Check(shorter, row.offset) = Check(lines, row.offset)
  BY <1>1, <1>2, <1>3 DEF Check
<1>5. Stored(lines, row.offset, A)
  BY <1>1, <1>2, <1>3, <1>4 DEF Earned
<1> QED
  BY <1>1, <1>2, <1>3, <1>5 DEF Stored

\* No row with an offset passes the test of an empty file.
LEMMA EarnedEmpty ==
  ASSUME NEW row \in RowType, NEW lines, NEW W, NEW A, Earned(row, lines, W, A)
  PROVE  Earned(row, <<>>, W, A)
BY DEF Earned, Stored, RowType

\* More lines written and more events stored keep a row earned.
LEMMA EarnedGrows ==
  ASSUME NEW row, NEW lines, NEW W, NEW X, NEW A, NEW B, W \subseteq X, A \subseteq B, Earned(row, lines, W, A)
  PROVE  Earned(row, lines, X, B)
BY DEF Earned, Stored

LEMMA TableGrows ==
  ASSUME NEW R, NEW C, NEW W, NEW X, NEW A, NEW B, W \subseteq X, A \subseteq B, TableEarned(R, C, W, A)
  PROVE  TableEarned(R, C, X, B)
BY EarnedGrows DEF TableEarned

\* The row stored for what was read is earned if the lines are.
LEMMA RowEarned ==
  ASSUME NEW i \in Inode, NEW offset \in 0 .. Len(content[i]), NEW retired \in BOOLEAN, NEW W, NEW A,
         content \in [Inode -> Seq(Line)],
         \A p \in DOMAIN content[i] : content[i][p].event \in W,
         Stored(content[i], offset, A)
  PROVE  Row(i, offset, retired) \in RowType /\ Earned(Row(i, offset, retired), content[i], W, A)
<1>1. content[i] \in Seq(Line) /\ Len(content[i]) \in Nat /\ DOMAIN content[i] = 1 .. Len(content[i])
  OBVIOUS
<1>2. Checkpoint(i, offset) = Check(content[i], offset)
  BY DEF Checkpoint, Check
<1>3. offset # 0 => content[i][1] \in Line /\ content[i][offset] \in Line
  BY <1>1
<1>4. Check(content[i], offset) \in CheckType
  BY <1>1, <1>3 DEF Check, CheckType
<1>5. offset # 0 => Check(content[i], offset)[3].event \in W
  BY <1>1 DEF Check
<1> QED
  BY <1>1, <1>2, <1>4, <1>5 DEF Row, RowType, Earned

-----------------------------------------------------------------------------
(* The files *)

LEMMA InitInv == Init => IInv
<1> SUFFICES ASSUME Init PROVE IInv
  OBVIOUS
<1> USE JournalAssumption DEF Init
<1>1. 0 \in Names /\ Names \subseteq Nat
  BY DEF Names
<1>2. FilesInv
  BY <1>1 DEF FilesInv
<1>3. WriterInv
  BY DEF WriterInv
<1>4. TablesInv
  BY DEF TablesInv, TableType
<1>5. LinesInv
  BY DEF LinesInv
<1>6. RowsInv
  BY DEF RowsInv, TableEarned
<1>7. ScanInv
  <2>1. scan \in ScanType
    BY <1>1 DEF IdleScan, ScanType
  <2> QED
    BY <2>1 DEF ScanInv, IdleScan
<1> QED
  BY <1>2, <1>3, <1>4, <1>5, <1>6, <1>7 DEF IInv

\* Steps that leave the files alone.
Quiet == Reader \/ BudgetExhausted \/ ScanFails \/ Sync

LEMMA QuietKeeps ==
  ASSUME Quiet
  PROVE  UNCHANGED <<slot, content, tail, writing, written, rot>>
BY DEF Quiet, Reader, StartScan, Discover, OpenSource, ReadLine, ReadPartial, EndSource, SourcesDone,
       ReconcileMissing, EndScan, BudgetExhausted, ScanFails, Sync

LEMMA FilesNext ==
  ASSUME IInv, [Next]_vars
  PROVE  FilesInv'
<1> USE DEF FilesInv
<1>0. /\ FilesInv
      /\ 0 \in Names /\ Names \subseteq Nat /\ Backups \in Names
      /\ writing # None => slot[0] \in Inode /\ writing \in Event
  BY JournalAssumption DEF IInv, Names, WriterInv
<1>1. ASSUME NEW e \in Event, NEW i \in Inode, BeginLine(e, i)
      PROVE  FilesInv'
  <2>1. slot' \in [Names -> Inode \cup {None}]
    BY <1>0, <1>1 DEF BeginLine
  <2>2. ASSUME NEW j \in Names, NEW k \in Names, slot'[j] = slot'[k], slot'[j] # None
        PROVE  j = k
    <3>1. slot[0] = None => \A n \in Names : slot[n] # i
      BY <1>1, NoneAssumption DEF BeginLine, Free, Linked
    <3> QED
      BY <1>0, <1>1, <2>2, <3>1 DEF BeginLine
  <2>3. content' \in [Inode -> Seq(Line)] /\ tail' \in [Inode -> {"none", "line", "torn"}]
    BY <1>0, <1>1 DEF BeginLine
  <2> QED
    BY <1>0, <1>1, <2>1, <2>2, <2>3 DEF BeginLine
<1>2. CASE EndLine
  <2>1. slot[0] \in Inode /\ [event |-> writing, valid |-> tail[slot[0]] # "torn"] \in Line
    BY <1>0, <1>2 DEF EndLine, Line
  <2>2. content' \in [Inode -> Seq(Line)]
    <3> DEFINE line == [event |-> writing, valid |-> tail[slot[0]] # "torn"]
    <3>1. content' = [content EXCEPT ![slot[0]] = Append(content[slot[0]], line)]
      BY <1>2 DEF EndLine
    <3>2. Append(content[slot[0]], line) \in Seq(Line)
      BY <1>0, <2>1, AppendKeeps
    <3> QED
      BY <1>0, <3>1, <3>2
  <2> QED
    BY <1>0, <1>2, <2>1, <2>2 DEF EndLine
<1>3. CASE BeginRotation
  BY <1>0, <1>3 DEF BeginRotation
<1>4. CASE Rename
  <2>1. rot \in 1 .. Backups /\ rot - 1 \in Names
    BY <1>0, <1>4 DEF Rename, Names
  <2>2. slot' \in [Names -> Inode \cup {None}]
    BY <1>0, <1>4, <2>1 DEF Rename
  <2>3. ASSUME NEW j \in Names, NEW k \in Names, slot'[j] = slot'[k], slot'[j] # None
        PROVE  j = k
    BY <1>0, <1>4, <2>1, <2>3 DEF Rename
  <2> QED
    BY <1>0, <1>4, <2>1, <2>2, <2>3 DEF Rename
<1>5. CASE Crash
  BY <1>0, <1>5 DEF Crash, Stopped
<1>6. ASSUME NEW keep \in 0 .. Cardinality(Event), PowerFailure(keep)
      PROVE  FilesInv'
  <2>1. keep \in Nat
    OBVIOUS
  <2>2. slot' = slot /\ rot' = 0
    BY <1>6 DEF PowerFailure, Stopped
  <2>3. CASE UNCHANGED <<content, tail>>
    BY <1>0, <2>2, <2>3
  <2>4. CASE slot[0] # None /\ keep < Len(content[slot[0]])
             /\ content' = [content EXCEPT ![slot[0]] = SubSeq(content[slot[0]], 1, keep)]
             /\ tail' = [tail EXCEPT ![slot[0]] = "none"]
    <3>1. SubSeq(content[slot[0]], 1, keep) \in Seq(Line)
      BY <1>0, <2>1, <2>4, CutKeeps
    <3> QED
      BY <1>0, <2>2, <2>4, <3>1
  <2>5. slot[0] # None => Len(content[slot[0]]) \in Nat
    BY <1>0
  <2> QED
    BY <1>6, <2>1, <2>3, <2>4, <2>5 DEF PowerFailure
<1>7. CASE Quiet
  BY <1>0, <1>7, QuietKeeps
<1>8. CASE UNCHANGED vars
  BY <1>0, <1>8 DEF vars
<1> QED
  BY <1>1, <1>2, <1>3, <1>4, <1>5, <1>6, <1>7, <1>8 DEF Next, Writer, Quiet

\* What the writer has written and is writing.
LEMMA WriterNext ==
  ASSUME IInv, [Next]_vars
  PROVE  WriterInv'
<1> USE DEF WriterInv
<1>0. WriterInv /\ FilesInv /\ 0 \in Names
  BY JournalAssumption DEF IInv, Names
<1>1. ASSUME NEW e \in Event, NEW i \in Inode, BeginLine(e, i)
      PROVE  WriterInv'
  BY <1>0, <1>1, NoneAssumption DEF BeginLine, FilesInv
<1>2. CASE EndLine
  BY <1>0, <1>2 DEF EndLine
<1>3. CASE BeginRotation
  BY <1>0, <1>3 DEF BeginRotation
<1>4. CASE Rename
  BY <1>0, <1>4 DEF Rename
<1>5. CASE Crash \/ \E keep \in 0 .. Cardinality(Event) : PowerFailure(keep)
  BY <1>0, <1>5 DEF Crash, PowerFailure, Stopped
<1>6. CASE Quiet
  BY <1>0, <1>6, QuietKeeps
<1>7. CASE UNCHANGED vars
  BY <1>0, <1>7 DEF vars
<1> QED
  BY <1>1, <1>2, <1>3, <1>4, <1>5, <1>6, <1>7 DEF Next, Writer, Quiet

-----------------------------------------------------------------------------
(* The lines *)

\* The line that EndLine completes.
NewLine == [event |-> writing, valid |-> tail[slot[0]] # "torn"]

LEMMA EndLineAppends ==
  ASSUME IInv, EndLine
  PROVE  /\ slot[0] \in Inode
         /\ NewLine \in Line
         /\ NewLine.event = writing /\ writing \in written /\ writing # None
         /\ content' = [content EXCEPT ![slot[0]] = Append(content[slot[0]], NewLine)]
         /\ writing' = None /\ written' = written
         /\ UNCHANGED <<rows, applied, synced, scan>>
<1>1. 0 \in Names
  BY JournalAssumption DEF Names
<1>2. slot[0] \in Inode /\ writing \in Event /\ writing \in written
  BY <1>1 DEF IInv, FilesInv, WriterInv, EndLine
<1> QED
  BY <1>2 DEF EndLine, NewLine, Line, IInv, FilesInv

\* What a power failure leaves of the active file.
LEMMA PowerFailureCuts ==
  ASSUME IInv, NEW keep \in 0 .. Cardinality(Event), PowerFailure(keep)
  PROVE  /\ keep \in Nat
         /\ \/ content' = content
            \/ /\ slot[0] \in Inode
               /\ keep < Len(content[slot[0]])
               /\ content' = [content EXCEPT ![slot[0]] = SubSeq(content[slot[0]], 1, keep)]
         /\ writing' = None /\ written' = written /\ scan' = IdleScan
         /\ rows' = synced.rows /\ applied' = synced.applied /\ synced' = synced
<1>1. 0 \in Names
  BY JournalAssumption DEF Names
<1>2. slot[0] \in Inode \cup {None}
  BY <1>1 DEF IInv, FilesInv
<1>3. slot[0] # None => Len(content[slot[0]]) \in Nat
  BY <1>2 DEF IInv, FilesInv
<1> QED
  BY <1>2, <1>3 DEF PowerFailure, Stopped

LEMMA LinesNext ==
  ASSUME IInv, [Next]_vars
  PROVE  LinesInv'
<1> USE DEF LinesInv
<1>0. /\ LinesInv
      /\ content \in [Inode -> Seq(Line)]
      /\ written \subseteq Event /\ None \notin written
  BY NoneAssumption DEF IInv, FilesInv, WriterInv
<1>1. ASSUME NEW e \in Event, NEW i \in Inode, BeginLine(e, i)
      PROVE  LinesInv'
  <2>1. written' = written \cup {e} /\ writing' = e /\ e \notin written
    BY <1>1 DEF BeginLine
  <2>2. content' = content \/ content' = [content EXCEPT ![i] = <<>>]
    BY <1>1 DEF BeginLine
  <2> QED
    BY <1>0, <2>1, <2>2
<1>2. CASE EndLine
  <2>1. SUFFICES ASSUME NEW i \in Inode, NEW p \in DOMAIN content'[i]
                 PROVE  content'[i][p].event \in written
    BY <1>0, <1>2, EndLineAppends
  <2>2. CASE i = slot[0]
    <3>1. content'[i] = Append(content[i], NewLine) /\ NewLine \in Line /\ NewLine.event \in written
      BY <1>0, <1>2, <2>2, EndLineAppends
    <3>2. content[i] \in Seq(Line)
      BY <1>0
    <3>3. p \in 1 .. Len(content[i]) \/ p = Len(content[i]) + 1
      BY <3>1, <3>2, AppendKeeps
    <3>4. p \in 1 .. Len(content[i]) => content'[i][p] = content[i][p] /\ p \in DOMAIN content[i]
      BY <3>1, <3>2, AppendKeeps
    <3>5. p = Len(content[i]) + 1 => content'[i][p] = NewLine
      BY <3>1, <3>2, AppendKeeps
    <3> QED
      BY <1>0, <3>1, <3>3, <3>4, <3>5
  <2>3. CASE i # slot[0]
    BY <1>0, <1>2, <2>3, EndLineAppends
  <2> QED
    BY <2>2, <2>3
<1>3. CASE BeginRotation \/ Rename
  BY <1>0, <1>3 DEF BeginRotation, Rename
<1>4. CASE Crash
  BY <1>0, <1>4 DEF Crash, Stopped
<1>5. ASSUME NEW keep \in 0 .. Cardinality(Event), PowerFailure(keep)
      PROVE  LinesInv'
  <2>1. SUFFICES ASSUME NEW i \in Inode, NEW p \in DOMAIN content'[i]
                 PROVE  content'[i][p].event \in written
    BY <1>0, <1>5, PowerFailureCuts
  <2>2. CASE content' = content
    BY <1>0, <2>1, <2>2
  <2>3. CASE content' # content
    <3>1. \/ content'[i] = content[i]
          \/ content'[i] = SubSeq(content[i], 1, keep) /\ keep < Len(content[i])
      BY <1>0, <1>5, <2>3, PowerFailureCuts
    <3>2. content[i] \in Seq(Line) /\ keep \in Nat
      BY <1>0
    <3>3. CASE content'[i] = content[i]
      BY <1>0, <2>1, <3>3
    <3>4. CASE content'[i] = SubSeq(content[i], 1, keep) /\ keep < Len(content[i])
      <4>1. p \in 1 .. keep /\ content'[i][p] = content[i][p]
        BY <3>2, <3>4, CutKeeps
      <4>2. p \in DOMAIN content[i]
        BY <3>2, <3>4, <4>1
      <4> QED
        BY <1>0, <4>1, <4>2
    <3> QED
      BY <3>1, <3>3, <3>4
  <2> QED
    BY <2>2, <2>3
<1>6. CASE Quiet
  BY <1>0, <1>6, QuietKeeps
<1>7. CASE UNCHANGED vars
  BY <1>0, <1>7 DEF vars
<1> QED
  BY <1>1, <1>2, <1>3, <1>4, <1>5, <1>6, <1>7 DEF Next, Writer, Quiet

-----------------------------------------------------------------------------
(* The scan *)

\* While files are open the scan stands at one of them.
LEMMA SourceIsOpen ==
  ASSUME ScanInv, scan.pc = "lines" \/ (scan.pc = "sources" /\ scan.source <= Len(scan.found))
  PROVE  /\ scan.source \in DOMAIN scan.found
         /\ Source \in SourceType /\ Source.inode \in Opened
<1>1. scan.found \in Seq(SourceType) /\ scan.source \in Nat
  BY DEF ScanInv, ScanType
<1>2. scan.source \in DOMAIN scan.found
  BY <1>1 DEF ScanInv
<1> QED
  BY <1>1, <1>2 DEF Source, Opened

LEMMA FoundType ==
  ASSUME scan.found \in Seq(SourceType), NEW i \in Inode \cup {None}, NEW k
  PROVE  Found(i, k) \in Seq(SourceType)
<1>1. CASE i = None
  BY <1>1 DEF Found
<1>2. CASE i # None /\ i \in Opened
  <2> DEFINE active == [inode |-> i, active |-> TRUE]
             found == [n \in DOMAIN scan.found |->
                         IF scan.found[n].inode = i /\ k = 0 THEN active ELSE scan.found[n]]
  <2>1. active \in SourceType
    BY <1>2 DEF SourceType
  <2> HIDE DEF active
  <2>2. Len(scan.found) \in Nat /\ DOMAIN scan.found = 1 .. Len(scan.found)
    OBVIOUS
  <2>3. found \in [1 .. Len(scan.found) -> SourceType]
    BY <2>1, <2>2
  <2>4. found \in Seq(SourceType)
    <3> HIDE DEF found
    <3> QED
      BY <2>2, <2>3, IsASeq
  <2>5. Found(i, k) = found
    BY <1>2 DEF Found, active
  <2> QED
    BY <2>4, <2>5
<1>3. CASE i # None /\ i \notin Opened
  <2>1. [inode |-> i, active |-> k = 0] \in SourceType
    BY <1>3 DEF SourceType
  <2> QED
    BY <1>3, <2>1, AppendProperties DEF Found
<1> QED
  BY <1>1, <1>2, <1>3

\* A stored line more.
LEMMA StoredNext ==
  ASSUME NEW lines \in Seq(Line), NEW n \in Nat, n < Len(lines), NEW A, Stored(lines, n, A)
  PROVE  Stored(lines, n + 1, A \cup Events(<<lines[n + 1]>>))
<1>1. lines[n + 1] \in Line /\ Len(lines) \in Nat
  OBVIOUS
<1>2. Events(<<lines[n + 1]>>) = IF lines[n + 1].valid THEN {lines[n + 1].event} ELSE {}
  BY <1>1, EventsOfLine
<1>3. SUFFICES ASSUME NEW p \in 1 .. n + 1, lines[p].valid
               PROVE  lines[p].event \in A \cup Events(<<lines[n + 1]>>)
  BY DEF Stored
<1>4. CASE p = n + 1
  BY <1>2, <1>3, <1>4
<1>5. CASE p \in 1 .. n
  BY <1>3, <1>5 DEF Stored
<1> QED
  BY <1>4, <1>5

\* A source opened with its row untouched is one whose row passed the test.
LEMMA OpenedRow ==
  ASSUME IInv, NEW i \in Inode, NEW active, rows[i] # None, ~MustRestart(i, active)
  PROVE  /\ rows[i].offset \in Nat
         /\ rows[i].offset <= Len(content[i])
         /\ Stored(content[i], rows[i].offset, applied)
<1>1. rows[i] \in RowType /\ content[i] \in Seq(Line)
  BY DEF IInv, TablesInv, FilesInv, TableType
<1>2. rows[i].offset \in Nat /\ Len(content[i]) \in Nat
  BY <1>1 DEF RowType
<1>3. rows[i].offset <= Len(content[i]) /\ rows[i].check = Check(content[i], rows[i].offset)
  BY <1>2 DEF MustRestart, Checkpoint, Check
<1>4. Earned(rows[i], content[i], written \ {writing}, applied)
  BY DEF IInv, RowsInv, TableEarned
<1> QED
  BY <1>2, <1>3, <1>4 DEF Earned

LEMMA ScanNext ==
  ASSUME IInv, [Next]_vars
  PROVE  ScanInv'
<1> USE DEF ScanInv
<1>0. /\ ScanInv
      /\ content \in [Inode -> Seq(Line)]
      /\ rows \in TableType
      /\ 0 \in Names /\ Names \subseteq Nat /\ Backups \in Names
      /\ slot \in [Names -> Inode \cup {None}]
  BY JournalAssumption DEF IInv, TablesInv, FilesInv, Names
<1>1. scan \in ScanType
  BY <1>0
<1>2. scan.pc = "lines" => Source.inode \in Inode /\ content[Source.inode] \in Seq(Line) /\ Source.inode \in Opened
  BY <1>0, SourceIsOpen DEF SourceType
<1>3. ASSUME scan' = scan, applied \subseteq applied',
             scan.pc = "lines" => \/ content'[Source.inode] = content[Source.inode]
                                  \/ \E line \in Line :
                                       content'[Source.inode] = Append(content[Source.inode], line)
      PROVE  ScanInv'
  <2>1. SUFFICES ASSUME scan.pc = "lines"
                 PROVE  /\ scan.cursor <= Len(content'[Source.inode])
                        /\ Stored(content'[Source.inode], scan.cursor, applied')
    BY <1>0, <1>3 DEF Source
  <2>2. /\ scan.cursor \in Nat /\ scan.cursor <= Len(content[Source.inode])
        /\ Stored(content[Source.inode], scan.cursor, applied')
    BY <1>0, <1>3, <2>1 DEF ScanType, Stored
  <2>3. ASSUME NEW line \in Line, content'[Source.inode] = Append(content[Source.inode], line)
        PROVE  /\ scan.cursor <= Len(content'[Source.inode])
               /\ Stored(content'[Source.inode], scan.cursor, applied')
    <3>1. content[Source.inode] \in Seq(Line)
      BY <1>2, <2>1
    <3>2. /\ Len(content'[Source.inode]) = Len(content[Source.inode]) + 1
          /\ \A p \in 1 .. Len(content[Source.inode]) : content'[Source.inode][p] = content[Source.inode][p]
      BY <2>3, <3>1, AppendKeeps
    <3>3. Len(content[Source.inode]) \in Nat
      BY <3>1
    <3> DEFINE longer == content'[Source.inode]
               lines == content[Source.inode]
               cursor == scan.cursor
    <3> HIDE DEF longer, lines, cursor
    <3>4. cursor <= Len(longer) /\ Stored(longer, cursor, applied')
      BY <2>2, <3>2, <3>3 DEF Stored, longer, lines, cursor
    <3> QED
      BY <3>4 DEF longer, cursor
  <2> QED
    BY <1>3, <2>1, <2>2, <2>3
<1>4. ASSUME scan' \in ScanType, scan'.pc \notin {"sources", "lines"}
      PROVE  ScanInv'
  BY <1>4
<1>5. IdleScan \in ScanType
  BY <1>0 DEF IdleScan, ScanType
<1>6. ASSUME NEW e \in Event, NEW i \in Inode, BeginLine(e, i)
      PROVE  ScanInv'
  <2>1. scan.pc = "lines" => content'[Source.inode] = content[Source.inode]
    BY <1>0, <1>2, <1>6 DEF BeginLine, Free
  <2> QED
    BY <1>3, <1>6, <2>1 DEF BeginLine
<1>7. CASE EndLine
  <2>1. scan.pc = "lines" =>
          content'[Source.inode] \in {content[Source.inode], Append(content[Source.inode], NewLine)}
    BY <1>0, <1>2, <1>7, EndLineAppends
  <2> QED
    BY <1>3, <1>7, <2>1, EndLineAppends
<1>8. CASE BeginRotation \/ Rename
  BY <1>3, <1>8 DEF BeginRotation, Rename
<1>9. CASE StartScan
  <2>1. scan' = [pc |-> "discover", name |-> Backups, found |-> <<>>, source |-> 0, cursor |-> 0]
    BY <1>9 DEF StartScan, IdleScan
  <2>2. scan' \in ScanType
    BY <1>0, <2>1 DEF ScanType
  <2> QED
    BY <1>4, <2>1, <2>2
<1>10. CASE Discover
  <2>1. scan.name \in Names /\ scan.found \in Seq(SourceType) /\ scan.name \in Nat
    BY <1>0, <1>1 DEF ScanType
  <2>2. Found(slot[scan.name], scan.name) \in Seq(SourceType)
    BY <1>0, <2>1, FoundType
  <2>3. scan.name > 0 => scan.name - 1 \in Names
    BY <2>1, JournalAssumption DEF Names
  <2> DEFINE found == Found(slot[scan.name], scan.name)
  <2>4. CASE scan.name > 0
    <3>1. scan' = [scan EXCEPT !.found = found, !.name = scan.name - 1, !.pc = "discover", !.source = 0]
      BY <1>10, <2>4 DEF Discover
    <3>2. scan' \in ScanType /\ scan'.pc = "discover"
      <4> HIDE DEF found
      <4> QED
        BY <1>1, <2>2, <2>3, <2>4, <3>1 DEF ScanType, found
    <3> QED
      BY <1>4, <3>2
  <2>5. CASE ~(scan.name > 0)
    <3>1. scan' = [scan EXCEPT !.found = found, !.name = 0, !.pc = "sources", !.source = 1]
      BY <1>10, <2>5 DEF Discover
    <3>2. scan' \in ScanType /\ scan'.pc = "sources" /\ scan'.source = 1
      <4> HIDE DEF found
      <4> QED
        BY <1>0, <1>1, <2>2, <3>1 DEF ScanType, found
    <3> QED
      BY <3>2
  <2> QED
    BY <2>4, <2>5
<1>11. CASE OpenSource
  <2> DEFINE i == Source.inode
             restart == MustRestart(i, Source.active)
  <2>1. scan.source \in DOMAIN scan.found /\ i \in Inode
    BY <1>0, <1>11, SourceIsOpen DEF OpenSource, SourceType
  <2>2. scan' = [scan EXCEPT !.pc = "lines", !.cursor = IF restart \/ rows[i] = None THEN 0 ELSE rows[i].offset]
    BY <1>11 DEF OpenSource
  <2>3. content' = content /\ applied' = applied
    BY <1>11 DEF OpenSource
  <2>4. CASE restart \/ rows[i] = None
    <3>1. scan' = [scan EXCEPT !.pc = "lines", !.cursor = 0]
      BY <2>2, <2>4
    <3>2. content[i] \in Seq(Line)
      BY <1>0, <2>1
    <3>3. scan' \in ScanType /\ scan'.source = scan.source /\ scan'.found = scan.found /\ scan'.cursor = 0
          /\ scan'.pc = "lines"
      BY <1>1, <3>1 DEF ScanType
    <3> QED
      BY <2>1, <2>3, <3>2, <3>3 DEF Source, Stored
  <2>5. CASE ~restart /\ rows[i] # None
    <3>1. scan' = [scan EXCEPT !.pc = "lines", !.cursor = rows[i].offset]
      BY <2>2, <2>5
    <3>2. /\ rows[i].offset \in Nat
          /\ rows[i].offset <= Len(content[i])
          /\ Stored(content[i], rows[i].offset, applied)
      BY <2>1, <2>5, OpenedRow
    <3>3. scan' \in ScanType /\ scan'.source = scan.source /\ scan'.found = scan.found
          /\ scan'.cursor = rows[i].offset /\ scan'.pc = "lines"
      BY <1>1, <3>1, <3>2 DEF ScanType
    <3> QED
      BY <2>1, <2>3, <3>2, <3>3 DEF Source
  <2> QED
    BY <2>4, <2>5
<1>12. CASE ReadLine
  <2> DEFINE i == Source.inode
  <2>1. /\ scan.pc = "lines" /\ scan.cursor < Len(content[i])
        /\ scan' = [scan EXCEPT !.cursor = scan.cursor + 1]
        /\ content' = content
        /\ applied' = applied \cup Events(<<content[i][scan.cursor + 1]>>)
    BY <1>12 DEF ReadLine
  <2>2. scan.cursor \in Nat /\ content[i] \in Seq(Line)
    BY <1>1, <1>2, <2>1 DEF ScanType
  <2>3. Stored(content[i], scan.cursor + 1, applied')
    BY <1>0, <2>1, <2>2, StoredNext
  <2>4. scan' \in ScanType /\ scan'.source = scan.source /\ scan'.found = scan.found
        /\ scan'.cursor = scan.cursor + 1 /\ scan'.pc = "lines"
    BY <1>1, <2>1, <2>2 DEF ScanType
  <2>5. scan.source \in DOMAIN scan.found /\ Source' = Source
    BY <1>0, <2>1, <2>4 DEF Source
  <2>6. scan.cursor + 1 <= Len(content[i])
    BY <2>1, <2>2
  <2> QED
    BY <2>1, <2>3, <2>4, <2>5, <2>6
<1>13. CASE ReadPartial \/ EndSource
  <2>1. scan.pc = "lines" /\ scan' = NextSource
    BY <1>13 DEF ReadPartial, EndSource
  <2>2. scan.source \in Nat
    BY <1>1 DEF ScanType
  <2>3. scan' = [scan EXCEPT !.pc = "sources", !.source = scan.source + 1, !.cursor = 0]
    BY <2>1 DEF NextSource
  <2>4. scan.source + 1 \in Nat
    BY <2>2
  <2>5. scan' \in ScanType /\ scan'.pc = "sources" /\ scan'.source = scan.source + 1
    BY <1>1, <2>3, <2>4 DEF ScanType
  <2>6. scan' \in ScanType /\ scan'.pc # "lines" /\ scan'.source > 0
    BY <2>2, <2>5
  <2> QED
    BY <2>6
<1>14. CASE SourcesDone \/ BudgetExhausted
  <2>1. \/ scan' = [scan EXCEPT !.pc = "missing"]
        \/ scan' = [scan EXCEPT !.pc = "missing", !.cursor = 0]
    BY <1>14 DEF SourcesDone, BudgetExhausted
  <2>2. CASE scan' = [scan EXCEPT !.pc = "missing"]
    <3>1. scan' \in ScanType /\ scan'.pc = "missing"
      BY <1>1, <2>2 DEF ScanType
    <3> QED
      BY <1>4, <3>1
  <2>3. CASE scan' = [scan EXCEPT !.pc = "missing", !.cursor = 0]
    <3>1. scan' \in ScanType /\ scan'.pc = "missing"
      BY <1>1, <2>3 DEF ScanType
    <3> QED
      BY <1>4, <3>1
  <2> QED
    BY <2>1, <2>2, <2>3
<1>15. CASE EndScan \/ ScanFails \/ Crash
  BY <1>4, <1>5, <1>15 DEF EndScan, ScanFails, Crash, Stopped, IdleScan
<1>16. CASE Sync \/ (\E i \in Inode : ReconcileMissing(i)) \/ UNCHANGED vars
  BY <1>3, <1>16 DEF Sync, ReconcileMissing, vars
<1>17. CASE \E keep \in 0 .. Cardinality(Event) : PowerFailure(keep)
  BY <1>4, <1>5, <1>17 DEF PowerFailure, Stopped, IdleScan
<1> QED
  BY <1>6, <1>7, <1>8, <1>9, <1>10, <1>11, <1>12, <1>13, <1>14, <1>15, <1>16, <1>17 DEF Next, Writer, Reader

-----------------------------------------------------------------------------
(* The rows *)

\* The reader stores a row for an open source, never one that runs ahead of the store.
LEMMA RowStored ==
  ASSUME IInv, NEW offset \in Nat, NEW retired \in BOOLEAN, NEW i \in Inode, offset <= Len(content[i]),
         written' = written, writing' = writing, content' = content, synced' = synced,
         applied \subseteq applied', applied' \subseteq written,
         Stored(content[i], offset, applied'),
         rows' = [rows EXCEPT ![i] = Row(i, offset, retired)]
  PROVE  TablesInv' /\ RowsInv'
<1>1. /\ content \in [Inode -> Seq(Line)] /\ rows \in TableType
      /\ \A p \in DOMAIN content[i] : content[i][p].event \in written \ {writing}
      /\ TableEarned(rows, content, written \ {writing}, applied)
      /\ TableEarned(synced.rows, content, written \ {writing}, synced.applied)
  BY DEF IInv, FilesInv, TablesInv, LinesInv, RowsInv
<1>2. offset \in 0 .. Len(content[i])
  <2>1. Len(content[i]) \in Nat
    BY <1>1
  <2> QED
    BY <2>1
<1> DEFINE row == Row(i, offset, retired)
           W == written \ {writing}
<1>3. row \in RowType /\ Earned(row, content[i], W, applied')
  BY <1>1, <1>2, RowEarned
<1> HIDE DEF row
<1>4. rows' \in TableType
  BY <1>1, <1>3 DEF TableType, row
<1>5. TableEarned(rows', content, W, applied')
  <2>1. SUFFICES ASSUME NEW j \in Inode, rows'[j] # None
                 PROVE  Earned(rows'[j], content[j], W, applied')
    BY DEF TableEarned
  <2>2. CASE j = i
    BY <1>1, <1>3, <2>2 DEF row, TableType
  <2>3. CASE j # i
    <3>1. rows'[j] = rows[j]
      BY <1>1, <2>3 DEF TableType
    <3>2. Earned(rows[j], content[j], W, applied)
      BY <1>1, <2>1, <3>1 DEF TableEarned
    <3> QED
      BY <3>1, <3>2, EarnedGrows
  <2> QED
    BY <2>2, <2>3
<1> QED
  BY <1>1, <1>4, <1>5 DEF IInv, TablesInv, RowsInv

\* Steps of the reader that store no row.
LEMMA RowsKept ==
  ASSUME IInv, UNCHANGED <<content, writing, written, rows, applied, synced>>
  PROVE  TablesInv' /\ RowsInv'
BY DEF IInv, TablesInv, RowsInv

\* The files change under the rows: what each row says of its file stays true.
LEMMA RowsOfChangedFiles ==
  ASSUME IInv, NEW R \in TableType, NEW A, NEW W, NEW X, NEW C, W \subseteq X,
         TableEarned(R, content, W, A),
         \A i \in Inode :
           \/ C[i] = content[i]
           \/ C[i] = <<>>
           \/ \E line \in Line : line.event \notin W /\ C[i] = Append(content[i], line)
           \/ \E keep \in Nat : keep < Len(content[i]) /\ C[i] = SubSeq(content[i], 1, keep)
  PROVE  TableEarned(R, C, X, A)
<1>1. SUFFICES ASSUME NEW i \in Inode, R[i] # None
               PROVE  Earned(R[i], C[i], W, A)
  BY EarnedGrows DEF TableEarned
<1>2. R[i] \in RowType /\ content[i] \in Seq(Line) /\ Earned(R[i], content[i], W, A)
  BY <1>1 DEF IInv, FilesInv, TableType, TableEarned
<1>3. CASE C[i] = content[i]
  BY <1>2, <1>3
<1>4. CASE C[i] = <<>>
  BY <1>2, <1>4, EarnedEmpty
<1>5. ASSUME NEW line \in Line, line.event \notin W, C[i] = Append(content[i], line)
      PROVE  Earned(R[i], C[i], W, A)
  BY <1>2, <1>5, EarnedAppend
<1>6. ASSUME NEW keep \in Nat, keep < Len(content[i]), C[i] = SubSeq(content[i], 1, keep)
      PROVE  Earned(R[i], C[i], W, A)
  BY <1>2, <1>6, EarnedCut
<1> QED
  BY <1>3, <1>4, <1>5, <1>6

\* A step of the writer or a failure that only changes what the files hold.
LEMMA RowsOfFiles ==
  ASSUME IInv, written \subseteq written', written \ {writing} \subseteq written' \ {writing'},
         \A i \in Inode :
           \/ content'[i] = content[i]
           \/ content'[i] = <<>>
           \/ \E line \in Line : line.event \notin written \ {writing} /\ content'[i] = Append(content[i], line)
           \/ \E keep \in Nat : keep < Len(content[i]) /\ content'[i] = SubSeq(content[i], 1, keep),
         synced' = synced,
         \/ rows' = rows /\ applied' = applied
         \/ rows' = synced.rows /\ applied' = synced.applied
  PROVE  TablesInv' /\ RowsInv'
<1> DEFINE W == written \ {writing}
           X == written' \ {writing'}
<1>1. /\ rows \in TableType /\ synced.rows \in TableType
      /\ TableEarned(rows, content, W, applied)
      /\ TableEarned(synced.rows, content, W, synced.applied)
  BY DEF IInv, TablesInv, RowsInv
<1>2. TableEarned(rows, content', X, applied)
  BY <1>1, RowsOfChangedFiles
<1>3. TableEarned(synced.rows, content', X, synced.applied)
  BY <1>1, RowsOfChangedFiles
<1>4. TablesInv'
  <2>1. rows' \in TableType /\ applied' \subseteq written'
    BY <1>1 DEF IInv, TablesInv
  <2>2. synced' \in [rows : TableType, applied : SUBSET written']
    BY DEF IInv, TablesInv
  <2> QED
    BY <2>1, <2>2 DEF TablesInv
<1> QED
  BY <1>2, <1>3, <1>4 DEF RowsInv

LEMMA RowsNext ==
  ASSUME IInv, [Next]_vars
  PROVE  TablesInv' /\ RowsInv'
<1> DEFINE Kept == UNCHANGED <<content, writing, written, rows, applied, synced>>
<1>0. /\ ScanInv /\ content \in [Inode -> Seq(Line)] /\ rows \in TableType
      /\ written \subseteq Event /\ applied \subseteq written /\ writing \in written \cup {None}
  BY DEF IInv, FilesInv, TablesInv, WriterInv
<1>1. scan.pc \in {"sources", "lines"} => scan.cursor \in Nat
  BY <1>0 DEF ScanInv, ScanType
<1>2. scan.pc = "lines" => /\ Source.inode \in Inode /\ Source.active \in BOOLEAN
                           /\ content[Source.inode] \in Seq(Line)
                           /\ scan.cursor <= Len(content[Source.inode])
                           /\ Stored(content[Source.inode], scan.cursor, applied)
  BY <1>0, SourceIsOpen DEF SourceType, ScanInv
<1>3. ASSUME NEW e \in Event, NEW i \in Inode, BeginLine(e, i)
      PROVE  TablesInv' /\ RowsInv'
  <2>1. written' = written \cup {e} /\ writing' = e /\ e \notin written /\ UNCHANGED <<rows, applied, synced>>
    BY <1>3 DEF BeginLine
  <2>2. \A j \in Inode : content'[j] = content[j] \/ content'[j] = <<>>
    BY <1>0, <1>3 DEF BeginLine
  <2>3. written \ {writing} \subseteq written' \ {writing'} /\ written \subseteq written'
    BY <2>1
  <2> QED
    BY <2>1, <2>2, <2>3, RowsOfFiles
<1>4. CASE EndLine
  <2>1. \A j \in Inode : \/ content'[j] = content[j]
                         \/ content'[j] = Append(content[j], NewLine)
    BY <1>0, <1>4, EndLineAppends
  <2>2. /\ NewLine \in Line /\ NewLine.event \notin written \ {writing}
        /\ written \ {writing} \subseteq written' \ {writing'} /\ written \subseteq written'
        /\ UNCHANGED <<rows, applied, synced>>
    BY <1>0, <1>4, EndLineAppends, NoneAssumption
  <2> QED
    BY <2>1, <2>2, RowsOfFiles
<1>5. CASE BeginRotation \/ Rename \/ StartScan \/ Discover \/ SourcesDone \/ EndScan
           \/ BudgetExhausted \/ ScanFails \/ UNCHANGED vars
  <2>1. Kept
    BY <1>5 DEF BeginRotation, Rename, StartScan, Discover, SourcesDone, EndScan, BudgetExhausted, ScanFails, vars
  <2> QED
    BY <2>1, RowsKept
<1>6. CASE OpenSource
  <2>1. Source.inode \in Inode /\ content[Source.inode] \in Seq(Line)
    BY <1>0, <1>6, SourceIsOpen DEF OpenSource, SourceType
  <2>2. UNCHANGED <<content, writing, written, applied, synced>>
    BY <1>6 DEF OpenSource
  <2>3. rows' = rows \/ rows' = [rows EXCEPT ![Source.inode] = Row(Source.inode, 0, FALSE)]
    BY <1>6 DEF OpenSource
  <2>4. Stored(content[Source.inode], 0, applied') /\ 0 <= Len(content[Source.inode])
    BY <2>1 DEF Stored
  <2>5. CASE rows' = rows
    BY <2>2, <2>5, RowsKept
  <2>6. CASE rows' = [rows EXCEPT ![Source.inode] = Row(Source.inode, 0, FALSE)]
    BY <1>0, <2>1, <2>2, <2>4, <2>6, RowStored
  <2> QED
    BY <2>3, <2>5, <2>6
<1>7. CASE ReadLine
  <2> DEFINE i == Source.inode
             line == content[i][scan.cursor + 1]
  <2>1. /\ scan.pc = "lines" /\ scan.cursor < Len(content[i])
        /\ UNCHANGED <<content, writing, written, synced>>
        /\ applied' = applied \cup Events(<<line>>)
        /\ rows' = [rows EXCEPT ![i] = Row(i, scan.cursor + 1, FALSE)]
    BY <1>7 DEF ReadLine
  <2>2. i \in Inode /\ scan.cursor \in Nat /\ content[i] \in Seq(Line) /\ Stored(content[i], scan.cursor, applied)
    BY <1>1, <1>2, <2>1
  <2>3. Stored(content[i], scan.cursor + 1, applied')
    BY <2>1, <2>2, StoredNext
  <2>4. scan.cursor + 1 \in Nat /\ scan.cursor + 1 <= Len(content[i]) /\ scan.cursor + 1 \in DOMAIN content[i]
    BY <2>1, <2>2
  <2>5. line \in Line /\ line.event \in written
    BY <2>2, <2>4 DEF IInv, LinesInv
  <2>6. applied \subseteq applied' /\ applied' \subseteq written
    BY <1>0, <2>1, <2>5, EventsOfLine
  <2> QED
    BY <2>1, <2>2, <2>3, <2>4, <2>6, RowStored
<1>8. CASE ReadPartial \/ EndSource
  <2>1. /\ scan.pc = "lines"
        /\ UNCHANGED <<content, writing, written, applied, synced>>
        /\ \E retired : /\ retired = FALSE \/ retired = ~Source.active
                        /\ rows' = [rows EXCEPT ![Source.inode] = Row(Source.inode, scan.cursor, retired)]
    BY <1>8 DEF ReadPartial, EndSource
  <2>2. PICK retired \in BOOLEAN : rows' = [rows EXCEPT ![Source.inode] = Row(Source.inode, scan.cursor, retired)]
    BY <1>2, <2>1
  <2> QED
    BY <1>0, <1>1, <1>2, <2>1, <2>2, RowStored
<1>9. ASSUME NEW i \in Inode, ReconcileMissing(i)
      PROVE  TablesInv' /\ RowsInv'
  <2>1. UNCHANGED <<content, writing, written, applied, synced>>
    BY <1>9 DEF ReconcileMissing
  <2> DEFINE marked == [rows[i] EXCEPT !.missing = TRUE]
  <2>2. rows[i] \in RowType /\ rows' = [rows EXCEPT ![i] = IF rows[i].retired THEN None ELSE marked]
    BY <1>0, <1>9 DEF ReconcileMissing, Missing, TableType
  <2>3. marked \in RowType /\ marked.offset = rows[i].offset /\ marked.check = rows[i].check
    BY <2>2 DEF RowType
  <2> HIDE DEF marked
  <2>4. rows' \in TableType
    BY <1>0, <2>2, <2>3 DEF TableType
  <2>5. \A j \in Inode : rows'[j] # None =>
          rows[j] # None /\ rows'[j].offset = rows[j].offset /\ rows'[j].check = rows[j].check
    BY <1>0, <1>9, <2>2, <2>3 DEF TableType, ReconcileMissing, Missing
  <2>6. TableEarned(rows', content, written \ {writing}, applied)
    BY <2>5 DEF IInv, RowsInv, TableEarned, Earned
  <2> QED
    BY <2>1, <2>4, <2>6 DEF IInv, TablesInv, RowsInv
<1>10. CASE Crash
  <2>1. /\ UNCHANGED <<content, written, rows, applied, synced>>
        /\ writing' = None
    BY <1>10 DEF Crash, Stopped
  <2>2. written \ {writing} \subseteq written' \ {writing'}
    BY <1>0, <2>1, NoneAssumption
  <2> QED
    BY <2>1, <2>2, RowsOfFiles
<1>11. CASE Sync
  <2>1. UNCHANGED <<content, writing, written, rows, applied>> /\ synced' = [rows |-> rows, applied |-> applied]
    BY <1>11 DEF Sync
  <2> QED
    BY <2>1 DEF IInv, TablesInv, RowsInv
<1>12. ASSUME NEW keep \in 0 .. Cardinality(Event), PowerFailure(keep)
       PROVE  TablesInv' /\ RowsInv'
  <2>1. /\ written' = written /\ writing' = None
        /\ rows' = synced.rows /\ applied' = synced.applied /\ synced' = synced
    BY <1>12, PowerFailureCuts
  <2>2. written \ {writing} \subseteq written' \ {writing'}
    BY <1>0, <2>1, NoneAssumption
  <2>3. \A j \in Inode : \/ content'[j] = content[j]
                         \/ keep \in Nat /\ keep < Len(content[j]) /\ content'[j] = SubSeq(content[j], 1, keep)
    BY <1>0, <1>12, PowerFailureCuts
  <2> QED
    BY <2>1, <2>2, <2>3, RowsOfFiles
<1> QED
  BY <1>3, <1>4, <1>5, <1>6, <1>7, <1>8, <1>9, <1>10, <1>11, <1>12 DEF Next, Writer, Reader

-----------------------------------------------------------------------------
(* The theorems *)

\* What files hold, rows name and the scan has read fits together at all times.
THEOREM Invariance == Spec => []IInv
<1>1. IInv /\ [Next]_vars => IInv'
  BY FilesNext, WriterNext, LinesNext, RowsNext, ScanNext DEF IInv
<1> QED
  BY InitInv, <1>1, PTL DEF Spec

LEMMA EarnedOffsets == IInv => OffsetsAreEarned
<1> SUFFICES ASSUME IInv
             PROVE  OffsetsAreEarned
  OBVIOUS
<1>0. content \in [Inode -> Seq(Line)] /\ slot \in [Names -> Inode \cup {None}] /\ rows \in TableType /\ ScanInv
  BY DEF IInv, FilesInv, TablesInv
<1>1. TypeOK
  BY <1>0 DEF TypeOK, IInv, FilesInv, TablesInv, ScanInv, ScanType, TableType, RowType
<1>2. NothingSkipped
  <2>1. SUFFICES ASSUME NEW k \in Names, slot[k] # None
                 PROVE  Skipped(slot[k], k = 0) \subseteq applied
    BY DEF NothingSkipped
  <2>2. slot[k] \in Inode /\ content[slot[k]] \in Seq(Line)
    BY <1>0, <2>1
  <2>3. CASE rows[slot[k]] = None \/ MustRestart(slot[k], k = 0)
    BY <2>3 DEF Skipped
  <2>4. CASE ~(rows[slot[k]] = None \/ MustRestart(slot[k], k = 0))
    <3> DEFINE offset == rows[slot[k]].offset
    <3>1. offset \in Nat /\ offset <= Len(content[slot[k]]) /\ Stored(content[slot[k]], offset, applied)
      BY <2>2, <2>4, OpenedRow
    <3>2. Events(SubSeq(content[slot[k]], 1, offset)) \subseteq applied
      BY <2>2, <3>1, EventsOfPrefix
    <3> QED
      BY <2>4, <3>2 DEF Skipped
  <2> QED
    BY <2>3, <2>4
<1>3. CursorIsHonest
  <2>1. SUFFICES ASSUME scan.pc = "lines"
                 PROVE  /\ scan.cursor <= Len(content[Source.inode])
                        /\ Events(SubSeq(content[Source.inode], 1, scan.cursor)) \subseteq applied
    BY DEF CursorIsHonest
  <2>2. Source.inode \in Inode /\ content[Source.inode] \in Seq(Line) /\ scan.cursor \in Nat
    BY <1>0, <2>1, SourceIsOpen DEF SourceType, ScanInv, ScanType
  <2>3. scan.cursor <= Len(content[Source.inode]) /\ Stored(content[Source.inode], scan.cursor, applied)
    BY <1>0, <2>1 DEF ScanInv
  <2> QED
    BY <2>2, <2>3, EventsOfPrefix
<1> QED
  BY <1>1, <1>2, <1>3 DEF OffsetsAreEarned

\* The stored offsets and the cursor never run ahead of the store (scan_once, apply_journal_line),
\* whatever rotations, reused inodes, crashes and power failures came before.
THEOREM NoLineIsSkipped == Spec => []OffsetsAreEarned
BY Invariance, EarnedOffsets, PTL
=============================================================================
