------------------------- MODULE SessionFiles_proofs -------------------------
(* Proofs about SessionFiles and SessionReplay, for every set of requests,   *)
(* every overlap of their handlers that a theorem allows, and any number of  *)
(* crashes, I/O errors and replays.                                          *)
EXTENDS SessionReplay, SequenceTheorems, WellFoundedInduction, TLAPS

-----------------------------------------------------------------------------
(* The largest element of a set of indices *)

\* The least-number principle, in first-order form.
LEMMA LeastNumber ==
  ASSUME NEW T \in SUBSET Nat, T # {}
  PROVE  \E x \in T : \A y \in T : x <= y
<1>1. \E x \in T : \A y \in T : ~(<<y, x>> \in OpToRel(<, Nat))
  BY NatLessThanWellFounded, WFMin
<1>2. ASSUME NEW x \in T, NEW y \in T, ~(<<y, x>> \in OpToRel(<, Nat))
      PROVE  x <= y
  BY <1>2 DEF OpToRel
<1> QED BY <1>1, <1>2

\* Max picks an element of a non-empty set of indices.
LEMMA MaxIndex ==
  ASSUME NEW n \in Nat, NEW I \in SUBSET (1..n), I # {}
  PROVE  Max(I) \in I
<1> DEFINE T == {k \in Nat : \E i \in I : k = n - i}
<1>1. T # {}
  <2>1. PICK i \in I : TRUE OBVIOUS
  <2>2. n - i \in T BY <2>1
  <2> QED BY <2>2
<1>2. PICK x \in T : \A y \in T : x <= y BY <1>1, LeastNumber
<1>3. PICK i \in I : x = n - i OBVIOUS
<1>4. ASSUME NEW j \in I PROVE i >= j
  <2>1. n - j \in T OBVIOUS
  <2>2. x <= n - j BY <2>1, <1>2
  <2> QED BY <2>2, <1>3
<1> QED BY <1>4 DEF Max

-----------------------------------------------------------------------------
(* What the file operations keep *)

\* The empty file, which O_TRUNC leaves, is a file.
LEMMA EmptyFileType == EmptyFile \in File
BY EmptySeq DEF EmptyFile, File, Line

\* Appending a text adds exactly the bodies of that text to a file.
LEMMA TextAppended ==
  ASSUME NEW f \in File, NEW t \in Line, NEW q
  PROVE  LET g == [lines |-> f.lines, tail |-> f.tail \o t]
         IN  g \in File /\ (InFile(q, g) <=> InFile(q, f) \/ InLine(q, t))
<1> DEFINE g == [lines |-> f.lines, tail |-> f.tail \o t]
<1>1. f.tail \in Line /\ f.lines \in Seq(Line) BY DEF File
<1>3. /\ f.tail \o t \in Line
      /\ Len(f.tail \o t) = Len(f.tail) + Len(t)
      /\ \A i \in 1..Len(f.tail) + Len(t) :
           (f.tail \o t)[i] = IF i <= Len(f.tail) THEN f.tail[i]
                              ELSE t[i - Len(f.tail)]
  BY <1>1, ConcatProperties DEF Line
<1>4. g \in File BY <1>1, <1>3 DEF File
<1>5. InLine(q, f.tail \o t) <=> InLine(q, f.tail) \/ InLine(q, t)
  <2>1. ASSUME InLine(q, f.tail \o t) PROVE InLine(q, f.tail) \/ InLine(q, t)
    BY <1>1, <1>3, <2>1 DEF InLine, Line
  <2>2. ASSUME InLine(q, f.tail) PROVE InLine(q, f.tail \o t)
    <3>1. PICK i \in 1..Len(f.tail) : f.tail[i] = q BY <1>1, <2>2 DEF InLine, Line
    <3>2. (f.tail \o t)[i] = q /\ i \in DOMAIN (f.tail \o t)
      BY <1>1, <1>3, <3>1 DEF Line
    <3> QED BY <3>2 DEF InLine
  <2>3. ASSUME InLine(q, t) PROVE InLine(q, f.tail \o t)
    <3>1. PICK i \in 1..Len(t) : t[i] = q BY <2>3 DEF InLine, Line
    <3>2. (f.tail \o t)[i + Len(f.tail)] = q /\ i + Len(f.tail) \in DOMAIN (f.tail \o t)
      BY <1>1, <1>3, <3>1 DEF Line
    <3> QED BY <3>2 DEF InLine
  <2> QED BY <2>1, <2>2, <2>3
<1> QED BY <1>4, <1>5 DEF InFile

\* Terminating the tail moves its bodies into a line and loses none.
LEMMA TailTerminated ==
  ASSUME NEW f \in File, NEW q
  PROVE  LET g == [lines |-> Append(f.lines, f.tail), tail |-> <<>>]
         IN  g \in File /\ (InFile(q, g) <=> InFile(q, f))
<1> DEFINE g == [lines |-> Append(f.lines, f.tail), tail |-> <<>>]
<1>1. f.tail \in Line /\ f.lines \in Seq(Line) BY DEF File
<1>2. /\ Append(f.lines, f.tail) \in Seq(Line)
      /\ Len(Append(f.lines, f.tail)) = Len(f.lines) + 1
      /\ \A i \in 1..Len(f.lines) : Append(f.lines, f.tail)[i] = f.lines[i]
      /\ Append(f.lines, f.tail)[Len(f.lines) + 1] = f.tail
  BY <1>1, AppendProperties
<1>3. g \in File BY <1>2, EmptySeq DEF File, Line
<1>4. ~InLine(q, <<>>) BY DEF InLine
<1>5. InFile(q, g) <=> \E i \in 1..Len(f.lines) + 1 : InLine(q, Append(f.lines, f.tail)[i])
  BY <1>2, <1>4 DEF InFile
<1>6. InFile(q, f) <=> InLine(q, f.tail) \/ \E i \in 1..Len(f.lines) : InLine(q, f.lines[i])
  BY <1>1 DEF InFile
<1>7. InFile(q, g) => InFile(q, f) BY <1>1, <1>2, <1>5, <1>6
<1>8. ASSUME InFile(q, f) PROVE InFile(q, g)
  <2>1. CASE InLine(q, f.tail) BY <1>1, <1>2, <1>5, <2>1
  <2>2. CASE \E i \in 1..Len(f.lines) : InLine(q, f.lines[i])
    BY <1>1, <1>2, <1>5, <2>2
  <2> QED BY <1>6, <1>8, <2>1, <2>2
<1> QED BY <1>3, <1>7, <1>8

\* str::lines() returns lines, and only bodies that are in the file.
LEMMA AllLinesType ==
  ASSUME NEW f \in File
  PROVE  /\ AllLines(f) \in Seq(Line)
         /\ \A i \in DOMAIN AllLines(f) : \A q : InLine(q, AllLines(f)[i]) => InFile(q, f)
<1>1. f.tail \in Line /\ f.lines \in Seq(Line) BY DEF File
<1>2. CASE f.tail = <<>> BY <1>1, <1>2 DEF AllLines, InFile
<1>3. CASE f.tail # <<>>
  <2>1. /\ Append(f.lines, f.tail) \in Seq(Line)
        /\ Len(Append(f.lines, f.tail)) = Len(f.lines) + 1
        /\ \A i \in 1..Len(f.lines) : Append(f.lines, f.tail)[i] = f.lines[i]
        /\ Append(f.lines, f.tail)[Len(f.lines) + 1] = f.tail
    BY <1>1, AppendProperties
  <2>2. AllLines(f) = Append(f.lines, f.tail) BY <1>3 DEF AllLines
  <2>3. ASSUME NEW i \in DOMAIN AllLines(f), NEW q, InLine(q, AllLines(f)[i])
        PROVE  InFile(q, f)
    <3>1. i \in 1..Len(f.lines) + 1 BY <2>1, <2>2
    <3>2. CASE i \in 1..Len(f.lines) BY <1>1, <2>1, <2>2, <2>3, <3>2 DEF InFile
    <3>3. CASE i = Len(f.lines) + 1 BY <1>1, <2>1, <2>2, <2>3, <3>3 DEF InFile
    <3> QED BY <1>1, <3>1, <3>2, <3>3
  <2> QED BY <2>1, <2>2, <2>3
<1> QED BY <1>2, <1>3

\* What read_last_line returns was in the file.
LEMMA LastLineOfFile ==
  ASSUME NEW f \in File
  PROVE  /\ read_last_line(f) \in Line
         /\ \A q : InLine(q, read_last_line(f)) => InFile(q, f)
<1>1. CASE NonBlank(f) = {}
  <2>1. read_last_line(f) = <<>> BY <1>1 DEF read_last_line
  <2> QED BY <2>1, EmptySeq DEF InLine, Line
<1>2. CASE NonBlank(f) # {}
  <2>1. Len(AllLines(f)) \in Nat /\ DOMAIN AllLines(f) = 1..Len(AllLines(f))
    BY AllLinesType
  <2>2. NonBlank(f) \in SUBSET (1..Len(AllLines(f))) BY <2>1 DEF NonBlank
  <2>3. Max(NonBlank(f)) \in DOMAIN AllLines(f)
    BY <1>2, <2>1, <2>2, MaxIndex
  <2>4. read_last_line(f) = AllLines(f)[Max(NonBlank(f))]
    BY <1>2 DEF read_last_line
  <2> QED BY <2>3, <2>4, AllLinesType
<1> QED BY <1>1, <1>2

\* Overwriting the start of a file adds no body but those of the line written.
LEMMA OverwritesFile ==
  ASSUME NEW f \in File, NEW l \in Line, NEW g \in Overwrites(f, l)
  PROVE  /\ g \in File
         /\ \A q \in Requests : InFile(q, g) => InFile(q, f) \/ InLine(q, l)
<1> DEFINE rest(i) == SubSeq(f.lines, i + 1, Len(f.lines))
<1>1. f.tail \in Line /\ f.lines \in Seq(Line) BY DEF File
<1>2. ASSUME NEW i \in 1..Len(f.lines)
      PROVE  /\ rest(i) \in Seq(Line)
             /\ \A j \in DOMAIN rest(i) : \A q : InLine(q, rest(i)[j]) => InFile(q, f)
  <2>1. \A j \in i + 1..Len(f.lines) : f.lines[j] \in Line BY <1>1
  <2>2. /\ rest(i) \in Seq(Line)
        /\ Len(rest(i)) = IF i + 1 <= Len(f.lines) THEN Len(f.lines) - (i + 1) + 1 ELSE 0
        /\ \A j \in 1..Len(f.lines) - (i + 1) + 1 : rest(i)[j] = f.lines[i + 1 + j - 1]
    BY <1>1, <2>1, SubSeqProperties
  <2>3. ASSUME NEW j \in DOMAIN rest(i), NEW q, InLine(q, rest(i)[j])
        PROVE  InFile(q, f)
    <3>1. i + j \in DOMAIN f.lines /\ rest(i)[j] = f.lines[i + j]
      BY <1>1, <2>2
    <3> QED BY <2>3, <3>1 DEF InFile
  <2> QED BY <2>2, <2>3
<1>3. <<Torn>> \in Line /\ \A q \in Requests : ~InLine(q, <<Torn>>)
  BY TornAssumption DEF Line, InLine
<1>4. CASE g = [lines |-> <<l>>, tail |-> <<>>]
  BY <1>4, EmptySeq DEF File, Line, InFile, InLine
<1>5. ASSUME NEW i \in 1..Len(f.lines), NEW h \in Seq(Line),
             \A j \in DOMAIN h, q \in Requests : InLine(q, h[j]) => InLine(q, l),
             g = [lines |-> h \o rest(i), tail |-> f.tail]
      PROVE  /\ g \in File
             /\ \A q \in Requests : InFile(q, g) => InFile(q, f) \/ InLine(q, l)
  <2> HIDE DEF rest
  <2>1. /\ h \o rest(i) \in Seq(Line)
        /\ Len(h \o rest(i)) = Len(h) + Len(rest(i))
        /\ \A j \in 1..Len(h) + Len(rest(i)) :
             (h \o rest(i))[j] = IF j <= Len(h) THEN h[j] ELSE rest(i)[j - Len(h)]
    BY <1>2, <1>5, ConcatProperties
  <2>2. g \in File BY <1>1, <1>5, <2>1 DEF File
  <2>3. ASSUME NEW q \in Requests, NEW j \in DOMAIN (h \o rest(i)),
               InLine(q, (h \o rest(i))[j])
        PROVE  InFile(q, f) \/ InLine(q, l)
    <3>1. j \in 1..Len(h) + Len(rest(i)) BY <2>1
    <3>2. CASE j <= Len(h) BY <1>5, <2>1, <2>3, <3>1, <3>2
    <3>3. CASE ~(j <= Len(h))
      <4>1. j - Len(h) \in DOMAIN rest(i) BY <1>2, <3>1, <3>3
      <4> QED BY <1>2, <2>1, <2>3, <3>1, <3>3, <4>1
    <3> QED BY <3>2, <3>3
  <2> QED BY <1>5, <2>2, <2>3 DEF InFile
<1>6. ASSUME NEW i \in 1..Len(f.lines),
             g = [lines |-> <<l>> \o rest(i), tail |-> f.tail]
      PROVE  /\ g \in File
             /\ \A q \in Requests : InFile(q, g) => InFile(q, f) \/ InLine(q, l)
  <2>1. <<l>> \in Seq(Line) /\ \A j \in DOMAIN <<l>> : <<l>>[j] = l OBVIOUS
  <2> QED BY <1>5, <1>6, <2>1
<1>7. ASSUME NEW i \in 1..Len(f.lines),
             g = [lines |-> <<l, <<Torn>>>> \o rest(i), tail |-> f.tail]
      PROVE  /\ g \in File
             /\ \A q \in Requests : InFile(q, g) => InFile(q, f) \/ InLine(q, l)
  <2>1. /\ <<l, <<Torn>>>> \in Seq(Line)
        /\ \A j \in DOMAIN <<l, <<Torn>>>> : <<l, <<Torn>>>>[j] \in {l, <<Torn>>}
    BY <1>3
  <2> QED BY <1>3, <1>5, <1>7, <2>1
<1>8. CASE g = [lines |-> <<l>>, tail |-> <<Torn>>]
  <2>1. g \in File BY <1>3, <1>8 DEF File
  <2>2. \A j \in DOMAIN g.lines : g.lines[j] = l BY <1>8
  <2> QED BY <1>3, <1>8, <2>1, <2>2 DEF InFile
<1> QED BY <1>4, <1>6, <1>7, <1>8 DEF Overwrites

-----------------------------------------------------------------------------
(* Type correctness *)

\* What append_line_fsync is given to write is a line.
LEMMA TextType ==
  ASSUME TypeOK, NEW r \in Requests
  PROVE  Text(r) \in Line
<1>1. <<r>> \in Line BY DEF Line
<1> QED BY <1>1 DEF Text, TypeOK

\* The route of intercept always leads to a step of the pipeline.
LEMMA AfterType ==
  ASSUME NEW r \in Requests
  PROVE  After(r) \in PC
BY DEF After, PC, Active, Reading, Writing, FileName

\* No step of a handler, crash or fault breaks a type.
LEMMA TypeStep == TypeOK /\ [Next]_vars => TypeOK'
<1> SUFFICES ASSUME TypeOK, [Next]_vars PROVE TypeOK'
  OBVIOUS
<1> USE DEF TypeOK, Goto, locals
<1>1. ASSUME NEW r \in Requests, Start(r) PROVE TypeOK'
  BY <1>1 DEF Start, PC, Active, Writing, FileName
<1>2. ASSUME NEW r \in Requests, WriteText(r) PROVE TypeOK'
  <2>1. pc[r] \in FileName /\ file[pc[r]] \in File BY <1>2 DEF WriteText
  <2>2. [lines |-> file[pc[r]].lines, tail |-> file[pc[r]].tail \o Text(r)] \in File
    BY <2>1, TextAppended, TextType
  <2>3. file' \in [FileName -> File] BY <1>2, <2>2 DEF WriteText
  <2> QED BY <1>2, <2>3 DEF WriteText
<1>3. ASSUME NEW r \in Requests, WriteNewline(r) PROVE TypeOK'
  <2>1. CASE pc[r] \in FileName
    <3>1. [lines |-> Append(file[pc[r]].lines, file[pc[r]].tail), tail |-> <<>>] \in File
      BY <2>1, TailTerminated
    <3>2. file' \in [FileName -> File] BY <1>3, <3>1 DEF WriteNewline
    <3> QED BY <1>3, <3>2, AfterType DEF WriteNewline
  <2>2. CASE pc[r] \notin FileName
    <3>1. file' = file BY <1>3, <2>2 DEF WriteNewline
    <3> QED BY <1>3, <3>1, AfterType DEF WriteNewline
  <2> QED BY <2>1, <2>2
<1>4. ASSUME NEW r \in Requests, CaptureRead(r) PROVE TypeOK'
  <2>1. read_last_line(file["main"]) \in Line BY LastLineOfFile DEF FileName
  <2> QED BY <1>4, <2>1 DEF CaptureRead, PC, Active, Writing, FileName
<1>5. ASSUME NEW r \in Requests, CountLines(r) PROVE TypeOK'
  <2>1. Len(AllLines(file["pre"])) \in Nat
    <3>1. file["pre"] \in File BY DEF FileName
    <3> QED BY <3>1, AllLinesType
  <2> QED BY <1>5, <2>1 DEF CountLines, PC, Active, Writing, FileName
<1>6. ASSUME NEW r \in Requests, TruncateRead(r) PROVE TypeOK'
  <2>1. read_last_line(file["main"]) \in Line BY LastLineOfFile DEF FileName
  <2> QED BY <1>6, <2>1 DEF TruncateRead, PC, Active, Writing
<1>7. ASSUME NEW r \in Requests, TruncateOpen(r) PROVE TypeOK'
  BY <1>7, EmptyFileType DEF TruncateOpen, PC, Active, Writing
<1>8. ASSUME NEW r \in Requests, TruncateWrite(r) PROVE TypeOK'
  <2>1. PICK f \in Overwrites(file["main"], keep[r]) : file' = [file EXCEPT !["main"] = f]
    BY <1>8 DEF TruncateWrite
  <2>2. f \in File BY <2>1, OverwritesFile DEF FileName
  <2> QED BY <1>8, <2>1, <2>2 DEF TruncateWrite, PC, Active
<1>9. ASSUME NEW r \in Requests, Emit(r) PROVE TypeOK'
  <2>1. Body[r].systemArray \in BOOLEAN BY BodyAssumption DEF BodyType
  <2> QED BY <1>9, <2>1 DEF Emit, PC, Active
<1>10. ASSUME NEW r \in Requests, Forward(r) PROVE TypeOK'
  BY <1>10 DEF Forward, PC
<1>11. ASSUME NEW r \in Requests, Fault(r) PROVE TypeOK'
  BY <1>11, BoundAssumption DEF Fault, PC, Active
<1>12. CASE Crash
  BY <1>12, BoundAssumption DEF Crash, PC
<1>13. CASE UNCHANGED vars
  BY <1>13 DEF vars
<1> QED
  BY <1>1, <1>2, <1>3, <1>4, <1>5, <1>6, <1>7, <1>8, <1>9, <1>10, <1>11,
     <1>12, <1>13 DEF Next, Handler

\* An empty session directory is well typed.
LEMMA TypeInit == Init => TypeOK
<1> SUFFICES ASSUME Init PROVE TypeOK OBVIOUS
<1>1. <<>> \in Line BY EmptySeq DEF Line
<1> QED BY <1>1, EmptyFileType, BoundAssumption DEF Init, TypeOK, PC

\* Every variable keeps its type, whatever requests come and whatever fails.
THEOREM TypeCorrect == Spec => []TypeOK
BY TypeInit, TypeStep, PTL DEF Spec

-----------------------------------------------------------------------------
(* The raw log holds whatever is derived from it *)

\* A step that leaves the files alone, and moves no handler past its capture
\* that was not past it, keeps the invariant.
LEMMA FilesUnchanged ==
  ASSUME CaptureInv, UNCHANGED file,
         \A r \in Requests : half'[r] => half[r] /\ pc'[r] \in FileName,
         \A r \in Requests : pc'[r] \in PastRaw => pc[r] \in PastRaw,
         \A r, q \in Requests :
           InLine(q, snap'[r]) \/ InLine(q, keep'[r]) => InFile(q, file["raw"])
  PROVE  CaptureInv'
<1>1. RawFirst' BY DEF CaptureInv, RawFirst
<1> QED BY <1>1 DEF CaptureInv

\* The bodies a handler appends are its own, or those of the line it captured.
LEMMA TextCaptured ==
  ASSUME TypeOK, CaptureInv, NEW r \in Requests, NEW q \in Requests,
         pc[r] \in Derived, InLine(q, Text(r))
  PROVE  InFile(q, file["raw"])
<1>1. CASE pc[r] = "pre" BY <1>1 DEF Text, CaptureInv
<1>2. CASE pc[r] # "pre"
  <2>1. q = r BY <1>2 DEF Text, InLine
  <2>2. pc[r] \in PastRaw BY DEF Derived, FileName, PastRaw, Active, Writing
  <2> QED BY <2>1, <2>2 DEF CaptureInv
<1> QED BY <1>1, <1>2

\* No step of a handler, crash or fault breaks the capture invariant.
LEMMA CaptureStep == TypeOK /\ CaptureInv /\ [Next]_vars => CaptureInv'
<1> SUFFICES ASSUME TypeOK, CaptureInv, [Next]_vars PROVE CaptureInv'
  OBVIOUS
<1> USE DEF Goto, locals
<1> DEFINE raw == file["raw"]
<1>0. /\ \A f \in FileName : file[f] \in File
      /\ "raw" \in FileName /\ "main" \in Derived
      /\ Derived \subseteq FileName
  BY DEF TypeOK, FileName, Derived
<1>1. ASSUME NEW r \in Requests, Start(r) PROVE CaptureInv'
  <2>1. UNCHANGED <<file, half, snap, keep>> BY <1>1 DEF Start
  <2>2. \A q \in Requests : pc'[q] \in PastRaw => pc[q] \in PastRaw
    BY <1>1 DEF Start, TypeOK, PastRaw
  <2>3. \A q \in Requests : half'[q] => half[q] /\ pc'[q] \in FileName
    BY <1>0, <1>1 DEF Start, TypeOK, CaptureInv
  <2> QED BY <2>1, <2>2, <2>3, FilesUnchanged DEF CaptureInv
<1>2. ASSUME NEW r \in Requests, WriteText(r) PROVE CaptureInv'
  <2> DEFINE g == [lines |-> file[pc[r]].lines, tail |-> file[pc[r]].tail \o Text(r)]
  <2>1. /\ pc[r] \in FileName
        /\ file' = [file EXCEPT ![pc[r]] = g]
        /\ half' = [half EXCEPT ![r] = TRUE]
        /\ UNCHANGED <<pc, snap, keep>>
    BY <1>2 DEF WriteText
  <2>2. \A q : InFile(q, g) <=> InFile(q, file[pc[r]]) \/ InLine(q, Text(r))
    BY <1>0, <2>1, TextAppended, TextType
  <2> HIDE DEF g
  <2>3. file'[pc[r]] = g /\ \A f \in FileName \ {pc[r]} : file'[f] = file[f]
    BY <2>1 DEF TypeOK
  <2>4. \A q \in Requests : InFile(q, raw) => InFile(q, file'["raw"])
    BY <1>0, <2>2, <2>3
  <2>5. RawFirst'
    <3> SUFFICES ASSUME NEW q \in Requests, NEW f \in Derived, InFile(q, file'[f])
                 PROVE  InFile(q, file'["raw"])
      BY DEF RawFirst
    <3>1. CASE f # pc[r]
      BY <1>0, <2>3, <2>4, <3>1 DEF CaptureInv, RawFirst
    <3>2. CASE f = pc[r] /\ InFile(q, file[f])
      BY <2>4, <3>2 DEF CaptureInv, RawFirst
    <3>3. CASE f = pc[r] /\ InLine(q, Text(r))
      BY <2>4, <3>3, TextCaptured
    <3> QED BY <2>2, <2>3, <3>1, <3>2, <3>3
  <2>6. \A q \in Requests :
          half'[q] \/ pc'[q] \in PastRaw => InFile(q, file'["raw"])
    <3>1. CASE pc[r] = "raw"
      <4>1. InLine(r, Text(r)) BY <3>1 DEF Text, InLine
      <4>2. InFile(r, file'["raw"]) BY <2>2, <2>3, <3>1, <4>1
      <4> QED BY <2>1, <2>4, <4>2 DEF CaptureInv, TypeOK
    <3>2. CASE pc[r] # "raw"
      <4>1. pc[r] \in PastRaw
        BY <2>1, <3>2 DEF PastRaw, Active, Writing, FileName
      <4> QED BY <2>1, <2>4, <4>1 DEF CaptureInv, TypeOK
    <3> QED BY <3>1, <3>2
  <2>7. \A q \in Requests : half'[q] => pc'[q] \in FileName
    BY <2>1 DEF CaptureInv, TypeOK
  <2>8. \A p, q \in Requests :
          InLine(q, snap'[p]) \/ InLine(q, keep'[p]) => InFile(q, file'["raw"])
    BY <2>1, <2>4 DEF CaptureInv
  <2> QED BY <2>5, <2>6, <2>7, <2>8 DEF CaptureInv
<1>3. ASSUME NEW r \in Requests, WriteNewline(r) PROVE CaptureInv'
  <2> DEFINE g == [lines |-> Append(file[pc[r]].lines, file[pc[r]].tail), tail |-> <<>>]
  <2>1. /\ half[r] /\ pc[r] \in FileName
        /\ file' = [file EXCEPT ![pc[r]] = g]
        /\ half' = [half EXCEPT ![r] = FALSE]
        /\ pc' = [pc EXCEPT ![r] = After(r)]
        /\ UNCHANGED <<snap, keep>>
    BY <1>3 DEF WriteNewline, CaptureInv
  <2>2. \A q : InFile(q, g) <=> InFile(q, file[pc[r]])
    BY <1>0, <2>1, TailTerminated
  <2> HIDE DEF g
  <2>3. file'[pc[r]] = g /\ \A f \in FileName \ {pc[r]} : file'[f] = file[f]
    BY <2>1 DEF TypeOK
  <2>4. \A q \in Requests, f \in FileName : InFile(q, file[f]) <=> InFile(q, file'[f])
    BY <2>2, <2>3
  <2>5. RawFirst' BY <1>0, <2>4 DEF CaptureInv, RawFirst
  <2>6. InFile(r, raw) BY <2>1 DEF CaptureInv
  <2>7. \A q \in Requests :
          half'[q] \/ pc'[q] \in PastRaw => InFile(q, file'["raw"])
    BY <1>0, <2>1, <2>4, <2>6 DEF CaptureInv, TypeOK
  <2>8. \A q \in Requests : half'[q] => pc'[q] \in FileName
    BY <2>1 DEF CaptureInv, TypeOK
  <2>9. \A p, q \in Requests :
          InLine(q, snap'[p]) \/ InLine(q, keep'[p]) => InFile(q, file'["raw"])
    BY <1>0, <2>1, <2>4 DEF CaptureInv
  <2> QED BY <2>5, <2>7, <2>8, <2>9 DEF CaptureInv
<1>4. ASSUME NEW r \in Requests, CaptureRead(r) PROVE CaptureInv'
  <2>1. \A q \in Requests : InLine(q, read_last_line(file["main"])) => InFile(q, raw)
    BY <1>0, LastLineOfFile DEF CaptureInv, RawFirst
  <2>2. \A p, q \in Requests :
          InLine(q, snap'[p]) \/ InLine(q, keep'[p]) => InFile(q, raw)
    BY <1>4, <2>1 DEF CaptureRead, TypeOK, CaptureInv
  <2>3. \A q \in Requests : pc'[q] \in PastRaw => pc[q] \in PastRaw
    BY <1>4 DEF CaptureRead, TypeOK, PastRaw, Active, Reading
  <2>4. \A q \in Requests : half'[q] => half[q] /\ pc'[q] \in FileName
    BY <1>4 DEF CaptureRead, TypeOK, CaptureInv, FileName
  <2> QED BY <1>4, <2>2, <2>3, <2>4, FilesUnchanged DEF CaptureRead
<1>5. ASSUME NEW r \in Requests, CountLines(r) PROVE CaptureInv'
  <2>1. \A q \in Requests : pc'[q] \in PastRaw => pc[q] \in PastRaw
    BY <1>5 DEF CountLines, TypeOK, PastRaw, Active, Reading
  <2>2. \A q \in Requests : half'[q] => half[q] /\ pc'[q] \in FileName
    BY <1>5 DEF CountLines, TypeOK, CaptureInv, FileName
  <2> QED BY <1>5, <2>1, <2>2, FilesUnchanged DEF CountLines, CaptureInv
<1>6. ASSUME NEW r \in Requests, TruncateRead(r) PROVE CaptureInv'
  <2>1. \A q \in Requests : InLine(q, read_last_line(file["main"])) => InFile(q, raw)
    BY <1>0, LastLineOfFile DEF CaptureInv, RawFirst
  <2>2. \A p, q \in Requests :
          InLine(q, snap'[p]) \/ InLine(q, keep'[p]) => InFile(q, raw)
    BY <1>6, <2>1 DEF TruncateRead, TypeOK, CaptureInv
  <2>3. \A q \in Requests : pc'[q] \in PastRaw => pc[q] \in PastRaw
    BY <1>6 DEF TruncateRead, TypeOK, PastRaw, Active, Reading
  <2>4. \A q \in Requests : half'[q] => half[q] /\ pc'[q] \in FileName
    BY <1>6 DEF TruncateRead, TypeOK, CaptureInv, FileName
  <2> QED BY <1>6, <2>2, <2>3, <2>4, FilesUnchanged DEF TruncateRead
<1>7. ASSUME NEW r \in Requests, TruncateOpen(r) PROVE CaptureInv'
  <2>1. /\ file' = [file EXCEPT !["main"] = EmptyFile]
        /\ UNCHANGED <<half, snap, keep>>
        /\ pc[r] = "trunc_open" /\ pc' = [pc EXCEPT ![r] = "trunc_write"]
    BY <1>7 DEF TruncateOpen
  <2>2. file'["raw"] = raw /\ \A q : ~InFile(q, EmptyFile)
    BY <1>0, <2>1 DEF TypeOK, EmptyFile, InFile, InLine
  <2>3. RawFirst' BY <1>0, <2>1, <2>2 DEF CaptureInv, RawFirst, TypeOK
  <2>4. \A q \in Requests : pc'[q] \in PastRaw => pc[q] \in PastRaw
    BY <2>1 DEF TypeOK, PastRaw, Active, Writing
  <2>5. \A q \in Requests : half'[q] => pc'[q] \in FileName
    BY <2>1 DEF TypeOK, CaptureInv, FileName
  <2> QED BY <2>1, <2>2, <2>3, <2>4, <2>5 DEF CaptureInv
<1>8. ASSUME NEW r \in Requests, TruncateWrite(r) PROVE CaptureInv'
  <2>1. PICK g \in Overwrites(file["main"], keep[r]) :
          file' = [file EXCEPT !["main"] = g]
    BY <1>8 DEF TruncateWrite
  <2>2. /\ UNCHANGED <<half, snap, keep>>
        /\ pc[r] = "trunc_write" /\ pc' = [pc EXCEPT ![r] = "emit"]
    BY <1>8 DEF TruncateWrite
  <2>3. file'["raw"] = raw /\ file'["main"] = g
        /\ \A f \in FileName \ {"main"} : file'[f] = file[f]
    BY <1>0, <2>1 DEF TypeOK
  <2>4. \A q \in Requests : InFile(q, g) => InFile(q, file["main"]) \/ InLine(q, keep[r])
    BY <1>0, <2>1, OverwritesFile DEF TypeOK
  <2>5. RawFirst'
    <3> SUFFICES ASSUME NEW q \in Requests, NEW f \in Derived, InFile(q, file'[f])
                 PROVE  InFile(q, file'["raw"])
      BY DEF RawFirst
    <3>1. CASE f = "main" BY <1>0, <2>3, <2>4, <3>1 DEF CaptureInv, RawFirst
    <3>2. CASE f # "main" BY <1>0, <2>3, <3>2 DEF CaptureInv, RawFirst
    <3> QED BY <3>1, <3>2
  <2>6. \A q \in Requests : pc'[q] \in PastRaw => pc[q] \in PastRaw
    BY <2>2 DEF TypeOK, PastRaw, Active, Writing
  <2>7. \A q \in Requests : half'[q] => pc'[q] \in FileName
    BY <2>2 DEF TypeOK, CaptureInv, FileName
  <2> QED BY <2>2, <2>3, <2>5, <2>6, <2>7 DEF CaptureInv
<1>9. ASSUME NEW r \in Requests, Emit(r) PROVE CaptureInv'
  <2>1. \A q \in Requests : pc'[q] \in PastRaw => pc[q] \in PastRaw
    BY <1>9 DEF Emit, TypeOK, PastRaw
  <2>2. \A q \in Requests : half'[q] => half[q] /\ pc'[q] \in FileName
    BY <1>9 DEF Emit, TypeOK, CaptureInv, FileName
  <2> QED BY <1>9, <2>1, <2>2, FilesUnchanged DEF Emit, CaptureInv
<1>10. ASSUME NEW r \in Requests, Forward(r) PROVE CaptureInv'
  <2>1. \A q \in Requests : pc'[q] \in PastRaw => pc[q] \in PastRaw
    BY <1>10 DEF Forward, TypeOK, PastRaw, Active, Writing, Reading, FileName
  <2>2. \A q \in Requests : half'[q] => half[q] /\ pc'[q] \in FileName
    BY <1>10 DEF Forward, TypeOK, CaptureInv, FileName
  <2> QED BY <1>10, <2>1, <2>2, FilesUnchanged DEF Forward, CaptureInv
<1>11. ASSUME NEW r \in Requests, Fault(r) PROVE CaptureInv'
  <2>1. \A q \in Requests : pc'[q] \in PastRaw => pc[q] \in PastRaw
    BY <1>11 DEF Fault, TypeOK, PastRaw
  <2>2. \A q \in Requests : half'[q] => half[q] /\ pc'[q] \in FileName
    BY <1>11 DEF Fault, TypeOK, CaptureInv
  <2> QED BY <1>11, <2>1, <2>2, FilesUnchanged DEF Fault, CaptureInv
<1>12. CASE Crash
  <2>1. \A q \in Requests : pc'[q] \in PastRaw => pc[q] \in PastRaw
    BY <1>12 DEF Crash, TypeOK, PastRaw, Active, Writing, Reading, FileName
  <2>2. \A q \in Requests : half'[q] => half[q] /\ pc'[q] \in FileName
    BY <1>12 DEF Crash
  <2> QED BY <1>12, <2>1, <2>2, FilesUnchanged DEF Crash, CaptureInv
<1>13. CASE UNCHANGED vars
  BY <1>13, FilesUnchanged DEF vars, CaptureInv
<1> QED
  BY <1>1, <1>2, <1>3, <1>4, <1>5, <1>6, <1>7, <1>8, <1>9, <1>10, <1>11,
     <1>12, <1>13 DEF Next, Handler

\* An empty session directory satisfies the capture invariant.
LEMMA CaptureInit == Init => CaptureInv
BY DEF Init, CaptureInv, RawFirst, InFile, InLine, EmptyFile, PastRaw, Active,
       Reading, Writing, FileName, Derived

\* Whatever reaches a derived file of a session is in its raw log: under any
\* interleaving of the handlers, any crash and any I/O error.
THEOREM RawLogComplete == Spec => []RawFirst
<1>1. CaptureInv => RawFirst BY DEF CaptureInv
<1> QED BY <1>1, CaptureInit, CaptureStep, TypeCorrect, PTL DEF Spec

-----------------------------------------------------------------------------
(* The newest main exchange *)

\* Only main exchanges and compactions touch the main log and the snapshots; one
\* of them is open at a time.
Loop == {"Main", "Compaction"}
LoopSteps == {"main", "capture", "pre", "count", "comp", "trunc_read", "trunc_open",
              "trunc_write", "emit"}

OneLoop ==
  /\ \A r, q \in Requests :
       pc[r] \in Active /\ pc[q] \in Active /\ Kind(r) \in Loop /\ Kind(q) \in Loop => r = q
  /\ \A r \in Requests : /\ pc[r] \in LoopSteps => Kind(r) \in Loop
                         /\ half[r] => pc[r] \in FileName
                         /\ pc[r] \in {"idle", "raw", "capture", "pre"} => line[r] = 0

\* The text of q is in the last line that is not blank.
InLast(q, f) ==
  \E i \in NonBlank(f) : InLine(q, AllLines(f)[i]) /\ \A j \in NonBlank(f) : j <= i

\* The newest main exchange ends the main log until it has been snapshotted, and
\* it has been before a compaction goes on to empty the log.
Held(r) ==
  /\ pc[r] = "pre" /\ ~half[r] => InLine(lastMain, snap[r]) \/ InFile(lastMain, file["pre"])
  /\ ( \/ pc[r] = "pre" /\ half[r]
       \/ pc[r] = "comp" /\ line[r] # 0
       \/ pc[r] \in {"count", "trunc_read", "trunc_open", "trunc_write"} )
     => InFile(lastMain, file["pre"])

LatestInv ==
  /\ OneLoop
  /\ lastMain # NoRequest =>
       /\ InLast(lastMain, file["main"]) \/ InFile(lastMain, file["pre"])
       /\ \A r \in Requests : Held(r)

-----------------------------------------------------------------------------

\* A line more.
LEMMA LineAppended ==
  ASSUME NEW ls \in Seq(Line), NEW l \in Line
  PROVE  /\ Len(Append(ls, l)) = Len(ls) + 1
         /\ DOMAIN Append(ls, l) = 1..Len(ls) + 1
         /\ DOMAIN ls = 1..Len(ls) /\ Len(ls) \in Nat
         /\ \A i \in 1..Len(ls) : Append(ls, l)[i] = ls[i]
         /\ Append(ls, l)[Len(ls) + 1] = l
<1>1. Append(ls, l) \in Seq(Line) BY AppendProperties
<1>2. DOMAIN Append(ls, l) = 1..Len(Append(ls, l)) BY <1>1, LenProperties
<1>3. DOMAIN ls = 1..Len(ls) /\ Len(ls) \in Nat BY LenProperties
<1> QED BY <1>2, <1>3, AppendProperties

\* What is in the last line is what read_last_line returns, and in the file.
LEMMA LastIsRead ==
  ASSUME NEW f \in File, NEW q, InLast(q, f)
  PROVE  InLine(q, read_last_line(f)) /\ InFile(q, f)
<1>1. PICK i \in NonBlank(f) : InLine(q, AllLines(f)[i]) /\ \A j \in NonBlank(f) : j <= i
  BY DEF InLast
<1>2. Len(AllLines(f)) \in Nat /\ DOMAIN AllLines(f) = 1..Len(AllLines(f)) BY AllLinesType
<1>3. NonBlank(f) \in SUBSET (1..Len(AllLines(f))) BY <1>2 DEF NonBlank
<1>4. Max(NonBlank(f)) = i BY <1>1, <1>3 DEF Max
<1>5. read_last_line(f) = AllLines(f)[i] BY <1>1, <1>4 DEF read_last_line
<1>6. i \in DOMAIN AllLines(f) BY <1>1 DEF NonBlank
<1> QED BY <1>1, <1>5, <1>6, AllLinesType

\* The text appended last ends the file.
LEMMA LastAppended ==
  ASSUME NEW f \in File, NEW t \in Line, NEW q, InLine(q, t)
  PROVE  InLast(q, [lines |-> f.lines, tail |-> f.tail \o t])
<1> DEFINE g == [lines |-> f.lines, tail |-> f.tail \o t]
<1>1. f.tail \in Line /\ f.lines \in Seq(Line) BY DEF File
<1>2. PICK j \in 1..Len(t) : t[j] = q BY DEF InLine, Line
<1>3. /\ f.tail \o t \in Line
      /\ Len(f.tail \o t) = Len(f.tail) + Len(t)
      /\ (f.tail \o t)[Len(f.tail) + j] = q
      /\ Len(f.tail) \in Nat /\ Len(t) \in Nat
  BY <1>1, <1>2, ConcatProperties DEF Line
<1>4. InLine(q, f.tail \o t)
  <2>1. Len(f.tail) + j \in DOMAIN (f.tail \o t) BY <1>2, <1>3 DEF Line
  <2> QED BY <1>3, <2>1 DEF InLine
<1>5. f.tail \o t # <<>> BY <1>4 DEF InLine
<1> DEFINE A == Append(f.lines, f.tail \o t)
<1>6. AllLines(g) = A BY <1>5 DEF AllLines
<1>7. /\ A[Len(f.lines) + 1] = f.tail \o t
      /\ DOMAIN A = 1..Len(f.lines) + 1
      /\ Len(f.lines) \in Nat
  BY <1>1, <1>3, LineAppended
<1> HIDE DEF g, A
<1>8. Len(f.lines) + 1 \in NonBlank(g) BY <1>5, <1>6, <1>7 DEF NonBlank
<1>9. \A i \in NonBlank(g) : i <= Len(f.lines) + 1 BY <1>6, <1>7 DEF NonBlank
<1>10. InLast(q, g) BY <1>4, <1>6, <1>7, <1>8, <1>9 DEF InLast
<1> QED BY <1>10 DEF g

\* A newline does not change which line is the last.
LEMMA LastTerminated ==
  ASSUME NEW f \in File, NEW q, InLast(q, f)
  PROVE  InLast(q, [lines |-> Append(f.lines, f.tail), tail |-> <<>>])
<1> DEFINE g == [lines |-> Append(f.lines, f.tail), tail |-> <<>>]
<1>1. f.tail \in Line /\ f.lines \in Seq(Line) BY DEF File
<1>2. AllLines(g) = Append(f.lines, f.tail) BY DEF AllLines
<1>3. CASE f.tail # <<>>
  <2>1. AllLines(f) = AllLines(g) BY <1>2, <1>3 DEF AllLines
  <2> QED BY <2>1 DEF InLast, NonBlank
<1>4. CASE f.tail = <<>>
  <2>1. AllLines(f) = f.lines BY <1>4 DEF AllLines
  <2> DEFINE A == Append(f.lines, f.tail)
  <2>2. /\ \A i \in 1..Len(f.lines) : A[i] = f.lines[i]
        /\ A[Len(f.lines) + 1] = f.tail
        /\ DOMAIN A = 1..Len(f.lines) + 1
        /\ DOMAIN f.lines = 1..Len(f.lines)
        /\ Len(f.lines) \in Nat
    BY <1>1, LineAppended
  <2>5. AllLines(g) = A BY <1>2
  <2> HIDE DEF g, A
  <2>3. \A i : i \in NonBlank(g) <=> i \in NonBlank(f)
    BY <1>4, <2>1, <2>2, <2>5 DEF NonBlank
  <2>4. \A i \in NonBlank(f) : AllLines(g)[i] = AllLines(f)[i]
    BY <1>4, <2>1, <2>2, <2>5 DEF NonBlank
  <2>6. InLast(q, g) BY <2>3, <2>4 DEF InLast
  <2> QED BY <2>6 DEF g
<1> QED BY <1>3, <1>4

-----------------------------------------------------------------------------

\* A loop handler stands alone among the loop handlers.
LEMMA LoopAlone ==
  ASSUME TypeOK, OneLoop, NEW r \in Requests, NEW q \in Requests,
         pc[r] \in LoopSteps, pc[q] \in LoopSteps
  PROVE  r = q
<1>1. LoopSteps \subseteq Active BY DEF LoopSteps, Active, Reading, Writing, FileName
<1> QED BY <1>1 DEF OneLoop

\* Only the route by kind leads from the raw capture to a step of the loop.
LEMMA AfterLoop ==
  ASSUME NEW r \in Requests, half[r], OneLoop
  PROVE  /\ After(r) \in LoopSteps => Kind(r) \in Loop
         /\ After(r) \in PC
         /\ After(r) \notin {"idle", "raw", "pre"}
         /\ After(r) = "capture" => line[r] = 0
         /\ After(r) = "count" => pc[r] = "pre"
         /\ After(r) = "comp" => FALSE
         /\ After(r) \in {"trunc_read"} => pc[r] = "comp" /\ line[r] # 0
         /\ After(r) \notin {"trunc_open", "trunc_write"}
<1>1. pc[r] \in LoopSteps => Kind(r) \in Loop BY DEF OneLoop
<1>2. After(r) \in {"main", "sub", "capture", "count", "emit", "trunc_read", "forward"} BY DEF After
<1>3. After(r) \in {"count", "emit", "trunc_read"} => pc[r] \in {"pre", "comp"} BY DEF After
<1>4. After(r) \in {"main", "capture"} => pc[r] = "raw" /\ Kind(r) \in Loop BY DEF After, Loop
<1>5. After(r) = "count" => pc[r] = "pre" BY DEF After
<1>6. After(r) = "trunc_read" => pc[r] = "comp" /\ line[r] # 0 BY DEF After
<1>7. pc[r] = "raw" => line[r] = 0 BY DEF OneLoop
<1> QED BY <1>1, <1>2, <1>3, <1>4, <1>5, <1>6, <1>7, AfterType DEF LoopSteps

\* The handlers of the loop stay apart: a new one waits until the last has gone.
LEMMA OneLoopStep ==
  ASSUME Overlap \cap Loop = {}, TypeOK, OneLoop, [Next]_vars
  PROVE  OneLoop'
<1> USE DEF Goto
<1>0. LoopSteps \subseteq Active BY DEF LoopSteps, Active, Reading, Writing, FileName
<1>1. ASSUME NEW r \in Requests, pc[r] \in Active,
             \A q \in Requests \ {r} : pc'[q] = pc[q] /\ half'[q] = half[q] /\ line'[q] = line[q],
             pc'[r] \in LoopSteps => Kind(r) \in Loop,
             half'[r] => pc'[r] \in FileName,
             pc'[r] \in {"idle", "raw", "capture", "pre"} => line'[r] = 0
      PROVE  OneLoop'
  <2>1. \A q \in Requests : pc'[q] \in Active => pc[q] \in Active BY <1>1
  <2>2. \A q, p \in Requests : pc'[q] \in Active /\ pc'[p] \in Active
                                /\ Kind(q) \in Loop /\ Kind(p) \in Loop => q = p
    BY <2>1 DEF OneLoop
  <2> HIDE DEF Goto
  <2>3. \A q \in Requests : /\ pc'[q] \in LoopSteps => Kind(q) \in Loop
                            /\ half'[q] => pc'[q] \in FileName
                            /\ pc'[q] \in {"idle", "raw", "capture", "pre"} => line'[q] = 0
    BY <1>1 DEF OneLoop
  <2>4. \A q \in Requests : Kind(q)' = Kind(q) BY DEF Kind
  <2> QED BY <2>2, <2>3, <2>4 DEF OneLoop
<1>2. ASSUME NEW r \in Requests, Start(r) PROVE OneLoop'
  <2>1. /\ pc[r] = "idle" /\ pc' = [pc EXCEPT ![r] = "raw"] /\ UNCHANGED <<half, line>>
        /\ \A q \in Requests : pc[q] \in Active => Kind(r) \in Overlap \/ Kind(q) \in Overlap
    BY <1>2 DEF Start, locals
  <2>2. \A q \in Requests : Kind(q) \in Loop => Kind(q) \notin Overlap OBVIOUS
  <2>3. \A q \in Requests \ {r} : Kind(r) \in Loop /\ Kind(q) \in Loop => pc[q] \notin Active
    BY <2>1, <2>2
  <2>4. pc'[r] = "raw" /\ \A q \in Requests \ {r} : pc'[q] = pc[q] BY <2>1 DEF TypeOK
  <2>5. \A q, p \in Requests : pc'[q] \in Active /\ pc'[p] \in Active
                                /\ Kind(q) \in Loop /\ Kind(p) \in Loop => q = p
    BY <2>3, <2>4 DEF OneLoop
  <2>6. ~half[r] BY <2>1 DEF OneLoop, FileName
  <2>7. line[r] = 0 BY <2>1 DEF OneLoop
  <2>8. \A q \in Requests : /\ pc'[q] \in LoopSteps => Kind(q) \in Loop
                            /\ half'[q] => pc'[q] \in FileName
                            /\ pc'[q] \in {"idle", "raw", "capture", "pre"} => line'[q] = 0
    BY <2>1, <2>4, <2>6, <2>7 DEF OneLoop, LoopSteps
  <2>9. \A q \in Requests : Kind(q)' = Kind(q) BY DEF Kind
  <2> QED BY <2>5, <2>8, <2>9 DEF OneLoop
<1>3. ASSUME NEW r \in Requests, WriteText(r) PROVE OneLoop'
  <2>1. pc[r] \in Active BY <1>3 DEF WriteText, Active, Writing
  <2>2. /\ pc' = pc /\ half' = [half EXCEPT ![r] = TRUE] /\ line' = line /\ pc[r] \in FileName
    BY <1>3 DEF WriteText
  <2> QED BY <1>1, <2>1, <2>2 DEF OneLoop, TypeOK
<1>4. ASSUME NEW r \in Requests, WriteNewline(r) PROVE OneLoop'
  <2>1. /\ half[r] /\ pc' = [pc EXCEPT ![r] = After(r)] /\ half' = [half EXCEPT ![r] = FALSE]
        /\ line' = line
    BY <1>4 DEF WriteNewline
  <2>2. pc[r] \in Active BY <2>1 DEF OneLoop, Active, Writing
  <2>3. pc'[r] = After(r) /\ half'[r] = FALSE BY <2>1 DEF TypeOK
  <2> QED BY <1>1, <2>1, <2>2, <2>3, AfterLoop DEF TypeOK
<1>5. ASSUME NEW r \in Requests, CaptureRead(r) PROVE OneLoop'
  <2>1. /\ pc[r] = "capture" /\ line' = line /\ half' = half
        /\ \E l \in {"comp", "pre"} : pc' = [pc EXCEPT ![r] = l]
    BY <1>5 DEF CaptureRead
  <2>2. Kind(r) \in Loop BY <2>1 DEF OneLoop, LoopSteps
  <2>3. ~half[r] /\ line[r] = 0 BY <2>1 DEF OneLoop, FileName
  <2> QED BY <1>0, <1>1, <2>1, <2>2, <2>3 DEF TypeOK, LoopSteps
<1>6. ASSUME NEW r \in Requests, CountLines(r) PROVE OneLoop'
  <2>1. /\ pc[r] = "count" /\ half' = half /\ pc' = [pc EXCEPT ![r] = "comp"]
        /\ \A q \in Requests \ {r} : line'[q] = line[q]
    BY <1>6 DEF CountLines, TypeOK
  <2>2. Kind(r) \in Loop BY <2>1 DEF OneLoop, LoopSteps
  <2>3. ~half[r] BY <2>1 DEF OneLoop, FileName
  <2>4. pc'[r] = "comp" BY <2>1 DEF TypeOK
  <2> QED BY <1>0, <1>1, <2>1, <2>2, <2>3, <2>4 DEF TypeOK, LoopSteps
<1>7. ASSUME NEW r \in Requests, TruncateRead(r) \/ TruncateOpen(r) \/ TruncateWrite(r) \/ Emit(r)
      PROVE  OneLoop'
  <2>1. /\ pc[r] \in {"trunc_read", "trunc_open", "trunc_write", "emit"} /\ line' = line /\ half' = half
        /\ \E l \in {"trunc_open", "trunc_write", "emit", "forward"} : pc' = [pc EXCEPT ![r] = l]
    BY <1>7 DEF TruncateRead, TruncateOpen, TruncateWrite, Emit, locals
  <2>2. Kind(r) \in Loop BY <2>1 DEF OneLoop, LoopSteps
  <2>3. ~half[r] BY <2>1 DEF OneLoop, FileName
  <2>4. pc'[r] \in {"trunc_open", "trunc_write", "emit", "forward"} BY <2>1 DEF TypeOK
  <2>5. pc[r] \in Active BY <1>0, <2>1 DEF LoopSteps
  <2> QED BY <1>1, <2>1, <2>2, <2>3, <2>4, <2>5 DEF TypeOK
<1>8. ASSUME NEW r \in Requests, Forward(r) \/ Fault(r) PROVE OneLoop'
  <2>1. /\ pc[r] \in Active /\ line' = line
        /\ \E l \in {"done", "forward"} : pc' = [pc EXCEPT ![r] = l]
        /\ half' = half \/ half' = [half EXCEPT ![r] = FALSE]
        /\ half' # half \/ pc[r] = "forward" \/ ~half'[r]
    BY <1>8 DEF Forward, Fault, locals, Active, TypeOK
  <2>2. pc[r] = "forward" => ~half[r] BY DEF OneLoop, FileName
  <2>3. ~half'[r] BY <2>1, <2>2 DEF TypeOK
  <2>4. pc'[r] \in {"done", "forward"} BY <2>1 DEF TypeOK
  <2> QED BY <1>1, <2>1, <2>3, <2>4 DEF TypeOK, LoopSteps
<1>9. CASE Crash
  <2>1. /\ pc' = [r \in Requests |-> IF pc[r] \in Active THEN "dead" ELSE pc[r]]
        /\ half' = [r \in Requests |-> FALSE] /\ line' = line
    BY <1>9 DEF Crash
  <2>2. \A q \in Requests : pc'[q] \notin Active
    BY <2>1 DEF Active, Reading, Writing, FileName
  <2>3. \A q \in Requests : pc'[q] \in {"idle", "raw", "capture", "pre"} => pc[q] = pc'[q]
    BY <2>1
  <2> QED BY <1>0, <2>1, <2>2, <2>3 DEF OneLoop
<1>10. CASE UNCHANGED vars
  BY <1>10 DEF vars, locals, OneLoop, Kind
<1> QED BY <1>2, <1>3, <1>4, <1>5, <1>6, <1>7, <1>8, <1>9, <1>10 DEF Next, Handler

-----------------------------------------------------------------------------

\* A step of another handler that leaves the newest exchange alone, and loses no
\* snapshot, keeps what is held for it.
LEMMA HeldKept ==
  ASSUME NEW q \in Requests, Held(q), lastMain' = lastMain,
         pc'[q] = pc[q], half'[q] = half[q], line'[q] = line[q], snap'[q] = snap[q],
         InFile(lastMain, file["pre"]) => InFile(lastMain, file'["pre"])
  PROVE  Held(q)'
BY DEF Held

\* No step of a handler, crash or fault loses the newest main exchange.
LEMMA LatestStep ==
  ASSUME Overlap \cap Loop = {}, TypeOK, LatestInv, [Next]_vars
  PROVE  LatestInv'
<1> USE DEF Goto
<1> DEFINE held == InFile(lastMain, file["pre"])
           main == file["main"]
<1>0. OneLoop' BY OneLoopStep DEF LatestInv
<1>a. /\ OneLoop
      /\ lastMain # NoRequest => InLast(lastMain, main) \/ held
      /\ lastMain # NoRequest => \A q \in Requests : Held(q)
  BY DEF LatestInv
<1>b. /\ \A f \in FileName : file[f] \in File
      /\ "pre" \in FileName /\ "main" \in FileName
  BY DEF TypeOK, FileName
\* A step of r that leaves the newest exchange alone and loses no snapshot.
<1>1. ASSUME NEW r \in Requests, lastMain' = lastMain,
             \A q \in Requests \ {r} : /\ pc'[q] = pc[q] /\ half'[q] = half[q]
                                       /\ line'[q] = line[q] /\ snap'[q] = snap[q],
             held => InFile(lastMain, file'["pre"]),
             lastMain # NoRequest =>
               (InLast(lastMain, main) \/ held => InLast(lastMain, file'["main"]) \/ InFile(lastMain, file'["pre"])),
             lastMain # NoRequest => Held(r)'
      PROVE  LatestInv'
  <2>1. lastMain # NoRequest => \A q \in Requests : Held(q)'
    BY <1>1, <1>a, HeldKept
  <2> QED BY <1>0, <1>1, <1>a, <2>1 DEF LatestInv
<1>2. ASSUME NEW r \in Requests, Start(r) PROVE LatestInv'
  <2>1. /\ UNCHANGED <<file, half, snap, line, lastMain>> /\ pc' = [pc EXCEPT ![r] = "raw"]
    BY <1>2 DEF Start, locals
  <2>2. Held(r)' BY <2>1 DEF Held, TypeOK
  <2> QED BY <1>1, <2>1, <2>2 DEF TypeOK
<1>3. ASSUME NEW r \in Requests, WriteText(r) PROVE LatestInv'
  <2> DEFINE g == [lines |-> file[pc[r]].lines, tail |-> file[pc[r]].tail \o Text(r)]
  <2>1. /\ pc[r] \in FileName /\ ~half[r]
        /\ file' = [file EXCEPT ![pc[r]] = g]
        /\ half' = [half EXCEPT ![r] = TRUE]
        /\ UNCHANGED <<pc, snap, line>>
        /\ lastMain' = IF pc[r] = "main" THEN r ELSE lastMain
    BY <1>3 DEF WriteText
  <2>2. \A q : InFile(q, g) <=> InFile(q, file[pc[r]]) \/ InLine(q, Text(r))
    BY <1>b, <2>1, TextAppended, TextType
  <2>3. pc[r] = "main" => InLast(r, g)
    <3>1. pc[r] = "main" => InLine(r, Text(r)) BY DEF Text, InLine
    <3> QED BY <1>b, <3>1, LastAppended, TextType
  <2> HIDE DEF g
  <2>4. file'[pc[r]] = g /\ \A f \in FileName \ {pc[r]} : file'[f] = file[f]
    BY <2>1 DEF TypeOK
  <2>5. \A q : InFile(q, file["pre"]) => InFile(q, file'["pre"]) BY <1>b, <2>2, <2>4
  <2>6. CASE pc[r] = "main"
    <3>1. lastMain' = r /\ InLast(lastMain', file'["main"]) BY <2>1, <2>3, <2>4, <2>6
    <3>2. \A q \in Requests : pc[q] \in LoopSteps => q = r
      BY <1>a, <2>6, LoopAlone DEF LoopSteps
    <3>3. \A q \in Requests : pc'[q] \in LoopSteps => pc'[q] = "main" BY <2>1, <2>6, <3>2
    <3>4. \A q \in Requests : Held(q)' BY <3>3 DEF Held, LoopSteps
    <3> QED BY <1>0, <3>1, <3>4 DEF LatestInv
  <2>7. CASE pc[r] # "main"
    <3>1. file'["main"] = main /\ lastMain' = lastMain BY <1>b, <2>1, <2>4, <2>7
    <3>2. lastMain # NoRequest => Held(r)'
      <4>1. CASE pc[r] = "pre"
        <5>1. Text(r) = snap[r] BY <4>1 DEF Text
        <5>2. lastMain # NoRequest => InLine(lastMain, snap[r]) \/ held
          BY <1>a, <2>1, <4>1 DEF Held
        <5>3. lastMain # NoRequest => InFile(lastMain, file'["pre"])
          BY <2>2, <2>4, <2>5, <4>1, <5>1, <5>2
        <5> QED BY <3>1, <5>3, <2>1, <4>1 DEF Held, TypeOK
      <4>2. CASE pc[r] # "pre"
        <5>1. lastMain # NoRequest => (line[r] # 0 /\ pc[r] = "comp" => held)
          BY <1>a, <2>1, <4>2 DEF Held
        <5> QED BY <3>1, <5>1, <2>1, <2>5, <4>2 DEF Held, FileName
      <4> QED BY <4>1, <4>2
    <3> QED BY <1>1, <2>1, <2>5, <3>1, <3>2 DEF TypeOK
  <2> QED BY <2>6, <2>7
<1>4. ASSUME NEW r \in Requests, WriteNewline(r) PROVE LatestInv'
  <2> DEFINE g == [lines |-> Append(file[pc[r]].lines, file[pc[r]].tail), tail |-> <<>>]
  <2>1. /\ half[r] /\ pc[r] \in FileName
        /\ file' = [file EXCEPT ![pc[r]] = g]
        /\ half' = [half EXCEPT ![r] = FALSE] /\ pc' = [pc EXCEPT ![r] = After(r)]
        /\ UNCHANGED <<snap, line, lastMain>>
    BY <1>4, <1>a DEF WriteNewline, OneLoop
  <2>2. \A q : InFile(q, g) <=> InFile(q, file[pc[r]]) BY <1>b, <2>1, TailTerminated
  <2>3. \A q : InLast(q, file[pc[r]]) => InLast(q, g) BY <1>b, <2>1, LastTerminated
  <2> HIDE DEF g
  <2>4. file'[pc[r]] = g /\ \A f \in FileName \ {pc[r]} : file'[f] = file[f]
    BY <2>1 DEF TypeOK
  <2>5. \A q : InFile(q, file["pre"]) => InFile(q, file'["pre"]) BY <1>b, <2>2, <2>4
  <2>6. \A q : InLast(q, main) => InLast(q, file'["main"]) BY <1>b, <2>3, <2>4
  <2>7. pc'[r] = After(r) /\ ~half'[r] BY <2>1 DEF TypeOK
  <2>8. lastMain # NoRequest => Held(r)'
    <3>1. After(r) = "count" => pc[r] = "pre" BY <1>a, <2>1, AfterLoop
    <3>2. After(r) = "trunc_read" => pc[r] = "comp" /\ line[r] # 0 BY <1>a, <2>1, AfterLoop
    <3>3. After(r) \notin {"pre", "comp", "trunc_open", "trunc_write"} BY <1>a, <2>1, AfterLoop
    <3>4. lastMain # NoRequest => (After(r) \in {"count", "trunc_read"} => held)
      BY <1>a, <2>1, <3>1, <3>2 DEF Held
    <3> QED BY <2>1, <2>5, <2>7, <3>3, <3>4 DEF Held
  <2> QED BY <1>1, <2>1, <2>5, <2>6, <2>8 DEF TypeOK
<1>5. ASSUME NEW r \in Requests, CaptureRead(r) PROVE LatestInv'
  <2>1. /\ pc[r] = "capture" /\ snap' = [snap EXCEPT ![r] = read_last_line(main)]
        /\ pc' = [pc EXCEPT ![r] = IF snap'[r] = <<>> THEN "comp" ELSE "pre"]
        /\ UNCHANGED <<file, half, line, lastMain>>
    BY <1>5 DEF CaptureRead
  <2>2. snap'[r] = read_last_line(main) /\ pc'[r] \in {"comp", "pre"} BY <2>1 DEF TypeOK
  <2>3. line[r] = 0 /\ ~half[r] BY <1>a, <2>1 DEF OneLoop, FileName
  <2>4. lastMain # NoRequest => InLine(lastMain, snap'[r]) \/ held
    BY <1>a, <1>b, <2>2, LastIsRead
  <2>5. lastMain # NoRequest => Held(r)' BY <2>1, <2>2, <2>3, <2>4 DEF Held
  <2> QED BY <1>1, <2>1, <2>5 DEF TypeOK
<1>6. ASSUME NEW r \in Requests, CountLines(r) PROVE LatestInv'
  <2>1. /\ pc[r] = "count" /\ pc' = [pc EXCEPT ![r] = "comp"]
        /\ \A q \in Requests \ {r} : line'[q] = line[q]
        /\ UNCHANGED <<file, half, snap, lastMain>>
    BY <1>6 DEF CountLines, TypeOK
  <2>2. lastMain # NoRequest => held BY <1>a, <2>1 DEF Held
  <2>3. lastMain # NoRequest => Held(r)' BY <2>1, <2>2 DEF Held, TypeOK
  <2> QED BY <1>1, <2>1, <2>3 DEF TypeOK
<1>7. ASSUME NEW r \in Requests, TruncateRead(r) \/ TruncateOpen(r) \/ TruncateWrite(r) \/ Emit(r)
      PROVE  LatestInv'
  <2>1. /\ UNCHANGED <<half, snap, line, lastMain>>
        /\ \E l \in {"trunc_open", "trunc_write", "emit", "forward"} :
             /\ pc' = [pc EXCEPT ![r] = l]
             /\ l \in {"trunc_open", "trunc_write"} => pc[r] \in {"trunc_read", "trunc_open"}
        /\ file' = file \/ ( /\ pc[r] \in {"trunc_open", "trunc_write"}
                             /\ \E g : file' = [file EXCEPT !["main"] = g] )
    BY <1>7 DEF TruncateRead, TruncateOpen, TruncateWrite, Emit, locals
  <2>2. file'["pre"] = file["pre"] BY <2>1 DEF TypeOK, FileName
  <2>3. lastMain # NoRequest => (pc[r] \in {"trunc_read", "trunc_open", "trunc_write"} => held)
    BY <1>a DEF Held
  <2>4. lastMain # NoRequest => Held(r)' BY <2>1, <2>2, <2>3 DEF Held, TypeOK
  <2>5. lastMain # NoRequest =>
          (InLast(lastMain, main) \/ held =>
             InLast(lastMain, file'["main"]) \/ InFile(lastMain, file'["pre"]))
    BY <2>1, <2>2, <2>3
  <2> QED BY <1>1, <2>1, <2>2, <2>4, <2>5 DEF TypeOK
<1>8. ASSUME NEW r \in Requests, Forward(r) \/ Fault(r) PROVE LatestInv'
  <2>1. /\ UNCHANGED <<file, snap, line, lastMain>>
        /\ \E l \in {"done", "forward"} : pc' = [pc EXCEPT ![r] = l]
        /\ half' = half \/ half' = [half EXCEPT ![r] = FALSE]
    BY <1>8 DEF Forward, Fault, locals
  <2>2. Held(r)' BY <2>1 DEF Held, TypeOK
  <2> QED BY <1>1, <2>1, <2>2 DEF TypeOK
<1>9. CASE Crash
  <2>1. /\ pc' = [r \in Requests |-> IF pc[r] \in Active THEN "dead" ELSE pc[r]]
        /\ UNCHANGED <<file, lastMain>>
    BY <1>9 DEF Crash
  <2>2. \A q \in Requests : pc'[q] \notin Active
    BY <2>1 DEF Active, Reading, Writing, FileName
  <2>3. \A q \in Requests : Held(q)' BY <2>2 DEF Held, Active, Reading, Writing, FileName
  <2> QED BY <1>0, <1>a, <2>1, <2>3 DEF LatestInv
<1>10. CASE UNCHANGED vars
  <2>1. UNCHANGED <<file, pc, half, snap, line, lastMain>> BY <1>10 DEF vars, locals
  <2>2. lastMain # NoRequest => \A q \in Requests : Held(q)' BY <1>a, <2>1, HeldKept
  <2> QED BY <1>0, <1>a, <2>1, <2>2 DEF LatestInv
<1> QED BY <1>2, <1>3, <1>4, <1>5, <1>6, <1>7, <1>8, <1>9, <1>10 DEF Next, Handler

\* An empty session directory holds what there is: nothing.
LEMMA LatestInit == Init => LatestInv
<1> SUFFICES ASSUME Init PROVE LatestInv OBVIOUS
<1>1. \A r \in Requests : pc[r] = "idle" /\ ~half[r] /\ line[r] = 0 BY DEF Init
<1>2. "idle" \notin Active /\ "idle" \notin LoopSteps
  BY DEF LoopSteps, Active, Reading, Writing, FileName
<1>3. OneLoop BY <1>1, <1>2 DEF OneLoop
<1> QED BY <1>3 DEF Init, LatestInv

\* If main exchanges and compactions of a session do not overlap, which Claude
\* Code sees to, the newest main exchange is in the main log or snapshotted,
\* wherever a compaction is cut short by a crash or an I/O error, and whatever
\* other requests run beside it.
THEOREM LatestIsRecoverable ==
  ASSUME Overlap \cap Loop = {}
  PROVE  Spec => []LatestExchangeRecoverable
<1> DEFINE Inv == TypeOK /\ LatestInv
<1>1. Init => Inv BY TypeInit, LatestInit
<1>2. Inv /\ [Next]_vars => Inv' BY TypeStep, LatestStep
<1>3. Inv => LatestExchangeRecoverable
  <2>1. TypeOK => file["main"] \in File BY DEF TypeOK, FileName
  <2> QED BY <2>1, LastIsRead DEF LatestInv, LatestExchangeRecoverable
<1> QED BY <1>1, <1>2, <1>3, PTL DEF Spec

-----------------------------------------------------------------------------
(* Replays: what the derived files are on the way to *)

\* Contents of the derived files, all of them terminated lines.
Contents == [Derived -> Seq(Line)]
Full(ls) == [lines |-> ls, tail |-> <<>>]
Kept(F, f, d) == F[f] = Full(d[f])

\* A line on its way to the end of a file: h says that its text is there.
Appending(F, f, l, h, d) ==
  /\ F[f].tail = (IF h THEN l ELSE <<>>)
  /\ d[f] = Append(F[f].lines, l)

LoopFiles == {"main", "pre", "comp"}
LoopDone(F, d) == \A f \in LoopFiles : Kept(F, f, d)

\* The main log of F ends with the line that a compaction leaves of it.
ToTruncate(F, d) ==
  /\ F["main"].tail = <<>> /\ F["main"].lines # <<>>
  /\ d["main"] = <<Last(F["main"].lines)>>

\* The files F of a main exchange or compaction r, at step p with its locals,
\* lack what the rest of its handler does to make them d.
MainAt(F, r, h, d) ==
  Appending(F, "main", <<r>>, h, d) /\ Kept(F, "pre", d) /\ Kept(F, "comp", d)

CaptureAt(F, r, d) ==
  /\ F["main"].tail = <<>> /\ F["pre"].tail = <<>>
  /\ Appending(F, "comp", <<r>>, FALSE, d)
  /\ IF F["main"].lines = <<>>
     THEN d["main"] = <<>> /\ d["pre"] = F["pre"].lines
     ELSE /\ d["main"] = <<Last(F["main"].lines)>>
          /\ d["pre"] = Append(F["pre"].lines, Last(F["main"].lines))

PreAt(F, r, h, s, d) ==
  /\ ToTruncate(F, d) /\ s = Last(F["main"].lines)
  /\ Appending(F, "pre", s, h, d)
  /\ Appending(F, "comp", <<r>>, FALSE, d)

CountAt(F, r, s, d) ==
  /\ ToTruncate(F, d) /\ s = Last(F["main"].lines)
  /\ Kept(F, "pre", d) /\ d["pre"] # <<>> /\ Last(d["pre"]) = s
  /\ Appending(F, "comp", <<r>>, FALSE, d)

CompAt(F, r, h, n, d) ==
  /\ IF n = 0 THEN Kept(F, "main", d) ELSE ToTruncate(F, d)
  /\ Kept(F, "pre", d)
  /\ Appending(F, "comp", <<r>>, h, d)

TruncAt(F, d) == ToTruncate(F, d) /\ Kept(F, "pre", d) /\ Kept(F, "comp", d)

WriteAt(F, k, d) ==
  /\ F["main"] = EmptyFile /\ d["main"] = <<k>>
  /\ Kept(F, "pre", d) /\ Kept(F, "comp", d)

LoopAt(F, r, p, h, s, k, n, d) ==
  /\ p = "main" => MainAt(F, r, h, d)
  /\ p = "capture" => CaptureAt(F, r, d)
  /\ p = "pre" => PreAt(F, r, h, s, d)
  /\ p = "count" => CountAt(F, r, s, d)
  /\ p = "comp" => CompAt(F, r, h, n, d)
  /\ p = "trunc_read" => TruncAt(F, d)
  /\ p = "trunc_open" => TruncAt(F, d) /\ k = Last(F["main"].lines)
  /\ p = "trunc_write" => WriteAt(F, k, d)

\* What holds of the contents themselves.
Solid(d) == \A i \in DOMAIN d["main"] : d["main"][i] # <<>>
Heads(d) == d["pre"] # <<>> => d["main"] # <<>> /\ d["main"][1] = Last(d["pre"])
Good(d) == d \in Contents /\ Solid(d) /\ Heads(d)

-----------------------------------------------------------------------------
(* The live handlers *)

OpenSteps == LoopSteps \ {"emit"}
Open(r) == (pc[r] = "raw" /\ half[r]) \/ pc[r] \in OpenSteps \/ pc[r] = "sub"
Pos(r) == IF pc[r] = "raw" THEN Route(r) ELSE pc[r]
Texted(r) == pc[r] # "raw" /\ half[r]

LiveLoop(d) ==
  /\ (\A r \in Requests : Kind(r) \in Loop => ~Open(r)) => LoopDone(file, d)
  /\ \A r \in Requests : Kind(r) \in Loop /\ Open(r) =>
       LoopAt(file, r, Pos(r), Texted(r), snap[r], keep[r], line[r], d)

\* No two subagents overlap.  If they do, their log may have another order than
\* the raw log, and two records on a line.
SubsApart ==
  \/ "Subagent" \notin Overlap
  \/ \A q, r \in Requests : Kind(q) = "Subagent" /\ Kind(r) = "Subagent" => q = r

LiveSub(d) ==
  SubsApart =>
    /\ (\A r \in Requests : Kind(r) = "Subagent" => ~Open(r)) => Kept(file, "sub", d)
    /\ \A r \in Requests : Kind(r) = "Subagent" /\ Open(r) =>
         Appending(file, "sub", <<r>>, Texted(r), d)

Live(d) == Good(d) /\ LiveLoop(d) /\ LiveSub(d)

RefOK(n, s, ls) == n > 0 => n <= Len(ls) /\ ls[n] = s

\* Datagrams and the compactions that are about to send one.
Telling == {"comp", "trunc_read", "trunc_open", "trunc_write", "emit"}
RefsOK(ls) == \A x \in refs : RefOK(x.line, x.snap, ls)
LiveRefs ==
  /\ RefsOK(file["pre"].lines)
  /\ \A r \in Requests :
       pc[r] \in Telling =>
         RefOK(line[r], snap[r], file["pre"].lines)

-----------------------------------------------------------------------------
(* The replay *)

Process == {"main", "sub", "capture", "pre", "count", "comp", "trunc_read",
            "trunc_open", "trunc_write", "emit"}
At == {"off", "archive", "watcher", "next"} \cup Process

Mine == [req : Requests \cup {NoRequest}, half : BOOLEAN, snap : Line, keep : Line, line : Nat]

ReplayTypes ==
  /\ TypeOK
  /\ at \in At
  /\ left \in Seq(Derived)
  /\ read \in [lines : Nat, bodies : Nat]
  /\ mine \in Mine
  /\ missing \in SUBSET Derived /\ moved \in SUBSET Requests
  /\ alone \in BOOLEAN /\ exact \in BOOLEAN /\ spotless \in BOOLEAN
  /\ replays \in Nat
  /\ at \in Process => mine.req \in Requests

\* A handler is idle before it has a line, and only a handler in the middle of
\* a write can have its file archived.
Control ==
  /\ mine.half => at \in Derived
  /\ \A r \in Requests :
       /\ half[r] => pc[r] \in FileName
       /\ pc[r] = "idle" => line[r] = 0
       /\ r \in moved => (half[r] /\ pc[r] \in Derived) \/ pc[r] = "trunc_write"

MissingInv ==
  /\ \A f \in missing : file[f] = EmptyFile
  /\ \A r \in Requests \ moved :
       /\ half[r] => pc[r] \notin missing
       /\ pc[r] = "trunc_write" => "main" \notin missing
  /\ mine.half => at \notin missing
  /\ at \in {"trunc_open", "trunc_write"} => "main" \notin missing

OneSub ==
  /\ SubsApart =>
       \A r, q \in Requests :
         pc[r] \in Active /\ pc[q] \in Active /\ Kind(r) = "Subagent" /\ Kind(q) = "Subagent" => r = q
  /\ \A r \in Requests : pc[r] = "sub" => Kind(r) = "Subagent"

Flags ==
  /\ exact => at = "off" /\ moved = {} /\ OneLoop /\ OneSub
  /\ at # "off" /\ alone => Quiet
  /\ spotless => IF at = "off" THEN exact ELSE alone

rawlog == file["raw"]
Replayed == Replay(AllLines(rawlog))
RawGlued == \E i \in DOMAIN rawlog.lines : Len(rawlog.lines[i]) > 1
Clean ==
  /\ ~RawGlued
  /\ (\E r \in Requests : pc[r] = "raw" /\ half[r]) => Len(rawlog.tail) <= 1

\* The lines of the raw log that have been replayed.
Taken == IF read.bodies = 0 THEN SubSeq(rawlog.lines, 1, read.lines) ELSE AllLines(rawlog)

Reach(d) ==
  /\ Good(d)
  /\ IF at \in OpenSteps
     THEN LoopAt(file, mine.req, at, mine.half, mine.snap, mine.keep, mine.line, d)
     ELSE LoopDone(file, d)
  /\ IF at = "sub"
     THEN Appending(file, "sub", <<mine.req>>, mine.half, d)
     ELSE Kept(file, "sub", d)

Position ==
  /\ replays > 0
  /\ read.lines <= Len(rawlog.lines)
  /\ read.bodies # 0 => read.lines = Len(rawlog.lines) /\ read.bodies = Len(rawlog.tail)
  /\ at \in {"archive", "watcher"} => read = [lines |-> 0, bodies |-> 0] /\ mine = Nothing
  /\ at = "capture" => mine.line = 0

\* A replay that is alone: first the files go, then every line makes of them
\* what the replay of the lines so far is.
Alone ==
  /\ Position
  /\ at = "archive" =>
       \A f \in Derived : file[f] = EmptyFile \/ \E i \in DOMAIN left : left[i] = f
  /\ at = "watcher" => \A f \in Derived : file[f] = EmptyFile
  /\ at \in {"next"} \cup Process =>
       \E d \in Contents : d = Replay(Taken) /\ Reach(d)

\* The references of a session that is replayed are those of the files that
\* were, until the files are back, or of those that the replay has written.
ReplayRefs ==
  /\ \A x \in refs : \/ RefOK(x.line, x.snap, Replayed["pre"])
                     \/ at # "archive" /\ RefOK(x.line, x.snap, file["pre"].lines)
  /\ at \in Telling =>
       RefOK(mine.line, mine.snap, file["pre"].lines)

\* After a replay that was alone, or without one, what is under way leads to
\* what a replay of the raw log writes.
CleanLive == exact /\ Clean => \E d \in Contents : d = Replayed /\ Live(d)

\* While nothing has gone wrong the references hold, even of exchanges whose
\* records are glued in the raw log, as long as no replay has to read them.
SpotlessLive ==
  spotless /\ at = "off" /\ (replays = 0 \/ ~RawGlued) =>
    LiveRefs /\ \E d \in Contents : Live(d)

AloneInv == at # "off" /\ alone => Alone
RefsInv == spotless /\ at # "off" /\ ~RawGlued => ReplayRefs

ReplayInv ==
  /\ ReplayTypes /\ Control /\ MissingInv /\ Flags
  /\ CleanLive /\ SpotlessLive /\ AloneInv /\ RefsInv

-----------------------------------------------------------------------------
(* The replay of a raw log, line by line *)

\* What one line of the raw log makes of the derived files, by its kind.
LEMMA ReplayMain ==
  ASSUME NEW d \in Contents, NEW r \in Requests, Kind(r) = "Main"
  PROVE  /\ ReplayLine(d, <<r>>) \in Contents
         /\ ReplayLine(d, <<r>>)["main"] = Append(d["main"], <<r>>)
         /\ \A f \in {"sub", "pre", "comp"} : ReplayLine(d, <<r>>)[f] = d[f]
<1>1. <<r>> \in Line /\ Len(<<r>>) = 1 /\ <<r>>[1] = r /\ r # Torn
  BY TornAssumption DEF Line
<1>2. ReplayLine(d, <<r>>) = [d EXCEPT !["main"] = Append(@, <<r>>)]
  BY <1>1 DEF ReplayLine
<1>3. d["main"] \in Seq(Line) /\ "main" \in Derived BY DEF Contents, Derived, FileName
<1>4. Append(d["main"], <<r>>) \in Seq(Line) BY <1>1, <1>3, AppendProperties
<1> QED BY <1>2, <1>3, <1>4 DEF Contents, Derived, FileName

\* A subagent adds to the subagent log only.
LEMMA ReplaySub ==
  ASSUME NEW d \in Contents, NEW r \in Requests, Kind(r) = "Subagent"
  PROVE  /\ ReplayLine(d, <<r>>) \in Contents
         /\ ReplayLine(d, <<r>>)["sub"] = Append(d["sub"], <<r>>)
         /\ \A f \in LoopFiles : ReplayLine(d, <<r>>)[f] = d[f]
<1>1. <<r>> \in Line /\ Len(<<r>>) = 1 /\ <<r>>[1] = r /\ r # Torn
  BY TornAssumption DEF Line
<1>2. ReplayLine(d, <<r>>) = [d EXCEPT !["sub"] = Append(@, <<r>>)]
  BY <1>1 DEF ReplayLine
<1>3. d["sub"] \in Seq(Line) /\ "sub" \in Derived BY DEF Contents, Derived, FileName
<1>4. Append(d["sub"], <<r>>) \in Seq(Line) BY <1>1, <1>3, AppendProperties
<1> QED BY <1>2, <1>3, <1>4 DEF Contents, Derived, FileName, LoopFiles

\* A compaction snapshots the last main exchange, if there is one, and leaves only
\* that in the main log.
LEMMA ReplayCompaction ==
  ASSUME NEW d \in Contents, NEW r \in Requests, Kind(r) = "Compaction"
  PROVE  /\ ReplayLine(d, <<r>>) \in Contents
         /\ ReplayLine(d, <<r>>)["comp"] = Append(d["comp"], <<r>>)
         /\ ReplayLine(d, <<r>>)["sub"] = d["sub"]
         /\ d["main"] = <<>> => \A f \in {"main", "pre"} : ReplayLine(d, <<r>>)[f] = d[f]
         /\ d["main"] # <<>> =>
              /\ Last(d["main"]) \in Line
              /\ ReplayLine(d, <<r>>)["main"] = <<Last(d["main"])>>
              /\ ReplayLine(d, <<r>>)["pre"] = Append(d["pre"], Last(d["main"]))
<1>1. <<r>> \in Line /\ Len(<<r>>) = 1 /\ <<r>>[1] = r /\ r # Torn
  BY TornAssumption DEF Line
<1>3. /\ \A f \in Derived : d[f] \in Seq(Line)
      /\ "main" \in Derived /\ "sub" \in Derived /\ "pre" \in Derived /\ "comp" \in Derived
  BY DEF Contents, Derived, FileName
<1>4. Append(d["comp"], <<r>>) \in Seq(Line) BY <1>1, <1>3, AppendProperties
<1>5. CASE d["main"] = <<>>
  <2>1. ReplayLine(d, <<r>>) = [d EXCEPT !["comp"] = Append(@, <<r>>)]
    BY <1>1, <1>5 DEF ReplayLine
  <2> QED BY <1>3, <1>4, <1>5, <2>1 DEF Contents, Derived, FileName
<1>6. CASE d["main"] # <<>>
  <2> DEFINE last == Last(d["main"])
  <2>1. last \in Line
    <3>1. d["main"] \in Seq(Line) BY <1>3
    <3>2. Len(d["main"]) \in 1..Len(d["main"]) BY <1>6, <3>1, EmptySeq
    <3> QED BY <3>1, <3>2 DEF Last
  <2>2. ReplayLine(d, <<r>>) =
          [d EXCEPT !["comp"] = Append(@, <<r>>), !["pre"] = Append(@, last), !["main"] = <<last>>]
    BY <1>1, <1>6 DEF ReplayLine
  <2>3. Append(d["pre"], last) \in Seq(Line) /\ <<last>> \in Seq(Line)
    BY <1>3, <2>1, AppendProperties
  <2> HIDE DEF last
  <2>4. ReplayLine(d, <<r>>) \in Contents
    BY <1>3, <1>4, <2>2, <2>3 DEF Contents
  <2>5. ReplayLine(d, <<r>>)["comp"] = Append(d["comp"], <<r>>)
    BY <1>3, <2>2 DEF Contents
  <2>6. ReplayLine(d, <<r>>)["pre"] = Append(d["pre"], last)
    BY <1>3, <2>2 DEF Contents
  <2>7. ReplayLine(d, <<r>>)["main"] = <<last>> /\ ReplayLine(d, <<r>>)["sub"] = d["sub"]
    BY <1>3, <2>2 DEF Contents
  <2> QED BY <1>6, <2>1, <2>4, <2>5, <2>6, <2>7 DEF last
<1> QED BY <1>5, <1>6

\* A line that is not one record, or whose record has no kind, is skipped.
LEMMA ReplaySkips ==
  ASSUME NEW d, NEW l,
         \/ ~(Len(l) = 1 /\ l[1] # Torn)
         \/ Len(l) = 1 /\ Kind(l[1]) = "None"
  PROVE  ReplayLine(d, l) = d
BY DEF ReplayLine

\* A line that holds one record.
LEMMA OneRecord ==
  ASSUME NEW l \in Line, Len(l) = 1, l[1] # Torn
  PROVE  l[1] \in Requests /\ l = <<l[1]>>
BY DEF Line

\* Every body has one of four kinds.
LEMMA KindOf ==
  ASSUME NEW r
  PROVE  Kind(r) \in {"Main", "Subagent", "Compaction", "None"}
BY DEF Kind, classify_exchange

\* The ends of a longer log.
LEMMA Longer ==
  ASSUME NEW ls \in Seq(Line), NEW l \in Line
  PROVE  /\ Append(ls, l) \in Seq(Line) /\ Append(ls, l) # <<>> /\ Last(Append(ls, l)) = l
         /\ ls # <<>> => Append(ls, l)[1] = ls[1]
         /\ (\A i \in DOMAIN ls : ls[i] # <<>>) /\ l # <<>> =>
              \A i \in DOMAIN Append(ls, l) : Append(ls, l)[i] # <<>>
<1> DEFINE m == Append(ls, l)
<1>1. /\ m \in Seq(Line) /\ Len(m) = Len(ls) + 1
      /\ DOMAIN m = 1..Len(ls) + 1
      /\ DOMAIN ls = 1..Len(ls) /\ Len(ls) \in Nat
      /\ \A i \in 1..Len(ls) : m[i] = ls[i]
      /\ m[Len(ls) + 1] = l
  BY LineAppended, AppendProperties
<1>2. ls # <<>> => Len(ls) >= 1 BY EmptySeq
<1>3. Len(<<>>) = 0 OBVIOUS
<1> HIDE DEF m
<1>4. m # <<>> BY <1>1, <1>3
<1>5. Last(m) = l BY <1>1 DEF Last
<1>6. ls # <<>> => m[1] = ls[1] BY <1>1, <1>2
<1>7. ASSUME \A i \in DOMAIN ls : ls[i] # <<>>, l # <<>>, NEW i \in DOMAIN m
      PROVE  m[i] # <<>>
  <2>1. i \in 1..Len(ls) \/ i = Len(ls) + 1 BY <1>1
  <2> QED BY <1>1, <1>7, <2>1
<1> QED BY <1>1, <1>4, <1>5, <1>6, <1>7 DEF m

\* Nothing else comes of any line; the derived files stay well formed.
LEMMA ReplayGood ==
  ASSUME NEW d, Good(d), NEW l \in Line
  PROVE  Good(ReplayLine(d, l))
<1>0. d \in Contents BY DEF Good
<1>1. CASE ~(Len(l) = 1 /\ l[1] # Torn) BY <1>1, ReplaySkips
<1>2. CASE Len(l) = 1 /\ l[1] # Torn
  <2>1. PICK r \in Requests : l = <<r>> BY <1>2, OneRecord
  <2> DEFINE e == ReplayLine(d, <<r>>)
  <2>2. d["main"] \in Seq(Line) /\ d["pre"] \in Seq(Line) BY <1>0 DEF Contents, Derived, FileName
  <2>3. CASE Kind(r) = "Main"
    <3>1. /\ e \in Contents /\ e["main"] = Append(d["main"], <<r>>)
          /\ e["pre"] = d["pre"]
      BY <1>0, <2>3, ReplayMain
    <3>2. <<r>> \in Line /\ <<r>> # <<>> BY DEF Line
    <3>3. Solid(e)
      <4>1. \A i \in DOMAIN Append(d["main"], <<r>>) : Append(d["main"], <<r>>)[i] # <<>>
        BY <2>2, <3>2, Longer DEF Good, Solid
      <4> QED BY <3>1, <4>1 DEF Solid
    <3>4. Heads(e)
      <4>2. /\ Append(d["main"], <<r>>) # <<>>
            /\ d["main"] # <<>> => Append(d["main"], <<r>>)[1] = d["main"][1]
        BY <2>2, <3>2, Longer
      <4> QED BY <3>1, <4>2 DEF Heads, Good
    <3> QED BY <2>1, <3>1, <3>3, <3>4 DEF Good
  <2>4. CASE Kind(r) = "Subagent"
    <3>1. e \in Contents /\ e["main"] = d["main"] /\ e["pre"] = d["pre"]
      BY <1>0, <2>4, ReplaySub DEF LoopFiles
    <3> QED BY <2>1, <3>1 DEF Good, Solid, Heads
  <2>5. CASE Kind(r) = "Compaction"
    <3>1. e \in Contents BY <1>0, <2>5, ReplayCompaction
    <3>2. CASE d["main"] = <<>>
      <4>1. e["main"] = d["main"] /\ e["pre"] = d["pre"]
        BY <1>0, <2>5, <3>2, ReplayCompaction
      <4> QED BY <2>1, <3>1, <4>1 DEF Good, Solid, Heads
    <3>3. CASE d["main"] # <<>>
      <4> DEFINE last == Last(d["main"])
      <4>1. last \in Line /\ e["main"] = <<last>> /\ e["pre"] = Append(d["pre"], last)
        BY <1>0, <2>5, <3>3, ReplayCompaction
      <4>2. last # <<>>
        <5>1. Len(d["main"]) \in DOMAIN d["main"] BY <2>2, <3>3, EmptySeq
        <5> QED BY <5>1 DEF Last, Good, Solid
      <4> HIDE DEF last
      <4>3. Last(Append(d["pre"], last)) = last BY <2>2, <4>1, Longer
      <4>4. Solid(e) BY <4>1, <4>2 DEF Solid
      <4>5. Heads(e)
        <5>1. <<last>> # <<>> /\ <<last>>[1] = last OBVIOUS
        <5> HIDE DEF e
        <5> QED BY <4>1, <4>3, <5>1 DEF Heads
      <4> QED BY <2>1, <3>1, <4>4, <4>5 DEF Good
    <3> QED BY <3>2, <3>3
  <2>6. CASE Kind(r) = "None"
    <3>1. Len(<<r>>) = 1 /\ <<r>>[1] = r OBVIOUS
    <3>2. e = d BY <2>6, <3>1, ReplaySkips
    <3> QED BY <2>1, <3>2
  <2> QED BY <2>3, <2>4, <2>5, <2>6, KindOf
<1> QED BY <1>1, <1>2

\* The derived files after each line of s, as a function of how many lines: what
\* the recursion in Replay defines.
Empties == [f \in Derived |-> <<>>]
RunOf(g, s) ==
  g = [n \in 0..Len(s) |-> IF n = 0 THEN Empties ELSE ReplayLine(g[n - 1], s[n])]

\* A replay is the last value of the function its recursion defines.
LEMMA ReplayRun ==
  \A s : Replay(s) = (CHOOSE g : RunOf(g, s))[Len(s)]
BY DEF Replay, RunOf, Empties

\* A run on a log, and on a line more.
LEMMA RunLonger ==
  ASSUME NEW s \in Seq(Line), NEW l \in Line, NEW g, RunOf(g, s),
         NEW h, h = [n \in 0..Len(s) + 1 |->
                       IF n <= Len(s) THEN g[n] ELSE ReplayLine(g[Len(s)], l)]
  PROVE  RunOf(h, Append(s, l)) /\ h[Len(s) + 1] = ReplayLine(g[Len(s)], l)
<1> DEFINE t == Append(s, l)
           k == Len(s)
<1>1. /\ Len(t) = k + 1 /\ k \in Nat
      /\ \A i \in 1..k : t[i] = s[i]
      /\ t[k + 1] = l
  BY LineAppended
<1> HIDE DEF t, k
<1>2. g = [n \in 0..k |-> IF n = 0 THEN Empties ELSE ReplayLine(g[n - 1], s[n])]
  BY DEF RunOf, k
<1>3. \A n \in 0..k : g[n] = IF n = 0 THEN Empties ELSE ReplayLine(g[n - 1], s[n])
  BY <1>2
<1>4. h = [n \in 0..k + 1 |-> IF n <= k THEN g[n] ELSE ReplayLine(g[k], l)]
  BY DEF k
<1>5. \A n \in 0..k : h[n] = g[n] BY <1>1, <1>4
<1>6. h[k + 1] = ReplayLine(g[k], l) BY <1>1, <1>4
<1>7. ASSUME NEW n \in 0..k + 1
      PROVE  h[n] = IF n = 0 THEN Empties ELSE ReplayLine(h[n - 1], t[n])
  <2>1. CASE n = 0
    <3>1. 0 \in 0..k BY <1>1
    <3> QED BY <2>1, <3>1, <1>3, <1>5
  <2>2. CASE n \in 1..k
    <3>1. n \in 0..k /\ n - 1 \in 0..k /\ n # 0 BY <1>1, <2>2
    <3>2. h[n] = g[n] /\ h[n - 1] = g[n - 1] BY <3>1, <1>5
    <3>3. g[n] = ReplayLine(g[n - 1], s[n]) BY <3>1, <1>3
    <3>4. t[n] = s[n] BY <2>2, <1>1
    <3> QED BY <3>1, <3>2, <3>3, <3>4
  <2>3. CASE n = k + 1
    <3>1. n # 0 /\ n - 1 = k /\ k \in 0..k BY <1>1, <2>3
    <3>2. h[n - 1] = g[k] BY <3>1, <1>5
    <3> QED BY <2>3, <3>1, <3>2, <1>1, <1>6
  <2> QED BY <1>1, <2>1, <2>2, <2>3
<1>8. h = [n \in 0..k + 1 |-> IF n = 0 THEN Empties ELSE ReplayLine(h[n - 1], t[n])]
  <2>1. DOMAIN h = 0..k + 1 /\ h = [n \in 0..k + 1 |-> h[n]] BY <1>4
  <2> QED BY <2>1, <1>7
<1>9. 0..Len(t) = 0..k + 1 BY <1>1
<1>10. RunOf(h, t) BY <1>8, <1>9 DEF RunOf
<1> QED BY <1>10, <1>6 DEF t, k

\* Every log has a run: the shortest that had none would be a line longer than
\* one that has.
LEMMA RunExists == \A s \in Seq(Line) : \E g : RunOf(g, s)
<1> DEFINE T == {n \in Nat : \E s \in Seq(Line) : Len(s) = n /\ ~\E g : RunOf(g, s)}
<1>1. SUFFICES ASSUME T # {} PROVE FALSE
  <2>1. ASSUME NEW s \in Seq(Line), ~\E g : RunOf(g, s) PROVE T # {}
    <3>1. Len(s) \in Nat BY LenProperties
    <3>2. Len(s) \in T BY <2>1, <3>1
    <3> QED BY <3>2
  <2> QED BY <2>1, <1>1
<1>2. PICK k \in T : \A y \in T : k <= y BY <1>1, LeastNumber
<1>3. PICK s \in Seq(Line) : Len(s) = k /\ ~\E g : RunOf(g, s) BY <1>2
<1>4. CASE k = 0
  <2> DEFINE g == [n \in 0..0 |-> Empties]
  <2>1. 0..Len(s) = 0..0 /\ \A n \in 0..0 : n = 0 BY <1>3, <1>4
  <2>2. g = [n \in 0..Len(s) |-> IF n = 0 THEN Empties ELSE ReplayLine(g[n - 1], s[n])]
    BY <2>1
  <2>3. RunOf(g, s) BY <2>2 DEF RunOf
  <2> QED BY <2>3, <1>3
<1>5. CASE k # 0
  <2>1. k \in Nat /\ k >= 1 BY <1>2, <1>5
  <2>2. s # <<>>
    <3>1. Len(<<>>) = 0 OBVIOUS
    <3> QED BY <3>1, <1>3, <1>5
  <2>3. PICK t \in Seq(Line), l \in Line : s = Append(t, l)
    <3> QED BY <2>2, SequenceEmptyOrAppend
  <2>4. Len(s) = Len(t) + 1 /\ Len(t) \in Nat BY <2>3, LineAppended
  <2>5. Len(t) \notin T
    <3>1. ~(k <= Len(t)) BY <1>3, <2>1, <2>4
    <3> QED BY <3>1, <1>2
  <2>6. PICK g : RunOf(g, t) BY <2>4, <2>5
  <2>7. \E h : RunOf(h, Append(t, l)) BY <2>3, <2>6, RunLonger
  <2> QED BY <1>3, <2>3, <2>7
<1> QED BY <1>4, <1>5

\* ... and only one.
LEMMA RunUnique ==
  ASSUME NEW s \in Seq(Line), NEW g, NEW h, RunOf(g, s), RunOf(h, s)
  PROVE  g = h
<1> DEFINE k == Len(s)
           T == {n \in 0..k : g[n] # h[n]}
<1>0. k \in Nat BY LenProperties
<1>1. /\ g = [n \in 0..k |-> IF n = 0 THEN Empties ELSE ReplayLine(g[n - 1], s[n])]
      /\ h = [n \in 0..k |-> IF n = 0 THEN Empties ELSE ReplayLine(h[n - 1], s[n])]
  BY DEF RunOf
<1> HIDE DEF k
<1>2. CASE T = {}
  <2>1. g = [n \in 0..k |-> g[n]] /\ h = [n \in 0..k |-> h[n]] BY <1>1
  <2>2. \A n \in 0..k : g[n] = h[n] BY <1>2
  <2> QED BY <2>1, <2>2
<1>3. CASE T # {}
  <2>1. T \in SUBSET Nat BY <1>0
  <2>2. PICK n \in T : \A y \in T : n <= y BY <1>3, <2>1, LeastNumber
  <2>3. n \in 0..k /\ g[n] # h[n] BY <2>2
  <2>4. /\ g[n] = IF n = 0 THEN Empties ELSE ReplayLine(g[n - 1], s[n])
        /\ h[n] = IF n = 0 THEN Empties ELSE ReplayLine(h[n - 1], s[n])
    BY <1>1, <2>3
  <2>5. n # 0 BY <2>3, <2>4
  <2>6. n - 1 \in 0..k /\ ~(n <= n - 1) BY <1>0, <2>3, <2>5
  <2>7. g[n - 1] = h[n - 1] BY <2>2, <2>6
  <2> QED BY <2>3, <2>4, <2>5, <2>7
<1> QED BY <1>2, <1>3

\* The replay of an empty log leaves no file, and a line more is replayed after
\* the others.
LEMMA ReplayEmpty == Replay(<<>>) = Empties /\ Good(Empties)
<1>1. <<>> \in Seq(Line) BY EmptySeq
<1> DEFINE g == CHOOSE g : RunOf(g, <<>>)
<1>2. RunOf(g, <<>>) BY <1>1, RunExists
<1>3. Len(<<>>) = 0 /\ 0 \in 0..Len(<<>>) OBVIOUS
<1> HIDE DEF g
<1>4. g = [n \in 0..Len(<<>>) |-> IF n = 0 THEN Empties ELSE ReplayLine(g[n - 1], <<>>[n])]
  BY <1>2 DEF RunOf
<1>5. g[0] = Empties BY <1>3, <1>4
<1>6. Replay(<<>>) = g[Len(<<>>)] BY ReplayRun DEF g
<1>7. Good(Empties)
  <2>1. Empties \in Contents BY <1>1 DEF Empties, Contents
  <2>2. Empties["main"] = <<>> /\ Empties["pre"] = <<>> BY DEF Empties, Derived, FileName
  <2>3. DOMAIN <<>> = {} BY <1>3
  <2> QED BY <2>1, <2>2, <2>3 DEF Good, Solid, Heads
<1> QED BY <1>3, <1>5, <1>6, <1>7

\* A replay of one line more goes on from the replay of the others.
LEMMA ReplayNext1 ==
  \A s \in Seq(Line), l \in Line : Replay(Append(s, l)) = ReplayLine(Replay(s), l)
<1> SUFFICES ASSUME NEW s \in Seq(Line), NEW l \in Line
             PROVE  Replay(Append(s, l)) = ReplayLine(Replay(s), l)
  OBVIOUS
<1> DEFINE g == CHOOSE g : RunOf(g, s)
           h == [n \in 0..Len(s) + 1 |-> IF n <= Len(s) THEN g[n] ELSE ReplayLine(g[Len(s)], l)]
           i == CHOOSE i : RunOf(i, Append(s, l))
<1>1. RunOf(g, s) BY RunExists
<1>2. Append(s, l) \in Seq(Line) /\ Len(Append(s, l)) = Len(s) + 1
  BY AppendProperties, LineAppended
<1>3. RunOf(i, Append(s, l)) BY <1>2, RunExists
<1>4. Replay(s) = g[Len(s)] /\ Replay(Append(s, l)) = i[Len(Append(s, l))]
  BY ReplayRun
<1> HIDE DEF g, i
<1>5. RunOf(h, Append(s, l)) /\ h[Len(s) + 1] = ReplayLine(g[Len(s)], l)
  BY <1>1, RunLonger
<1> HIDE DEF h
<1>6. h = i BY <1>2, <1>3, <1>5, RunUnique
<1> QED BY <1>2, <1>4, <1>5, <1>6

-----------------------------------------------------------------------------
(* What each file operation makes of a step towards the contents d *)

Files == [FileName -> File]

\* The last line of a log that ends with a record.
LEMMA LastRead ==
  ASSUME NEW f \in File, f.tail = <<>>
  PROVE  /\ f.lines = <<>> => read_last_line(f) = <<>>
         /\ f.lines # <<>> /\ Last(f.lines) # <<>> => read_last_line(f) = Last(f.lines)
<1>1. f.lines \in Seq(Line) /\ AllLines(f) = f.lines BY DEF File, AllLines
<1>2. Len(f.lines) \in Nat /\ DOMAIN f.lines = 1..Len(f.lines) BY <1>1
<1>3. ASSUME f.lines = <<>> PROVE read_last_line(f) = <<>>
  <2>1. Len(<<>>) = 0 OBVIOUS
  <2>2. DOMAIN f.lines = {} BY <1>2, <1>3, <2>1
  <2>3. NonBlank(f) = {} BY <1>1, <2>2 DEF NonBlank
  <2> QED BY <2>3 DEF read_last_line
<1>4. ASSUME f.lines # <<>>, Last(f.lines) # <<>> PROVE read_last_line(f) = Last(f.lines)
  <2> DEFINE n == Len(f.lines)
  <2>1. n \in DOMAIN f.lines BY <1>1, <1>2, <1>4, EmptySeq
  <2>2. n \in NonBlank(f) BY <1>1, <1>4, <2>1 DEF NonBlank, Last
  <2>3. NonBlank(f) \in SUBSET (1..n) BY <1>1, <1>2 DEF NonBlank
  <2>4. \A j \in NonBlank(f) : n >= j BY <2>3, <1>2
  <2>5. \A x \in NonBlank(f) : (\A j \in NonBlank(f) : x >= j) => x = n
    BY <2>2, <2>3, <2>4, <1>2
  <2>6. Max(NonBlank(f)) = n BY <2>2, <2>4, <2>5 DEF Max
  <2>7. NonBlank(f) # {} BY <2>2
  <2> QED BY <1>1, <2>6, <2>7 DEF read_last_line, Last
<1> QED BY <1>3, <1>4

\* A file that nothing wrote to, with the same contents ahead, is on the same way.
LEMMA FileFrame ==
  ASSUME NEW F, NEW G, NEW f, G[f] = F[f], NEW d, NEW e, e[f] = d[f]
  PROVE  /\ Kept(F, f, d) => Kept(G, f, e)
         /\ \A l, h : Appending(F, f, l, h, d) => Appending(G, f, l, h, e)
BY DEF Kept, Appending

\* The same of the three files that a compaction writes.
LEMMA LoopFrame ==
  ASSUME NEW F, NEW G, NEW d, NEW e, \A f \in LoopFiles : G[f] = F[f] /\ e[f] = d[f]
  PROVE  /\ LoopDone(F, d) => LoopDone(G, e)
         /\ \A r, p, h, s, k, n :
              LoopAt(F, r, p, h, s, k, n, d) => LoopAt(G, r, p, h, s, k, n, e)
<1>1. /\ G["main"] = F["main"] /\ e["main"] = d["main"]
      /\ G["pre"] = F["pre"] /\ e["pre"] = d["pre"]
      /\ G["comp"] = F["comp"] /\ e["comp"] = d["comp"]
  BY DEF LoopFiles
<1>2. LoopDone(F, d) => LoopDone(G, e) BY DEF LoopDone, Kept
<1>3. ASSUME NEW r, NEW p, NEW h, NEW s, NEW k, NEW n, LoopAt(F, r, p, h, s, k, n, d)
      PROVE  LoopAt(G, r, p, h, s, k, n, e)
  BY <1>1, <1>3 DEF LoopAt, MainAt, CaptureAt, PreAt, CountAt, CompAt, TruncAt, WriteAt,
     ToTruncate, Appending, Kept
<1> QED BY <1>2, <1>3

\* The two writes of an append.
LEMMA TextWritten ==
  ASSUME NEW F, NEW G, NEW f, NEW l \in Line, NEW d, Appending(F, f, l, FALSE, d),
         G[f] = [lines |-> F[f].lines, tail |-> F[f].tail \o l]
  PROVE  Appending(G, f, l, TRUE, d)
<1>1. F[f].tail = <<>> /\ d[f] = Append(F[f].lines, l) BY DEF Appending
<1>2. <<>> \o l = l BY ConcatEmptySeq DEF Line
<1> QED BY <1>1, <1>2 DEF Appending

\* The newline ends the line.
LEMMA LineWritten ==
  ASSUME NEW F, NEW G, NEW f, NEW l, NEW d, Appending(F, f, l, TRUE, d),
         G[f] = [lines |-> Append(F[f].lines, F[f].tail), tail |-> <<>>]
  PROVE  Kept(G, f, d)
BY DEF Appending, Kept, Full

TextOf(r, p, s) == IF p = "pre" THEN s ELSE <<r>>

\* The text of an append that is under way.
LEMMA LoopText ==
  ASSUME NEW F \in Files, NEW p \in LoopFiles, NEW r \in Requests, NEW s \in Line,
         NEW k, NEW n, NEW d, LoopAt(F, r, p, FALSE, s, k, n, d),
         NEW G, G = [F EXCEPT ![p] = [lines |-> F[p].lines, tail |-> F[p].tail \o TextOf(r, p, s)]]
  PROVE  LoopAt(G, r, p, TRUE, s, k, n, d)
<1>1. <<r>> \in Line BY DEF Line
<1>2. /\ G[p] = [lines |-> F[p].lines, tail |-> F[p].tail \o TextOf(r, p, s)]
      /\ \A f \in FileName \ {p} : G[f] = F[f]
  BY DEF Files, LoopFiles, FileName
<1>3. LoopFiles \subseteq FileName /\ "main" \in FileName /\ "pre" \in FileName /\ "comp" \in FileName
  BY DEF LoopFiles, FileName
<1>4. CASE p = "main"
  <2>1. MainAt(F, r, FALSE, d) BY <1>4 DEF LoopAt
  <2>2. Appending(G, "main", <<r>>, TRUE, d)
    BY <1>1, <1>2, <1>4, <2>1, TextWritten DEF MainAt, TextOf
  <2>3. Kept(G, "pre", d) /\ Kept(G, "comp", d)
    BY <1>2, <1>3, <1>4, <2>1 DEF MainAt, Kept
  <2> QED BY <1>4, <2>2, <2>3 DEF LoopAt, MainAt
<1>5. CASE p = "pre"
  <2>1. PreAt(F, r, FALSE, s, d) BY <1>5 DEF LoopAt
  <2>2. Appending(G, "pre", s, TRUE, d)
    BY <1>2, <1>5, <2>1, TextWritten DEF PreAt, TextOf
  <2>3. ToTruncate(G, d) /\ s = Last(G["main"].lines) /\ Appending(G, "comp", <<r>>, FALSE, d)
    BY <1>2, <1>3, <1>5, <2>1 DEF PreAt, ToTruncate, Appending
  <2> QED BY <1>5, <2>2, <2>3 DEF LoopAt, PreAt
<1>6. CASE p = "comp"
  <2>1. CompAt(F, r, FALSE, n, d) BY <1>6 DEF LoopAt
  <2>2. Appending(G, "comp", <<r>>, TRUE, d)
    BY <1>1, <1>2, <1>6, <2>1, TextWritten DEF CompAt, TextOf
  <2>3. G["main"] = F["main"] /\ G["pre"] = F["pre"] BY <1>2, <1>3, <1>6
  <2>4. CompAt(G, r, TRUE, n, d) BY <2>1, <2>2, <2>3 DEF CompAt, ToTruncate, Kept
  <2> QED BY <1>6, <2>4 DEF LoopAt
<1> QED BY <1>4, <1>5, <1>6 DEF LoopFiles

\* Where the end of a line of p leads.
Ended(G, p, r, s, k, n, d) ==
  /\ p = "main" => LoopDone(G, d)
  /\ p = "pre" => LoopAt(G, r, "count", FALSE, s, k, n, d)
  /\ p = "comp" /\ n = 0 => LoopDone(G, d)
  /\ p = "comp" /\ n # 0 => LoopAt(G, r, "trunc_read", FALSE, s, k, n, d)

\* The newline of an append that is under way.
LEMMA LoopNewline ==
  ASSUME NEW F \in Files, NEW p \in LoopFiles, NEW r \in Requests, NEW s \in Line,
         NEW k, NEW n, NEW d \in Contents, LoopAt(F, r, p, TRUE, s, k, n, d),
         NEW G, G = [F EXCEPT ![p] = [lines |-> Append(F[p].lines, F[p].tail), tail |-> <<>>]]
  PROVE  Ended(G, p, r, s, k, n, d)
<1>2. /\ G[p] = [lines |-> Append(F[p].lines, F[p].tail), tail |-> <<>>]
      /\ \A f \in FileName \ {p} : G[f] = F[f]
  BY DEF Files, LoopFiles, FileName
<1>3. "main" \in FileName /\ "pre" \in FileName /\ "comp" \in FileName
  BY DEF FileName
<1>4. ASSUME p = "main" PROVE LoopDone(G, d)
  <2>1. MainAt(F, r, TRUE, d) BY <1>4 DEF LoopAt
  <2>2. Kept(G, "main", d) BY <1>2, <1>4, <2>1, LineWritten DEF MainAt
  <2>3. Kept(G, "pre", d) /\ Kept(G, "comp", d)
    BY <1>2, <1>3, <1>4, <2>1 DEF MainAt, Kept
  <2> QED BY <2>2, <2>3 DEF LoopDone, LoopFiles
<1>5. ASSUME p = "pre" PROVE LoopAt(G, r, "count", FALSE, s, k, n, d)
  <2>1. PreAt(F, r, TRUE, s, d) BY <1>5 DEF LoopAt
  <2>2. Kept(G, "pre", d) BY <1>2, <1>5, <2>1, LineWritten DEF PreAt
  <2>3. ToTruncate(G, d) /\ s = Last(G["main"].lines) /\ Appending(G, "comp", <<r>>, FALSE, d)
    BY <1>2, <1>3, <1>5, <2>1 DEF PreAt, ToTruncate, Appending
  <2>4. d["pre"] # <<>> /\ Last(d["pre"]) = s
    <3>1. d["pre"] = Append(F["pre"].lines, s) BY <2>1 DEF PreAt, Appending
    <3>2. F["pre"].lines \in Seq(Line) BY <1>3 DEF Files, File
    <3> QED BY <3>1, <3>2, Longer
  <2>5. CountAt(G, r, s, d) BY <2>2, <2>3, <2>4 DEF CountAt
  <2> QED BY <2>5 DEF LoopAt
<1>6. ASSUME p = "comp" PROVE IF n = 0 THEN LoopDone(G, d) ELSE TruncAt(G, d)
  <2>1. CompAt(F, r, TRUE, n, d) BY <1>6 DEF LoopAt
  <2>2. Kept(G, "comp", d) BY <1>2, <1>6, <2>1, LineWritten DEF CompAt
  <2>3. G["main"] = F["main"] /\ G["pre"] = F["pre"] BY <1>2, <1>3, <1>6
  <2>4. Kept(G, "pre", d) BY <2>1, <2>3 DEF CompAt, Kept
  <2>5. n = 0 => Kept(G, "main", d) BY <2>1, <2>3 DEF CompAt, Kept
  <2>6. n # 0 => ToTruncate(G, d) BY <2>1, <2>3 DEF CompAt, ToTruncate
  <2> QED BY <2>2, <2>4, <2>5, <2>6 DEF LoopDone, LoopFiles, TruncAt
<1>7. TruncAt(G, d) => LoopAt(G, r, "trunc_read", FALSE, s, k, n, d) BY DEF LoopAt
<1> QED BY <1>4, <1>5, <1>6, <1>7 DEF Ended

\* The reads of a compaction.
LEMMA LoopCapture ==
  ASSUME NEW F \in Files, NEW r, NEW h, NEW s, NEW k, NEW d, Good(d),
         LoopAt(F, r, "capture", h, s, k, 0, d)
  PROVE  LET last == read_last_line(F["main"])
         IN  LoopAt(F, r, IF last = <<>> THEN "comp" ELSE "pre", FALSE, last, k, 0, d)
<1> DEFINE last == read_last_line(F["main"])
<1>1. CaptureAt(F, r, d) BY DEF LoopAt
<1>2. F["main"] \in File /\ F["pre"] \in File BY DEF Files, FileName
<1>3. CASE F["main"].lines = <<>>
  <2>1. last = <<>> BY <1>1, <1>2, <1>3, LastRead DEF CaptureAt
  <2>2. F["main"] = Full(d["main"]) /\ F["pre"] = Full(d["pre"])
    BY <1>1, <1>2, <1>3 DEF CaptureAt, Full, File
  <2>3. CompAt(F, r, FALSE, 0, d) BY <1>1, <2>2 DEF CaptureAt, CompAt, Kept
  <2> HIDE DEF last
  <2>4. LoopAt(F, r, "comp", FALSE, last, k, 0, d) BY <2>3 DEF LoopAt
  <2> QED BY <2>1, <2>4 DEF last
<1>4. CASE F["main"].lines # <<>>
  <2>1. d["main"] = <<Last(F["main"].lines)>> /\ d["pre"] = Append(F["pre"].lines, Last(F["main"].lines))
    BY <1>1, <1>4 DEF CaptureAt
  <2>2. Last(F["main"].lines) # <<>>
    <3>1. 1 \in DOMAIN <<Last(F["main"].lines)>> OBVIOUS
    <3>2. d["main"][1] # <<>> BY <2>1, <3>1 DEF Good, Solid
    <3> QED BY <2>1, <3>2
  <2>3. last = Last(F["main"].lines) BY <1>1, <1>2, <1>4, <2>2, LastRead DEF CaptureAt
  <2> HIDE DEF last
  <2>4. PreAt(F, r, FALSE, last, d)
    BY <1>1, <1>4, <2>1, <2>3 DEF CaptureAt, PreAt, ToTruncate, Appending
  <2>5. LoopAt(F, r, "pre", FALSE, last, k, 0, d) BY <2>4 DEF LoopAt
  <2> QED BY <2>2, <2>3, <2>5 DEF last
<1> QED BY <1>3, <1>4

\* The number of a line that was just appended names it.
LEMMA LoopCount ==
  ASSUME NEW F \in Files, NEW r, NEW h, NEW s, NEW k, NEW n, NEW d \in Contents,
         LoopAt(F, r, "count", h, s, k, n, d)
  PROVE  LET m == Len(AllLines(F["pre"]))
         IN  LoopAt(F, r, "comp", FALSE, s, k, m, d) /\ RefOK(m, s, F["pre"].lines)
<1> DEFINE m == Len(AllLines(F["pre"]))
<1>1. CountAt(F, r, s, d) BY DEF LoopAt
<1>2. F["pre"].tail = <<>> /\ F["pre"].lines = d["pre"] BY <1>1 DEF CountAt, Kept, Full
<1>3. m = Len(d["pre"]) BY <1>2 DEF AllLines
<1>4. m # 0
  <2>1. d["pre"] \in Seq(Line) /\ d["pre"] # <<>>
    BY <1>1 DEF Contents, Derived, FileName, CountAt
  <2> QED BY <1>3, <2>1, EmptySeq
<1>5. RefOK(m, s, F["pre"].lines)
  <2>1. d["pre"] \in Seq(Line) /\ Last(d["pre"]) = s
    BY <1>1 DEF Contents, Derived, FileName, CountAt
  <2>2. Len(d["pre"]) \in Nat /\ d["pre"][Len(d["pre"])] = s BY <2>1 DEF Last
  <2> QED BY <1>2, <1>3, <2>2 DEF RefOK
<1> HIDE DEF m
<1>6. CompAt(F, r, FALSE, m, d) BY <1>1, <1>4 DEF CountAt, CompAt
<1>7. LoopAt(F, r, "comp", FALSE, s, k, m, d) BY <1>6 DEF LoopAt
<1> QED BY <1>5, <1>7 DEF m

\* The exchange that the main log keeps is there to be read.
LEMMA LoopTruncateRead ==
  ASSUME NEW F \in Files, NEW r, NEW h, NEW s, NEW k, NEW n, NEW d, Good(d),
         LoopAt(F, r, "trunc_read", h, s, k, n, d)
  PROVE  LET last == read_last_line(F["main"])
         IN  last # <<>> /\ LoopAt(F, r, "trunc_open", FALSE, s, last, n, d)
<1> DEFINE last == read_last_line(F["main"])
<1>1. TruncAt(F, d) BY DEF LoopAt
<1>2. F["main"] \in File BY DEF Files, FileName
<1>3. /\ F["main"].tail = <<>> /\ F["main"].lines # <<>>
      /\ d["main"] = <<Last(F["main"].lines)>>
  BY <1>1 DEF TruncAt, ToTruncate
<1>4. Last(F["main"].lines) # <<>>
  <2>1. 1 \in DOMAIN <<Last(F["main"].lines)>> OBVIOUS
  <2>2. d["main"][1] # <<>> BY <1>3, <2>1 DEF Good, Solid
  <2> QED BY <1>3, <2>2
<1>5. last = Last(F["main"].lines) BY <1>2, <1>3, <1>4, LastRead
<1> HIDE DEF last
<1>6. LoopAt(F, r, "trunc_open", FALSE, s, last, n, d) BY <1>1, <1>5 DEF LoopAt
<1> QED BY <1>4, <1>5, <1>6 DEF last

\* Emptying the main log and writing the line back.
LEMMA LoopTruncateOpen ==
  ASSUME NEW F \in Files, NEW r, NEW h, NEW s, NEW k, NEW n, NEW d,
         LoopAt(F, r, "trunc_open", h, s, k, n, d),
         NEW G, G = [F EXCEPT !["main"] = EmptyFile]
  PROVE  F["main"] # EmptyFile /\ LoopAt(G, r, "trunc_write", FALSE, s, k, n, d)
<1>1. TruncAt(F, d) /\ k = Last(F["main"].lines) BY DEF LoopAt
<1>2. G["main"] = EmptyFile /\ G["pre"] = F["pre"] /\ G["comp"] = F["comp"]
  BY DEF Files, FileName
<1>3. WriteAt(G, k, d) BY <1>1, <1>2 DEF TruncAt, ToTruncate, WriteAt, Kept
<1>4. F["main"] # EmptyFile BY <1>1 DEF TruncAt, ToTruncate, EmptyFile
<1> QED BY <1>3, <1>4 DEF LoopAt

\* Written back over an empty log, it is all there is.
LEMMA LoopTruncateWrite ==
  ASSUME NEW F \in Files, NEW r, NEW h, NEW s, NEW k, NEW n, NEW d,
         LoopAt(F, r, "trunc_write", h, s, k, n, d),
         NEW g \in Overwrites(F["main"], k),
         NEW G, G = [F EXCEPT !["main"] = g]
  PROVE  LoopDone(G, d)
<1>1. WriteAt(F, k, d) BY DEF LoopAt
<1>2. F["main"].lines = <<>> /\ F["main"].tail = <<>> BY <1>1 DEF WriteAt, EmptyFile
<1>3. Len(<<>>) = 0 /\ DOMAIN <<>> = {} /\ 1..0 = {} OBVIOUS
<1>4. g = [lines |-> <<k>>, tail |-> <<>>]
  BY <1>2, <1>3 DEF Overwrites
<1>5. G["main"] = g /\ G["pre"] = F["pre"] /\ G["comp"] = F["comp"]
  BY DEF Files, FileName
<1> QED BY <1>1, <1>4, <1>5 DEF WriteAt, LoopDone, LoopFiles, Kept, Full

\* A record of the raw log starts on its way to the derived files.
LEMMA LoopEnters ==
  ASSUME NEW F \in Files, NEW r \in Requests, NEW d \in Contents, LoopDone(F, d),
         NEW e, e = ReplayLine(d, <<r>>)
  PROVE  /\ Kind(r) \in Loop =>
              \A h, s, k, n : LoopAt(F, r, Route(r), FALSE, s, k, n, e)
         /\ Kind(r) \notin Loop => LoopDone(F, e)
<1>1. ASSUME NEW f \in LoopFiles PROVE F[f].tail = <<>> /\ F[f].lines = d[f]
  <2>1. F[f] = Full(d[f]) BY DEF LoopDone, Kept
  <2> QED BY <2>1 DEF Full
<1>2. CASE Kind(r) = "Main"
  <2>1. e["main"] = Append(d["main"], <<r>>) /\ e["pre"] = d["pre"] /\ e["comp"] = d["comp"]
    BY <1>2, ReplayMain
  <2>2. Appending(F, "main", <<r>>, FALSE, e) BY <1>1, <2>1 DEF Appending, LoopFiles
  <2>3. Kept(F, "pre", e) /\ Kept(F, "comp", e) BY <2>1 DEF LoopDone, LoopFiles, Kept
  <2>4. MainAt(F, r, FALSE, e) BY <2>2, <2>3 DEF MainAt
  <2>5. Route(r) = "main" BY <1>2 DEF Route
  <2> QED BY <1>2, <2>4, <2>5 DEF LoopAt, Loop
<1>3. CASE Kind(r) = "Compaction"
  <2>1. /\ e["comp"] = Append(d["comp"], <<r>>)
        /\ d["main"] = <<>> => e["main"] = d["main"] /\ e["pre"] = d["pre"]
        /\ d["main"] # <<>> =>
             e["main"] = <<Last(d["main"])>> /\ e["pre"] = Append(d["pre"], Last(d["main"]))
    BY <1>3, ReplayCompaction
  <2>2. Appending(F, "comp", <<r>>, FALSE, e) BY <1>1, <2>1 DEF Appending, LoopFiles
  <2>3. CaptureAt(F, r, e) BY <1>1, <2>1, <2>2 DEF CaptureAt, LoopFiles
  <2>4. Route(r) = "capture" BY <1>3 DEF Route
  <2> QED BY <1>3, <2>3, <2>4 DEF LoopAt, Loop
<1>4. CASE Kind(r) = "Subagent"
  <2>1. \A f \in LoopFiles : e[f] = d[f] BY <1>4, ReplaySub
  <2> QED BY <1>4, <2>1 DEF LoopDone, Kept, Loop
<1>5. CASE Kind(r) = "None"
  <2>1. Len(<<r>>) = 1 /\ <<r>>[1] = r OBVIOUS
  <2>2. e = d BY <1>5, <2>1, ReplaySkips
  <2> QED BY <1>5, <2>2 DEF Loop
<1> QED BY <1>2, <1>3, <1>4, <1>5, KindOf

\* A record that is read next, for the subagent log.
LEMMA SubEnters ==
  ASSUME NEW F, NEW r \in Requests, NEW d \in Contents, NEW e, e = ReplayLine(d, <<r>>)
  PROVE  /\ Kind(r) = "Subagent" /\ Kept(F, "sub", d) =>
              Appending(F, "sub", <<r>>, FALSE, e) /\ \A f \in LoopFiles : e[f] = d[f]
         /\ Kind(r) # "Subagent" => e["sub"] = d["sub"]
<1>1. CASE Kind(r) = "Main" BY <1>1, ReplayMain
<1>2. CASE Kind(r) = "Compaction" BY <1>2, ReplayCompaction
<1>3. CASE Kind(r) = "None"
  <2>1. Len(<<r>>) = 1 /\ <<r>>[1] = r OBVIOUS
  <2> QED BY <1>3, <2>1, ReplaySkips
<1>4. CASE Kind(r) = "Subagent"
  <2>1. e["sub"] = Append(d["sub"], <<r>>) /\ \A f \in LoopFiles : e[f] = d[f]
    BY <1>4, ReplaySub
  <2> QED BY <1>4, <2>1 DEF Kept, Full, Appending
<1> QED BY <1>1, <1>2, <1>3, <1>4, KindOf

\* A reference stays right while its file grows.
LEMMA RefKept ==
  ASSUME NEW n \in Nat, NEW s, NEW ls \in Seq(Line), NEW l \in Line, RefOK(n, s, ls)
  PROVE  RefOK(n, s, Append(ls, l))
<1>1. /\ Len(Append(ls, l)) = Len(ls) + 1 /\ Len(ls) \in Nat
      /\ \A i \in 1..Len(ls) : Append(ls, l)[i] = ls[i]
  BY LineAppended
<1>2. CASE n = 0 BY <1>2 DEF RefOK
<1>3. CASE n # 0
  <2>1. n > 0 /\ n <= Len(ls) /\ ls[n] = s BY <1>3 DEF RefOK
  <2>2. n \in 1..Len(ls) /\ n <= Len(ls) + 1 BY <1>1, <2>1
  <2> QED BY <1>1, <2>1, <2>2 DEF RefOK
<1> QED BY <1>2, <1>3

-----------------------------------------------------------------------------
(* Types of a session with replays *)

\* The steps of a live handler, a crash and a fault are steps of SessionFiles.
LEMMA LiveNext ==
  ASSUME NEW r \in Requests, LiveStart(r) \/ LiveStep(r) \/ LiveFault(r) \/ LiveCrash
  PROVE  Next
BY DEF LiveStart, LiveStep, LiveFault, LiveCrash, Next

\* Steps that change only the files, the datagrams and the faults.
LEMMA FilesType ==
  ASSUME TypeOK, UNCHANGED live, file' \in Files,
         refs' \subseteq [req : Requests, line : Nat, snap : Line],
         faults' \in 0..MaxFaults
  PROVE  TypeOK'
BY DEF TypeOK, live, locals, Files

\* No record at all is of the type of a record.
LEMMA NothingType == Nothing \in Mine
BY EmptySeq DEF Nothing, Mine, Line

\* No replay has begun.
LEMMA ReplayTypeInit == ReplayInit => ReplayTypes
<1> SUFFICES ASSUME ReplayInit PROVE ReplayTypes OBVIOUS
<1>1. TypeOK BY TypeInit DEF ReplayInit
<1>2. <<>> \in Seq(Derived) BY EmptySeq
<1> QED BY <1>1, <1>2, NothingType DEF ReplayInit, ReplayTypes, At, Process

ReplayVarTypes ==
  /\ at \in At
  /\ left \in Seq(Derived)
  /\ read \in [lines : Nat, bodies : Nat]
  /\ mine \in Mine
  /\ missing \in SUBSET Derived /\ moved \in SUBSET Requests
  /\ alone \in BOOLEAN /\ exact \in BOOLEAN /\ spotless \in BOOLEAN
  /\ replays \in Nat
  /\ at \in Process => mine.req \in Requests

\* The live handlers keep the types, those of the replay with them.
LEMMA LiveTypes ==
  ASSUME ReplayTypes, NEW r \in Requests,
         LiveStart(r) \/ LiveStep(r) \/ LiveFault(r) \/ LiveCrash \/ MovedStep(r) \/ OpenMissing(r)
  PROVE  ReplayTypes'
<1>0. TypeOK /\ ReplayVarTypes BY DEF ReplayTypes, ReplayVarTypes
<1>1. TypeOK'
  <2>1. CASE LiveStart(r) \/ LiveStep(r) \/ LiveFault(r) \/ LiveCrash
    BY <1>0, <2>1, LiveNext, TypeStep
  <2>2. CASE MovedStep(r)
    BY <1>0, <2>2, AfterType DEF MovedStep, TypeOK, Goto, PC, Active
  <2>3. CASE OpenMissing(r)
    BY <1>0, <2>3 DEF OpenMissing, TypeOK, Goto, PC, Active, locals
  <2> QED BY <2>1, <2>2, <2>3
<1>2. UNCHANGED <<at, left, read, mine, replays>>
  BY DEF LiveStart, LiveStep, LiveFault, LiveCrash, MovedStep, OpenMissing, process, replayVars
<1>3. missing' \in SUBSET Derived /\ moved' \in SUBSET Requests
  BY <1>0 DEF LiveStart, LiveStep, LiveFault, LiveCrash, MovedStep, OpenMissing, process,
     replayVars, ReplayVarTypes
<1>4. alone' \in BOOLEAN /\ exact' \in BOOLEAN /\ spotless' \in BOOLEAN
  <2>0. alone \in BOOLEAN /\ exact \in BOOLEAN /\ spotless \in BOOLEAN
    BY <1>0 DEF ReplayVarTypes
  <2>1. CASE LiveStart(r) BY <2>0, <2>1 DEF LiveStart
  <2>2. CASE LiveStep(r) BY <2>0, <2>2 DEF LiveStep, flags
  <2>3. CASE LiveFault(r) BY <2>0, <2>3 DEF LiveFault, Spoiled
  <2>4. CASE LiveCrash BY <2>0, <2>4 DEF LiveCrash, Spoiled
  <2>5. CASE MovedStep(r) BY <2>0, <2>5 DEF MovedStep, flags
  <2>6. CASE OpenMissing(r) BY <2>0, <2>6 DEF OpenMissing, replayVars
  <2> QED BY <2>1, <2>2, <2>3, <2>4, <2>5, <2>6
<1>5. ReplayVarTypes' BY <1>0, <1>2, <1>3, <1>4 DEF ReplayVarTypes
<1> QED BY <1>1, <1>5 DEF ReplayTypes, ReplayVarTypes

\* What the replay takes from the raw log are lines.
LEMMA LineTaken ==
  ASSUME TypeOK, NEW l \in Line, NEW b \in Nat
  PROVE  SubSeq(l, b + 1, Len(l)) \in Line
<1>1. \A i \in b + 1..Len(l) : l[i] \in Requests \cup {Torn} BY DEF Line
<1>2. b + 1 \in Int /\ Len(l) \in Int BY DEF Line
<1> QED BY <1>1, <1>2, SubSeqProperties DEF Line

\* Where a record is routed to.
LEMMA RouteType ==
  ASSUME NEW r
  PROVE  Route(r) \in At
BY KindOf DEF Route, At, Process

\* The replay keeps the types.
LEMMA ProcessTypes ==
  ASSUME ReplayTypes, Begin \/ ReplayStep \/ ReplayFault
  PROVE  ReplayTypes'
<1>0. TypeOK /\ ReplayVarTypes BY DEF ReplayTypes, ReplayVarTypes
<1>a. /\ file \in Files /\ refs \subseteq [req : Requests, line : Nat, snap : Line]
      /\ faults \in 0..MaxFaults
      /\ file["raw"] \in File /\ file["main"] \in File /\ file["pre"] \in File
      /\ Derived \subseteq FileName
  BY <1>0 DEF TypeOK, Files, FileName, Derived
<1>b. alone \in BOOLEAN /\ exact \in BOOLEAN /\ spotless \in BOOLEAN
  BY <1>0 DEF ReplayVarTypes
<1> SUFFICES TypeOK' /\ ReplayVarTypes'
  BY DEF ReplayTypes, ReplayVarTypes
<1>1. CASE Begin
  <2>1. TypeOK'
    <3>1. UNCHANGED vars BY <1>1 DEF Begin
    <3> QED BY <3>1, <1>0, TypeStep
  <2>2. [lines |-> 0, bodies |-> 0] \in [lines : Nat, bodies : Nat] OBVIOUS
  <2>3. Quiet \in BOOLEAN BY DEF Quiet
  <2>4. alone' \in BOOLEAN /\ exact' \in BOOLEAN /\ spotless' \in BOOLEAN
    BY <1>1, <1>b, <2>3 DEF Begin
  <2> QED BY <1>1, <1>0, <2>1, <2>2, <2>4, NothingType, DerivedAssumption
      DEF Begin, ReplayVarTypes, At, Process
<1>2. CASE archive_derived_files
  <2>1. UNCHANGED <<live, refs, faults, read, mine, alone, exact, spotless, replays>>
    BY <1>2 DEF archive_derived_files, flags
  <2>2. CASE left = <<>>
    <3>1. at' = "watcher" /\ UNCHANGED <<file, left, missing, moved>>
      BY <1>2, <2>2 DEF archive_derived_files
    <3>2. TypeOK' BY <1>0, <1>a, <2>1, <3>1, FilesType
    <3> QED BY <1>0, <2>1, <3>1, <3>2 DEF ReplayVarTypes, At, Process
  <2>3. CASE left # <<>>
    <3>1. Head(left) \in Derived /\ Tail(left) \in Seq(Derived)
      BY <1>0, <2>3, HeadTailProperties DEF ReplayVarTypes
    <3>2. /\ left' = Tail(left) /\ at' = at
          /\ file' = [file EXCEPT ![Head(left)] = EmptyFile]
          /\ missing' = missing \cup {Head(left)}
          /\ moved' = moved \cup {r \in Requests : half[r] /\ pc[r] = Head(left)}
                            \cup {r \in Requests : Head(left) = "main" /\ pc[r] = "trunc_write"}
      BY <1>2, <2>3 DEF archive_derived_files
    <3>3. file' \in Files BY <1>a, <3>2, EmptyFileType DEF Files
    <3>4. TypeOK' BY <1>0, <1>a, <2>1, <3>3, FilesType
    <3>5. missing' \in SUBSET Derived /\ moved' \in SUBSET Requests
      BY <1>0, <3>1, <3>2 DEF ReplayVarTypes
    <3> QED BY <1>0, <2>1, <3>1, <3>2, <3>4, <3>5 DEF ReplayVarTypes
  <2> QED BY <2>2, <2>3
<1>3. CASE spawn_watcher
  <2>1. UNCHANGED vars BY <1>3 DEF spawn_watcher
  <2>2. TypeOK' BY <2>1, <1>0, TypeStep
  <2> QED BY <1>0, <1>3, <2>2 DEF spawn_watcher, flags, ReplayVarTypes, At, Process
<1>4. CASE NextLine
  <2>1. UNCHANGED vars BY <1>4 DEF NextLine
  <2>2. TypeOK' BY <2>1, <1>0, TypeStep
  <2>3. read.lines \in Nat /\ read.bodies \in Nat BY <1>0 DEF ReplayVarTypes
  <2>4. ASSUME NEW l \in Line, process_line(SubSeq(l, read.bodies + 1, Len(l)))
        PROVE  mine' \in Mine /\ at' \in At /\ (at' \in Process => mine'.req \in Requests)
    <3> DEFINE t == SubSeq(l, read.bodies + 1, Len(l))
    <3>1. t \in Line BY <1>0, <2>3, LineTaken
    <3> HIDE DEF t
    <3>2. CASE Len(t) = 1 /\ t[1] # Torn
      <4>1. mine' = [Nothing EXCEPT !.req = t[1]] /\ at' = Route(t[1])
        BY <2>4, <3>2 DEF process_line, t
      <4>2. t[1] \in Requests BY <3>1, <3>2, OneRecord
      <4>3. mine' \in Mine /\ mine'.req = t[1] BY <4>1, <4>2, NothingType DEF Mine, Nothing
      <4> QED BY <4>1, <4>2, <4>3, RouteType
    <3>3. CASE ~(Len(t) = 1 /\ t[1] # Torn)
      BY <1>0, <2>4, <3>3 DEF process_line, t, ReplayVarTypes
    <3> QED BY <3>2, <3>3
  <2>5. file["raw"].lines \in Seq(Line) /\ file["raw"].tail \in Line BY <1>a DEF File
  <2>6. CASE /\ read.lines < Len(file["raw"].lines)
             /\ process_line(SubSeq(file["raw"].lines[read.lines + 1], read.bodies + 1,
                                    Len(file["raw"].lines[read.lines + 1])))
             /\ read' = [lines |-> read.lines + 1, bodies |-> 0]
    <3>1. read.lines + 1 \in 1..Len(file["raw"].lines) BY <2>3, <2>5, <2>6
    <3>2. file["raw"].lines[read.lines + 1] \in Line BY <2>5, <3>1
    <3>3. mine' \in Mine /\ at' \in At /\ (at' \in Process => mine'.req \in Requests)
      BY <2>4, <2>6, <3>2
    <3>4. read' \in [lines : Nat, bodies : Nat] BY <2>3, <2>6
    <3> QED BY <1>0, <1>4, <2>2, <3>3, <3>4 DEF NextLine, flags, ReplayVarTypes
  <2>7. CASE /\ process_line(SubSeq(file["raw"].tail, read.bodies + 1, Len(file["raw"].tail)))
             /\ read' = [read EXCEPT !.bodies = Len(file["raw"].tail)]
    <3>1. mine' \in Mine /\ at' \in At /\ (at' \in Process => mine'.req \in Requests)
      BY <2>4, <2>5, <2>7
    <3>2. Len(file["raw"].tail) \in Nat BY <2>5 DEF Line
    <3>3. read' \in [lines : Nat, bodies : Nat] BY <1>0, <2>7, <3>2 DEF ReplayVarTypes
    <3> QED BY <1>0, <1>4, <2>2, <3>1, <3>3 DEF NextLine, flags, ReplayVarTypes
  <2> QED BY <1>4, <2>6, <2>7 DEF NextLine
<1>5. CASE EndOfLog
  <2>1. UNCHANGED vars BY <1>5 DEF EndOfLog
  <2>2. TypeOK' BY <2>1, <1>0, TypeStep
  <2>3. exact' \in BOOLEAN BY <1>5, <1>b DEF EndOfLog
  <2> QED BY <1>0, <1>5, <2>2, <2>3 DEF EndOfLog, ReplayVarTypes, At, Process
<1>6. CASE ReplayText
  <2>0. at \in Derived /\ mine \in Mine BY <1>0, <1>6 DEF ReplayText, ReplayVarTypes
  <2>1. at \in Process BY <2>0 DEF Derived, FileName, Process
  <2> DEFINE t == IF at = "pre" THEN mine.snap ELSE <<mine.req>>
  <2>2. t \in Line
    <3>1. mine.req \in Requests /\ mine.snap \in Line BY <1>0, <2>0, <2>1 DEF ReplayVarTypes, Mine
    <3>2. <<mine.req>> \in Line BY <3>1 DEF Line
    <3> QED BY <3>1, <3>2
  <2>3. file' = [file EXCEPT ![at] = [lines |-> file[at].lines, tail |-> file[at].tail \o t]]
    BY <1>6 DEF ReplayText
  <2> HIDE DEF t
  <2>4. file[at] \in File BY <1>a, <2>0 DEF Files
  <2>6. [lines |-> file[at].lines, tail |-> file[at].tail \o t] \in File
    BY <2>2, <2>4, TextAppended
  <2>7. file' \in Files BY <1>a, <2>3, <2>6 DEF Files
  <2>8. TypeOK' BY <1>0, <1>6, <1>a, <2>7, FilesType DEF ReplayText
  <2>9. mine' = [mine EXCEPT !.half = TRUE] /\ missing' = missing \ {at}
    BY <1>6 DEF ReplayText
  <2>10. mine' \in Mine /\ mine'.req = mine.req BY <2>0, <2>9 DEF Mine
  <2> QED BY <1>0, <1>6, <2>8, <2>9, <2>10 DEF ReplayText, flags, ReplayVarTypes
<1>7. CASE ReplayNewline
  <2>0. at \in Derived /\ mine \in Mine BY <1>0, <1>7 DEF ReplayNewline, ReplayVarTypes
  <2>1. at \in Process BY <2>0 DEF Derived, FileName, Process
  <2>2. file[at] \in File BY <1>a, <2>0 DEF Files
  <2>3. [lines |-> Append(file[at].lines, file[at].tail), tail |-> <<>>] \in File
    BY <2>2, TailTerminated
  <2>4. file' \in Files BY <1>a, <1>7, <2>3 DEF Files, ReplayNewline
  <2>5. TypeOK' BY <1>0, <1>7, <1>a, <2>4, FilesType DEF ReplayNewline
  <2>6. mine' = [mine EXCEPT !.half = FALSE] BY <1>7 DEF ReplayNewline
  <2>7. mine' \in Mine /\ mine'.req = mine.req BY <2>0, <2>6 DEF Mine
  <2>8. mine'.req \in Requests BY <1>0, <2>1, <2>7 DEF ReplayVarTypes
  <2>9. at' \in At
    <3>1. at \in {"main", "sub", "pre", "comp"} BY <2>0 DEF Derived, FileName
    <3>2. CASE at \in {"main", "sub"} BY <1>7, <3>2 DEF ReplayNewline, At, Process
    <3>3. CASE at = "pre" BY <1>7, <3>3 DEF ReplayNewline, At, Process
    <3>4. CASE at = "comp" BY <1>7, <3>4 DEF ReplayNewline, At, Process
    <3> QED BY <3>1, <3>2, <3>3, <3>4
  <2> QED BY <1>0, <1>7, <2>5, <2>7, <2>8, <2>9 DEF ReplayNewline, flags, ReplayVarTypes
<1>8. ASSUME NEW from, NEW to, Compacting(from, to), from \in Process, to \in At,
             mine' \in Mine, mine'.req = mine.req, file' \in Files,
             refs' \subseteq [req : Requests, line : Nat, snap : Line]
      PROVE  TypeOK' /\ ReplayVarTypes'
  <2>1. TypeOK' BY <1>0, <1>8, <1>a, FilesType DEF Compacting
  <2>2. mine'.req \in Requests BY <1>0, <1>8 DEF Compacting, ReplayVarTypes
  <2> QED BY <1>0, <1>8, <2>1, <2>2 DEF Compacting, flags, ReplayVarTypes
<1>9. mine \in Mine /\ read_last_line(file["main"]) \in Line /\ Len(AllLines(file["pre"])) \in Nat
  BY <1>0, <1>a, LastLineOfFile, AllLinesType DEF ReplayVarTypes
<1>10. CASE ReplayCapture
  <2>1. mine' = [mine EXCEPT !.snap = read_last_line(file["main"])] /\ UNCHANGED <<file, refs>>
    BY <1>10 DEF ReplayCapture
  <2>2. mine' \in Mine /\ mine'.req = mine.req BY <1>9, <2>1 DEF Mine
  <2>3. CASE read_last_line(file["main"]) = <<>>
    BY <1>8, <1>10, <1>a, <2>1, <2>2, <2>3 DEF ReplayCapture, At, Process
  <2>4. CASE read_last_line(file["main"]) # <<>>
    BY <1>8, <1>10, <1>a, <2>1, <2>2, <2>4 DEF ReplayCapture, At, Process
  <2> QED BY <2>3, <2>4
<1>11. CASE ReplayCount
  <2>1. mine' = [mine EXCEPT !.line = Len(AllLines(file["pre"]))] /\ UNCHANGED <<file, refs>>
    BY <1>11 DEF ReplayCount
  <2>2. mine' \in Mine /\ mine'.req = mine.req BY <1>9, <2>1 DEF Mine
  <2> QED BY <1>8, <1>11, <1>a, <2>1, <2>2 DEF ReplayCount, At, Process
<1>12. CASE ReplayTruncateRead
  <2>1. mine' = [mine EXCEPT !.keep = read_last_line(file["main"])] /\ UNCHANGED <<file, refs>>
    BY <1>12 DEF ReplayTruncateRead
  <2>2. mine' \in Mine /\ mine'.req = mine.req BY <1>9, <2>1 DEF Mine
  <2>3. CASE read_last_line(file["main"]) = <<>>
    BY <1>8, <1>12, <1>a, <2>1, <2>2, <2>3 DEF ReplayTruncateRead, At, Process
  <2>4. CASE read_last_line(file["main"]) # <<>>
    BY <1>8, <1>12, <1>a, <2>1, <2>2, <2>4 DEF ReplayTruncateRead, At, Process
  <2> QED BY <2>3, <2>4
<1>13. CASE ReplayTruncateOpen
  <2>1. file' = [file EXCEPT !["main"] = EmptyFile] /\ UNCHANGED <<mine, refs>>
    BY <1>13 DEF ReplayTruncateOpen
  <2>2. file' \in Files BY <1>a, <2>1, EmptyFileType DEF Files
  <2> QED BY <1>8, <1>9, <1>13, <1>a, <2>1, <2>2 DEF ReplayTruncateOpen, At, Process
<1>14. CASE ReplayTruncateWrite
  <2>1. PICK f \in Overwrites(file["main"], mine.keep) : file' = [file EXCEPT !["main"] = f]
    BY <1>14 DEF ReplayTruncateWrite
  <2>2. mine.keep \in Line BY <1>9 DEF Mine
  <2>3. f \in File BY <1>a, <2>1, <2>2, OverwritesFile
  <2>4. file' \in Files BY <1>a, <2>1, <2>3 DEF Files
  <2>5. UNCHANGED <<mine, refs>> BY <1>14 DEF ReplayTruncateWrite
  <2> QED BY <1>8, <1>9, <1>14, <1>a, <2>4, <2>5 DEF ReplayTruncateWrite, At, Process
<1>15. CASE ReplayEmit
  <2>1. at = "emit" /\ UNCHANGED <<mine, file>> BY <1>15 DEF ReplayEmit, Compacting
  <2>2. mine.req \in Requests /\ mine.line \in Nat /\ mine.snap \in Line
    BY <1>0, <1>9, <2>1 DEF ReplayVarTypes, Mine, Process
  <2>3. refs' \subseteq [req : Requests, line : Nat, snap : Line]
    BY <1>15, <1>a, <2>2 DEF ReplayEmit
  <2> QED BY <1>8, <1>9, <1>15, <1>a, <2>1, <2>3 DEF ReplayEmit, At, Process
<1>16. CASE ReplayFault
  <2>1. faults' \in 0..MaxFaults BY <1>16, <1>a, BoundAssumption DEF ReplayFault
  <2>2. TypeOK' BY <1>0, <1>16, <1>a, <2>1, FilesType DEF ReplayFault
  <2>3. at' \in {"off", "next"} BY <1>16 DEF ReplayFault
  <2>4. exact' = FALSE /\ spotless' = FALSE /\ alone' = FALSE BY <1>16 DEF ReplayFault, Spoiled
  <2> QED BY <1>0, <1>16, <2>2, <2>3, <2>4, NothingType DEF ReplayFault, ReplayVarTypes, At, Process
<1> QED BY <1>1, <1>2, <1>3, <1>4, <1>5, <1>6, <1>7, <1>10, <1>11, <1>12, <1>13, <1>14,
    <1>15, <1>16 DEF ReplayStep

\* Every step keeps the types.
LEMMA ReplayTypeStep == ReplayTypes /\ [ReplayNext]_allVars => ReplayTypes'
<1> SUFFICES ASSUME ReplayTypes, [ReplayNext]_allVars PROVE ReplayTypes'
  OBVIOUS
<1>1. CASE \E r \in Requests : LiveStart(r) \/ LiveStep(r) \/ MovedStep(r) \/ OpenMissing(r)
                                \/ LiveFault(r)
  BY <1>1, LiveTypes
<1>2. CASE LiveCrash
  <2>1. PICK r \in Requests : TRUE BY <1>2 DEF LiveCrash, Crash
  <2> QED BY <1>2, <2>1, LiveTypes
<1>3. CASE Begin \/ ReplayStep \/ ReplayFault BY <1>3, ProcessTypes
<1>4. CASE UNCHANGED allVars
  <2>1. UNCHANGED vars /\ UNCHANGED replayVars BY <1>4 DEF allVars
  <2>2. TypeOK' BY <2>1, TypeStep DEF ReplayTypes
  <2> QED BY <2>1, <2>2 DEF ReplayTypes, replayVars
<1> QED BY <1>1, <1>2, <1>3, <1>4 DEF ReplayNext

-----------------------------------------------------------------------------
(* Where the handlers and the replay stand *)

\* A step of a handler leaves the others where they are.
Others(r) ==
  \A q \in Requests \ {r} :
    pc'[q] = pc[q] /\ half'[q] = half[q] /\ snap'[q] = snap[q] /\ keep'[q] = keep[q] /\ line'[q] = line[q]

\* A step of one handler leaves the others where they are.
LEMMA HandlerAlone ==
  ASSUME TypeOK, NEW r \in Requests,
         Start(r) \/ Handler(r) \/ Fault(r) \/ MovedStep(r) \/ OpenMissing(r)
  PROVE  Others(r)
<1> USE DEF Goto, locals, Others, TypeOK
<1>1. CASE Start(r) BY <1>1 DEF Start
<1>2. CASE WriteText(r) BY <1>2 DEF WriteText
<1>3. CASE WriteNewline(r) BY <1>3 DEF WriteNewline
<1>4. CASE CaptureRead(r) BY <1>4 DEF CaptureRead
<1>5. CASE CountLines(r) BY <1>5 DEF CountLines
<1>6. CASE TruncateRead(r) BY <1>6 DEF TruncateRead
<1>7. CASE TruncateOpen(r) BY <1>7 DEF TruncateOpen
<1>8. CASE TruncateWrite(r) BY <1>8 DEF TruncateWrite
<1>9. CASE Emit(r) BY <1>9 DEF Emit
<1>10. CASE Forward(r) BY <1>10 DEF Forward
<1>11. CASE Fault(r) BY <1>11 DEF Fault
<1>12. CASE MovedStep(r) BY <1>12 DEF MovedStep
<1>13. CASE OpenMissing(r) BY <1>13 DEF OpenMissing
<1> QED BY <1>1, <1>2, <1>3, <1>4, <1>5, <1>6, <1>7, <1>8, <1>9, <1>10, <1>11, <1>12, <1>13
    DEF Handler

\* Where one step of r leads, and what it leaves of r's write.
LEMMA HandlerGoes ==
  ASSUME TypeOK, Control, NEW r \in Requests,
         Start(r) \/ Handler(r) \/ Fault(r) \/ MovedStep(r) \/ OpenMissing(r)
  PROVE  /\ half'[r] => pc'[r] \in FileName
         /\ pc'[r] # "idle"
         /\ (half'[r] /\ pc'[r] = pc[r]) \/ ~half'[r]
<1> USE DEF Goto, locals, TypeOK
<1>0. half[r] => pc[r] \in FileName BY DEF Control
<1>1. CASE Start(r) BY <1>0, <1>1 DEF Start, FileName
<1>2. CASE WriteText(r) BY <1>0, <1>2 DEF WriteText, FileName
<1>3. CASE WriteNewline(r)
  <2>1. half'[r] = FALSE /\ pc'[r] = After(r) BY <1>3 DEF WriteNewline
  <2> QED BY <2>1 DEF After
<1>4. CASE CaptureRead(r) BY <1>0, <1>4 DEF CaptureRead, FileName
<1>5. CASE CountLines(r) BY <1>0, <1>5 DEF CountLines, FileName
<1>6. CASE TruncateRead(r) BY <1>0, <1>6 DEF TruncateRead, FileName
<1>7. CASE TruncateOpen(r) BY <1>0, <1>7 DEF TruncateOpen, FileName
<1>8. CASE TruncateWrite(r) BY <1>0, <1>8 DEF TruncateWrite, FileName
<1>9. CASE Emit(r) BY <1>0, <1>9 DEF Emit, FileName
<1>10. CASE Forward(r) BY <1>0, <1>10 DEF Forward, FileName
<1>11. CASE Fault(r) BY <1>0, <1>11 DEF Fault
<1>12. CASE MovedStep(r)
  <2>1. half'[r] = FALSE /\ pc'[r] = IF pc[r] = "trunc_write" THEN "emit" ELSE After(r)
    BY <1>12 DEF MovedStep
  <2> QED BY <2>1 DEF After
<1>13. CASE OpenMissing(r)
  <2>1. ~half[r] BY <1>0, <1>13 DEF OpenMissing, FileName
  <2> QED BY <1>13, <2>1 DEF OpenMissing
<1> QED BY <1>1, <1>2, <1>3, <1>4, <1>5, <1>6, <1>7, <1>8, <1>9, <1>10, <1>11, <1>12, <1>13
    DEF Handler

\* The handlers keep the control states.
LEMMA ControlLive ==
  ASSUME TypeOK, Control, NEW r \in Requests, UNCHANGED <<at, mine>>,
         Start(r) \/ Handler(r) \/ Fault(r) \/ MovedStep(r) \/ OpenMissing(r),
         moved' \subseteq moved, r \in moved' => UNCHANGED <<pc, half>> \/ r \notin moved
  PROVE  Control'
<1>1. Others(r) BY HandlerAlone
<1>2. (half'[r] => pc'[r] \in FileName) /\ pc'[r] # "idle" BY HandlerGoes
<1>3. (mine.half => at \in Derived)' BY DEF Control
<1>4. ASSUME NEW q \in Requests
      PROVE  /\ half'[q] => pc'[q] \in FileName
             /\ pc'[q] = "idle" => line'[q] = 0
             /\ q \in moved' => (half'[q] /\ pc'[q] \in Derived) \/ pc'[q] = "trunc_write"
  <2>1. CASE q = r BY <1>2, <2>1 DEF Control
  <2>2. CASE q # r BY <1>1, <2>2 DEF Control, Others
  <2> QED BY <2>1, <2>2
<1> QED BY <1>3, <1>4 DEF Control

\* Every step keeps the control states.
LEMMA ControlStep ==
  ASSUME ReplayTypes, Control, [ReplayNext]_allVars
  PROVE  Control'
<1>0. TypeOK /\ left \in Seq(Derived) /\ mine \in Mine BY DEF ReplayTypes
<1>1. ASSUME NEW r \in Requests, LiveStart(r) \/ LiveStep(r) \/ LiveFault(r) PROVE Control'
  <2>1. CASE LiveStart(r)
    <3>1. r \notin moved
      <4>1. pc[r] = "idle" BY <2>1 DEF LiveStart, Start
      <4>2. ~half[r] BY <4>1 DEF Control, FileName
      <4> QED BY <4>1, <4>2 DEF Control
    <3> QED BY <1>0, <2>1, <3>1, ControlLive DEF LiveStart, process
  <2>2. CASE LiveStep(r) BY <1>0, <2>2, ControlLive DEF LiveStep, process
  <2>3. CASE LiveFault(r) BY <1>0, <2>3, ControlLive DEF LiveFault, process
  <2> QED BY <1>1, <2>1, <2>2, <2>3
<1>2. ASSUME NEW r \in Requests, MovedStep(r) PROVE Control'
  BY <1>0, <1>2, ControlLive DEF MovedStep, process
<1>3. ASSUME NEW r \in Requests, OpenMissing(r) PROVE Control'
  <2>1. r \notin moved
    <3>1. pc[r] = "trunc_open" BY <1>3 DEF OpenMissing
    <3> QED BY <3>1 DEF Control, Derived, FileName
  <2> QED BY <1>0, <1>3, <2>1, ControlLive DEF OpenMissing, replayVars
<1>4. CASE LiveCrash
  <2>1. moved' = {} /\ UNCHANGED <<at, mine, line>> /\ (\A r \in Requests : ~half'[r])
    BY <1>4 DEF LiveCrash, Crash, process
  <2>2. \A r \in Requests : pc'[r] = "idle" => pc[r] = "idle"
    BY <1>0, <1>4 DEF LiveCrash, Crash, TypeOK
  <2> QED BY <2>1, <2>2 DEF Control
<1>5. ASSUME UNCHANGED <<pc, half, line>>, moved' = moved, mine'.half => at' \in Derived PROVE Control'
  BY <1>5 DEF Control
<1>6. CASE Begin BY <1>5, <1>6 DEF Begin, vars, Nothing
<1>7. CASE archive_derived_files
  <2>1. UNCHANGED <<pc, half, line, mine>> /\ at = "archive"
    BY <1>7 DEF archive_derived_files, live, locals
  <2>2. ~mine.half BY <2>1 DEF Control, Derived, FileName
  <2>3. CASE left = <<>> BY <1>5, <1>7, <2>1, <2>2, <2>3 DEF archive_derived_files
  <2>4. CASE left # <<>>
    <3>1. Head(left) \in Derived BY <1>0, <2>4, HeadTailProperties
    <3>2. moved' = moved \cup {r \in Requests : half[r] /\ pc[r] = Head(left)}
                         \cup {r \in Requests : Head(left) = "main" /\ pc[r] = "trunc_write"}
      BY <1>7, <2>4 DEF archive_derived_files
    <3> QED BY <2>1, <2>2, <3>1, <3>2 DEF Control
  <2> QED BY <2>3, <2>4
<1>8. CASE spawn_watcher
  <2>1. ~mine.half BY <1>8 DEF spawn_watcher, Control, Derived, FileName
  <2> QED BY <1>5, <1>8, <2>1 DEF spawn_watcher, vars
<1>9. CASE NextLine
  <2>1. UNCHANGED <<pc, half, line, moved>> /\ at = "next" BY <1>9 DEF NextLine, vars
  <2>2. ~mine.half BY <2>1 DEF Control, Derived, FileName
  <2>3. \A t : process_line(t) => ~mine'.half
    <3>1. \A q : [Nothing EXCEPT !.req = q].half = FALSE BY DEF Nothing
    <3> QED BY <2>2, <3>1 DEF process_line
  <2>4. ~mine'.half BY <1>9, <2>3 DEF NextLine
  <2> QED BY <1>5, <2>1, <2>4
<1>10. CASE EndOfLog
  <2>1. ~mine.half BY <1>10 DEF EndOfLog, Control, Derived, FileName
  <2> QED BY <1>5, <1>10, <2>1 DEF EndOfLog, vars
<1>11. CASE ReplayText
  BY <1>5, <1>11 DEF ReplayText, live, locals
<1>12. CASE ReplayNewline
  <2>1. mine'.half = FALSE BY <1>0, <1>12 DEF ReplayNewline, Mine
  <2> QED BY <1>5, <1>12, <2>1 DEF ReplayNewline, live, locals
<1>13. ASSUME NEW from, NEW to, Compacting(from, to), from \notin Derived, mine'.half = mine.half
       PROVE  Control'
  BY <1>5, <1>13 DEF Compacting, live, locals, Control
<1>14. CASE ReplayCapture
  BY <1>0, <1>13, <1>14 DEF ReplayCapture, Mine, Derived, FileName
<1>15. CASE ReplayCount
  BY <1>0, <1>13, <1>15 DEF ReplayCount, Mine, Derived, FileName
<1>16. CASE ReplayTruncateRead
  BY <1>0, <1>13, <1>16 DEF ReplayTruncateRead, Mine, Derived, FileName
<1>17. CASE ReplayTruncateOpen
  BY <1>13, <1>17 DEF ReplayTruncateOpen, Derived, FileName
<1>18. CASE ReplayTruncateWrite
  BY <1>13, <1>18 DEF ReplayTruncateWrite, Derived, FileName
<1>19. CASE ReplayEmit
  BY <1>13, <1>19 DEF ReplayEmit, Derived, FileName
<1>20. CASE ReplayFault
  BY <1>5, <1>20 DEF ReplayFault, live, locals, Nothing
<1>21. CASE UNCHANGED allVars
  BY <1>5, <1>21 DEF allVars, vars, replayVars, Control
<1> QED BY <1>1, <1>2, <1>3, <1>4, <1>6, <1>7, <1>8, <1>9, <1>10, <1>11, <1>12, <1>14, <1>15,
    <1>16, <1>17, <1>18, <1>19, <1>20, <1>21 DEF ReplayNext, ReplayStep

-----------------------------------------------------------------------------
(* Files that do not exist *)

\* Steps that touch no file, and begin no write, keep the invariant.
LEMMA MissingKept ==
  ASSUME MissingInv, UNCHANGED <<file, missing>>,
         \A q \in Requests \ moved' :
           /\ half'[q] => q \notin moved /\ half[q] /\ pc'[q] = pc[q]
           /\ pc'[q] = "trunc_write" => q \notin moved /\ pc[q] = "trunc_write",
         mine'.half => at' \notin missing,
         at' \in {"trunc_open", "trunc_write"} => "main" \notin missing
  PROVE  MissingInv'
BY DEF MissingInv

\* A write by a handler or the replay to a file that exists afterwards.
LEMMA MissingWrite ==
  ASSUME MissingInv, NEW f, missing' \subseteq missing, f \notin missing',
         \A g \in missing' : g # f => file'[g] = file[g],
         moved' = moved,
         \A q \in Requests \ moved :
           /\ half'[q] => pc'[q] = f \/ (half[q] /\ pc'[q] = pc[q])
           /\ pc'[q] = "trunc_write" => f = "main" \/ pc[q] = "trunc_write",
         mine'.half => at' = f \/ (mine.half /\ at' = at),
         at' \in {"trunc_open", "trunc_write"} => f = "main" \/ at \in {"trunc_open", "trunc_write"}
  PROVE  MissingInv'
BY DEF MissingInv

\* The handlers write no file that does not exist.
LEMMA MissingLive ==
  ASSUME ReplayTypes, Control, MissingInv, NEW r \in Requests, LiveStep(r)
  PROVE  MissingInv'
<1>0. TypeOK /\ missing \subseteq Derived /\ file \in Files BY DEF ReplayTypes, TypeOK, Files
<1>1. /\ r \notin moved /\ missing' = missing \ Creates(r)
      /\ UNCHANGED <<at, mine, moved>>
      /\ ~(pc[r] = "trunc_open" /\ "main" \in missing)
  BY DEF LiveStep, process
<1>2. Others(r) BY <1>0, HandlerAlone DEF LiveStep
<1>a. mine.half => at \notin missing BY DEF MissingInv
<1>b. at \in {"trunc_open", "trunc_write"} => "main" \notin missing BY DEF MissingInv
<1>3. CASE WriteText(r)
  <2>1. pc[r] \in FileName /\ ~half[r] /\ pc' = pc BY <1>3 DEF WriteText
  <2>2. Creates(r) = {pc[r]} BY <2>1 DEF Creates
  <2>3. \A g \in missing' : g # pc[r] => file'[g] = file[g]
    BY <1>0, <1>1, <1>3 DEF WriteText, Files, Derived
  <2>4. \A q \in Requests \ moved : half'[q] => pc'[q] = pc[r] \/ (half[q] /\ pc'[q] = pc[q])
    BY <1>2, <2>1 DEF Others
  <2>5. /\ missing' \subseteq missing /\ pc[r] \notin missing' /\ moved' = moved
        /\ \A q \in Requests \ moved : pc'[q] = "trunc_write" => pc[q] = "trunc_write"
        /\ mine'.half => mine.half /\ at' = at
        /\ at' \in {"trunc_open", "trunc_write"} => at \in {"trunc_open", "trunc_write"}
    BY <1>1, <2>1, <2>2
  <2> QED BY <2>3, <2>4, <2>5, MissingWrite
<1>4. ASSUME Creates(r) = {}, ~half'[r], pc'[r] # "trunc_write", UNCHANGED file
      PROVE  MissingInv'
  <2>1. missing' = missing BY <1>1, <1>4
  <2>2. \A q \in Requests \ moved' :
           /\ half'[q] => q \notin moved /\ half[q] /\ pc'[q] = pc[q]
           /\ pc'[q] = "trunc_write" => q \notin moved /\ pc[q] = "trunc_write"
    BY <1>1, <1>2, <1>4 DEF Others
  <2> QED BY <1>1, <1>4, <1>a, <1>b, <2>1, <2>2, MissingKept
<1>5. ASSUME NEW f, f \notin missing, Creates(r) = {}, ~half'[r],
             pc'[r] = "trunc_write" => f = "main",
             \A g \in FileName \ {f} : file'[g] = file[g]
      PROVE  MissingInv'
  <2>1. missing' = missing BY <1>1, <1>5
  <2>2. \A g \in missing' : g # f => file'[g] = file[g]
    BY <1>0, <1>5, <2>1 DEF Derived
  <2>3. \A q \in Requests \ moved :
           /\ half'[q] => half[q] /\ pc'[q] = pc[q]
           /\ pc'[q] = "trunc_write" => f = "main" \/ pc[q] = "trunc_write"
    BY <1>2, <1>5 DEF Others
  <2>4. /\ mine'.half => mine.half /\ at' = at
        /\ at' \in {"trunc_open", "trunc_write"} => at \in {"trunc_open", "trunc_write"}
    BY <1>1
  <2> QED BY <1>1, <1>5, <2>1, <2>2, <2>3, <2>4, MissingWrite
<1>6. CASE WriteNewline(r)
  <2>1. half[r] /\ pc[r] \in FileName BY <1>6 DEF WriteNewline, Control
  <2>2. pc[r] \notin missing BY <1>1, <2>1 DEF MissingInv
  <2>3. Creates(r) = {} BY <2>1 DEF Creates
  <2>4. half'[r] = FALSE /\ pc'[r] = After(r) BY <1>0, <1>6 DEF WriteNewline, Goto, TypeOK
  <2>5. pc'[r] # "trunc_write" BY <2>4 DEF After
  <2>6. \A g \in FileName \ {pc[r]} : file'[g] = file[g] BY <1>0, <1>6 DEF WriteNewline, Files
  <2> QED BY <1>5, <2>2, <2>3, <2>4, <2>5, <2>6
<1>7. ASSUME pc[r] \notin FileName PROVE Creates(r) = {} /\ ~half[r]
  BY <1>7 DEF Creates, Control
<1>8. CASE CaptureRead(r)
  <2>1. pc[r] = "capture" /\ UNCHANGED <<file, half>> /\ pc'[r] \in {"comp", "pre"}
    BY <1>0, <1>8 DEF CaptureRead, Goto, TypeOK
  <2>2. pc[r] \notin FileName BY <2>1 DEF FileName
  <2> QED BY <1>4, <1>7, <2>1, <2>2
<1>9. CASE CountLines(r)
  <2>1. pc[r] = "count" /\ UNCHANGED <<file, half>> /\ pc'[r] = "comp"
    BY <1>0, <1>9 DEF CountLines, Goto, TypeOK
  <2>2. pc[r] \notin FileName BY <2>1 DEF FileName
  <2> QED BY <1>4, <1>7, <2>1, <2>2
<1>10. CASE TruncateRead(r)
  <2>1. pc[r] = "trunc_read" /\ UNCHANGED <<file, half>> /\ pc'[r] \in {"emit", "trunc_open"}
    BY <1>0, <1>10 DEF TruncateRead, Goto, TypeOK
  <2>2. pc[r] \notin FileName BY <2>1 DEF FileName
  <2> QED BY <1>4, <1>7, <2>1, <2>2
<1>11. CASE TruncateOpen(r)
  <2>1. pc[r] = "trunc_open" /\ UNCHANGED half /\ file' = [file EXCEPT !["main"] = EmptyFile]
    BY <1>11 DEF TruncateOpen, locals
  <2>2. pc[r] \notin FileName BY <2>1 DEF FileName
  <2>3. "main" \notin missing BY <1>1, <2>1
  <2>4. \A g \in FileName \ {"main"} : file'[g] = file[g] BY <1>0, <2>1 DEF Files
  <2> QED BY <1>5, <1>7, <2>1, <2>2, <2>3, <2>4
<1>12. CASE TruncateWrite(r)
  <2>1. pc[r] = "trunc_write" /\ UNCHANGED half /\ pc'[r] = "emit"
        /\ \E f : file' = [file EXCEPT !["main"] = f]
    BY <1>0, <1>12 DEF TruncateWrite, locals, Goto, TypeOK
  <2>2. pc[r] \notin FileName BY <2>1 DEF FileName
  <2>3. "main" \notin missing BY <1>1, <2>1 DEF MissingInv
  <2>4. \A g \in FileName \ {"main"} : file'[g] = file[g] BY <1>0, <2>1 DEF Files
  <2> QED BY <1>5, <1>7, <2>1, <2>2, <2>3, <2>4
<1>13. CASE Emit(r)
  <2>1. pc[r] = "emit" /\ UNCHANGED <<file, half>> /\ pc'[r] = "forward"
    BY <1>0, <1>13 DEF Emit, Goto, TypeOK
  <2>2. pc[r] \notin FileName BY <2>1 DEF FileName
  <2> QED BY <1>4, <1>7, <2>1, <2>2
<1>14. CASE Forward(r)
  <2>1. pc[r] = "forward" /\ UNCHANGED <<file, half>> /\ pc'[r] = "done"
    BY <1>0, <1>14 DEF Forward, Goto, TypeOK, locals
  <2>2. pc[r] \notin FileName BY <2>1 DEF FileName
  <2> QED BY <1>4, <1>7, <2>1, <2>2
<1> QED BY <1>3, <1>6, <1>8, <1>9, <1>10, <1>11, <1>12, <1>13, <1>14 DEF LiveStep, Handler

\* No step writes to a file that does not exist.
LEMMA MissingStep ==
  ASSUME ReplayTypes, Control, MissingInv, [ReplayNext]_allVars
  PROVE  MissingInv'
<1>0. /\ TypeOK /\ missing \subseteq Derived /\ file \in Files /\ left \in Seq(Derived)
      /\ mine \in Mine
  BY DEF ReplayTypes, TypeOK, Files
<1>a. mine.half => at \notin missing /\ at \in Derived BY DEF MissingInv, Control
<1>b. at \in {"trunc_open", "trunc_write"} => "main" \notin missing BY DEF MissingInv
<1>1. ASSUME NEW r \in Requests, Start(r) \/ Fault(r) \/ MovedStep(r) \/ OpenMissing(r),
             UNCHANGED <<file, missing, at, mine>>, moved' = moved \ {r} \/ moved' = moved
      PROVE  MissingInv'
  <2>1. Others(r) BY <1>0, <1>1, HandlerAlone
  <2>2. ~half'[r] /\ pc'[r] # "trunc_write"
    <3>1. CASE Start(r)
      <4>1. ~half[r] /\ UNCHANGED half BY <3>1 DEF Start, Control, FileName, locals
      <4> QED BY <1>0, <3>1, <4>1 DEF Start, Goto, TypeOK
    <3>2. CASE Fault(r) BY <1>0, <3>2 DEF Fault, Goto, TypeOK
    <3>3. CASE MovedStep(r)
      <4>1. half'[r] = FALSE /\ pc'[r] = IF pc[r] = "trunc_write" THEN "emit" ELSE After(r)
        BY <1>0, <3>3 DEF MovedStep, Goto, TypeOK
      <4> QED BY <4>1 DEF After
    <3>4. CASE OpenMissing(r)
      <4>1. ~half[r] /\ UNCHANGED half BY <3>4 DEF OpenMissing, Control, FileName, locals
      <4> QED BY <1>0, <3>4, <4>1 DEF OpenMissing, Goto, TypeOK
    <3> QED BY <1>1, <3>1, <3>2, <3>3, <3>4
  <2>3. \A q \in Requests \ moved' :
           /\ half'[q] => q \notin moved /\ half[q] /\ pc'[q] = pc[q]
           /\ pc'[q] = "trunc_write" => q \notin moved /\ pc[q] = "trunc_write"
    BY <1>1, <2>1, <2>2 DEF Others
  <2> QED BY <1>1, <1>a, <1>b, <2>3, MissingKept
<1>2. CASE \E r \in Requests : LiveStart(r)
  BY <1>1, <1>2 DEF LiveStart, Start, process
<1>3. CASE \E r \in Requests : LiveStep(r) BY <1>3, MissingLive
<1>4. CASE \E r \in Requests : LiveFault(r)
  BY <1>1, <1>4 DEF LiveFault, Fault, process
<1>5. CASE \E r \in Requests : MovedStep(r)
  BY <1>1, <1>5 DEF MovedStep, process
<1>6. CASE \E r \in Requests : OpenMissing(r)
  BY <1>1, <1>6 DEF OpenMissing, replayVars
<1>7. CASE LiveCrash
  <2>1. \A r \in Requests : ~half'[r] /\ pc'[r] # "trunc_write"
    BY <1>0, <1>7 DEF LiveCrash, Crash, TypeOK, Active, Writing
  <2>2. UNCHANGED <<file, missing, at, mine>> BY <1>7 DEF LiveCrash, Crash, process
  <2> QED BY <1>a, <1>b, <2>1, <2>2, MissingKept
<1>8. ASSUME UNCHANGED <<file, missing, pc, half, moved>>,
             mine'.half => at' \notin missing,
             at' \in {"trunc_open", "trunc_write"} => "main" \notin missing
      PROVE  MissingInv'
  BY <1>8, MissingKept
<1>9. CASE Begin BY <1>8, <1>9 DEF Begin, vars, Nothing
<1>10. CASE archive_derived_files
  <2>1. UNCHANGED <<pc, half, mine>> /\ at = "archive"
    BY <1>10 DEF archive_derived_files, live, locals
  <2>2. ~mine.half BY <2>1, <1>a DEF Derived, FileName
  <2>3. CASE left = <<>>
    BY <1>8, <1>10, <2>1, <2>2, <2>3 DEF archive_derived_files
  <2>4. CASE left # <<>>
    <3>1. Head(left) \in Derived BY <1>0, <2>4, HeadTailProperties
    <3>2. /\ at' = at
          /\ file' = [file EXCEPT ![Head(left)] = EmptyFile]
          /\ missing' = missing \cup {Head(left)}
          /\ moved' = moved \cup {r \in Requests : half[r] /\ pc[r] = Head(left)}
                            \cup {r \in Requests : Head(left) = "main" /\ pc[r] = "trunc_write"}
      BY <1>10, <2>4 DEF archive_derived_files
    <3>3. \A f \in missing' : file'[f] = EmptyFile
      BY <1>0, <3>1, <3>2 DEF MissingInv, Files, Derived
    <3>4. \A r \in Requests \ moved' :
             /\ half'[r] => pc'[r] \notin missing'
             /\ pc'[r] = "trunc_write" => "main" \notin missing'
      BY <2>1, <3>2 DEF MissingInv
    <3> QED BY <2>1, <2>2, <3>2, <3>3, <3>4 DEF MissingInv
  <2> QED BY <2>3, <2>4
<1>11. CASE spawn_watcher
  <2>1. ~mine.half BY <1>a, <1>11 DEF spawn_watcher, Derived, FileName
  <2> QED BY <1>8, <1>11, <2>1 DEF spawn_watcher, vars
<1>12. CASE NextLine
  <2>1. UNCHANGED <<file, pc, half, moved, missing>> /\ at = "next" BY <1>12 DEF NextLine, vars
  <2>2. ~mine.half BY <2>1, <1>a DEF Derived, FileName
  <2>3. \A t : process_line(t) => ~mine'.half /\ at' \notin {"trunc_open", "trunc_write"}
    <3>1. \A q : [Nothing EXCEPT !.req = q].half = FALSE BY DEF Nothing
    <3>2. \A q : Route(q) \notin {"trunc_open", "trunc_write"} BY KindOf DEF Route
    <3> QED BY <2>1, <2>2, <3>1, <3>2 DEF process_line
  <2>4. ~mine'.half /\ at' \notin {"trunc_open", "trunc_write"} BY <1>12, <2>3 DEF NextLine
  <2> QED BY <1>8, <2>1, <2>4
<1>13. CASE EndOfLog
  <2>1. ~mine.half BY <1>a, <1>13 DEF EndOfLog, Derived, FileName
  <2> QED BY <1>8, <1>13, <2>1 DEF EndOfLog, vars
<1>14. CASE ReplayText
  <2>1. /\ at \in Derived /\ missing' = missing \ {at} /\ UNCHANGED <<at, pc, half, moved>>
        /\ \E g : file' = [file EXCEPT ![at] = g]
    BY <1>14 DEF ReplayText, live, locals
  <2>2. \A g \in missing' : g # at => file'[g] = file[g] BY <1>0, <2>1 DEF Files, Derived
  <2> QED BY <2>1, <2>2, MissingWrite
<1>15. CASE ReplayNewline
  <2>1. /\ at \in Derived /\ mine.half /\ missing' = missing /\ UNCHANGED <<pc, half, moved>>
        /\ \E g : file' = [file EXCEPT ![at] = g]
        /\ mine'.half = FALSE
    BY <1>0, <1>15 DEF ReplayNewline, live, locals, Mine
  <2>2. \A g \in missing' : g # at => file'[g] = file[g] BY <1>0, <2>1 DEF Files, Derived
  <2>3. at' \notin {"trunc_open", "trunc_write"}
    <3>1. at \in {"main", "sub", "pre", "comp"} BY <2>1 DEF Derived, FileName
    <3>2. CASE at \in {"main", "sub"} BY <1>15, <3>2 DEF ReplayNewline
    <3>3. CASE at = "pre" BY <1>15, <3>3 DEF ReplayNewline
    <3>4. CASE at = "comp" BY <1>15, <3>4 DEF ReplayNewline
    <3> QED BY <3>1, <3>2, <3>3, <3>4
  <2>4. at \notin missing BY <2>1, <1>a
  <2> QED BY <2>1, <2>2, <2>3, <2>4, MissingWrite
<1>16. ASSUME NEW from, NEW to, Compacting(from, to), from \notin Derived
       PROVE  UNCHANGED <<pc, half, moved, missing>> /\ ~mine.half /\ at = from /\ at' = to
  BY <1>a, <1>16 DEF Compacting, live, locals
<1>17. CASE ReplayCapture
  BY <1>0, <1>8, <1>16, <1>17 DEF ReplayCapture, Mine, Derived, FileName
<1>18. CASE ReplayCount
  BY <1>0, <1>8, <1>16, <1>18 DEF ReplayCount, Mine, Derived, FileName
<1>19. CASE ReplayTruncateRead
  <2>1. mine' = [mine EXCEPT !.keep = read_last_line(file["main"])] /\ UNCHANGED file
    BY <1>19 DEF ReplayTruncateRead
  <2>2. UNCHANGED <<pc, half, moved, missing>> /\ ~mine.half
    BY <1>16, <1>19 DEF ReplayTruncateRead, Derived, FileName
  <2>3. ~mine'.half BY <1>0, <2>1, <2>2 DEF Mine
  <2>4. CASE "main" \in missing
    <3>1. file["main"] = EmptyFile BY <2>4 DEF MissingInv
    <3>2. read_last_line(file["main"]) = <<>>
      BY <3>1, EmptyFileType, LastRead DEF EmptyFile
    <3>3. at' = "emit" BY <1>19, <3>2 DEF ReplayTruncateRead, Compacting
    <3> QED BY <1>8, <2>1, <2>2, <2>3, <3>3
  <2> QED BY <1>8, <2>1, <2>2, <2>3, <2>4
<1>20. CASE ReplayTruncateOpen \/ ReplayTruncateWrite
  <2>1. /\ at \in {"trunc_open", "trunc_write"} /\ UNCHANGED <<pc, half, moved, missing, mine>>
        /\ \E g : file' = [file EXCEPT !["main"] = g]
    BY <1>20 DEF ReplayTruncateOpen, ReplayTruncateWrite, Compacting, live, locals
  <2>2. "main" \notin missing /\ ~mine.half BY <1>a, <1>b, <2>1 DEF Derived, FileName
  <2>3. \A g \in missing' : g # "main" => file'[g] = file[g] BY <1>0, <2>1 DEF Files, Derived
  <2> QED BY <2>1, <2>2, <2>3, MissingWrite
<1>21. CASE ReplayEmit
  BY <1>8, <1>16, <1>21 DEF ReplayEmit, Derived, FileName
<1>22. CASE ReplayFault
  BY <1>8, <1>22 DEF ReplayFault, live, locals, Nothing
<1>23. CASE UNCHANGED allVars
  BY <1>8, <1>23, <1>a, <1>b DEF allVars, vars, replayVars
<1> QED BY <1>2, <1>3, <1>4, <1>5, <1>6, <1>7, <1>9, <1>10, <1>11, <1>12, <1>13, <1>14, <1>15,
    <1>17, <1>18, <1>19, <1>20, <1>21, <1>22, <1>23 DEF ReplayNext, ReplayStep

-----------------------------------------------------------------------------
(* What goes wrong is told by the flags *)

\* Only an open handler takes a step.
LEMMA HandlerActive ==
  ASSUME Control, NEW r \in Requests,
         Handler(r) \/ Fault(r) \/ MovedStep(r) \/ OpenMissing(r)
  PROVE  pc[r] \in Active
<1> USE DEF Active, Reading, Writing
<1>0. half[r] => pc[r] \in Active BY DEF Control
<1>1. CASE Handler(r)
  BY <1>0, <1>1 DEF Handler, WriteText, WriteNewline, CaptureRead, CountLines, TruncateRead,
     TruncateOpen, TruncateWrite, Emit, Forward
<1>2. CASE Fault(r) BY <1>2 DEF Fault
<1>3. CASE MovedStep(r) BY <1>0, <1>3 DEF MovedStep, Control
<1>4. CASE OpenMissing(r) BY <1>4 DEF OpenMissing
<1> QED BY <1>1, <1>2, <1>3, <1>4

\* A session without open handlers starts afresh.
LEMMA QuietAfresh ==
  ASSUME Control, Quiet, moved \subseteq Requests
  PROVE  moved = {} /\ OneLoop /\ OneSub
<1>1. \A r \in Requests : ~half[r] /\ pc[r] \notin Active
  BY DEF Control, Quiet, Active, Writing
<1>2. LoopSteps \subseteq Active /\ "sub" \in Active /\ "raw" \in Active /\ "capture" \in Active
      /\ "pre" \in Active /\ "trunc_write" \in Active
  BY DEF LoopSteps, Active, Reading, Writing, FileName
<1>3. moved = {} BY <1>1, <1>2 DEF Control
<1>4. OneLoop BY <1>1, <1>2 DEF OneLoop, Control
<1>5. OneSub BY <1>1, <1>2 DEF OneSub
<1> QED BY <1>3, <1>4, <1>5

\* A step of one handler that was open, or that may open, keeps subagents apart.
LEMMA OneSubMoves ==
  ASSUME OneSub, NEW r \in Requests, \A q \in Requests \ {r} : pc'[q] = pc[q],
         SubsApart => pc[r] \in Active \/
           (\A q \in Requests \ {r} :
              pc[q] \in Active => ~(Kind(q) = "Subagent" /\ Kind(r) = "Subagent")),
         pc'[r] = "sub" => Kind(r) = "Subagent"
  PROVE  OneSub'
<1>1. ASSUME SubsApart,
             NEW p \in Requests, NEW q \in Requests, pc'[p] \in Active, pc'[q] \in Active,
             Kind(p) = "Subagent", Kind(q) = "Subagent"
      PROVE  p = q
  <2>1. CASE p # r /\ q # r BY <1>1, <2>1 DEF OneSub
  <2>2. CASE p = r /\ q # r BY <1>1, <2>2 DEF OneSub
  <2>3. CASE p # r /\ q = r BY <1>1, <2>3 DEF OneSub
  <2>4. CASE p = r /\ q = r BY <2>4
  <2> QED BY <2>1, <2>2, <2>3, <2>4
<1>2. \A p \in Requests : pc'[p] = "sub" => Kind(p) = "Subagent" BY DEF OneSub
<1> QED BY <1>1, <1>2 DEF OneSub

\* A subagent that starts finds no other.
LEMMA SubStart ==
  ASSUME TypeOK, NEW r \in Requests, Start(r), OneSub
  PROVE  OneSub'
<1>1. pc'[r] = "raw" /\ \A q \in Requests \ {r} : pc'[q] = pc[q]
  BY DEF Start, Goto, TypeOK
<1>2. ASSUME SubsApart, NEW q \in Requests \ {r}, pc[q] \in Active,
             Kind(q) = "Subagent", Kind(r) = "Subagent"
      PROVE  FALSE
  <2>1. "Subagent" \in Overlap BY <1>2 DEF Start
  <2> QED BY <1>2, <2>1 DEF SubsApart
<1> QED BY <1>1, <1>2, OneSubMoves

\* The step of an open handler keeps subagents apart.
LEMMA SubHandler ==
  ASSUME TypeOK, Control, NEW r \in Requests, Handler(r) \/ OpenMissing(r), OneSub
  PROVE  OneSub'
<1>1. Others(r) BY HandlerAlone
<1>2. pc[r] \in Active BY HandlerActive
<1>3. pc'[r] = "sub" => Kind(r) = "Subagent"
  <2> USE DEF Goto, TypeOK, locals
  <2>1. CASE WriteText(r) BY <2>1 DEF WriteText, OneSub
  <2>2. CASE WriteNewline(r)
    <3>1. pc'[r] = After(r) BY <2>2 DEF WriteNewline
    <3> QED BY <3>1 DEF After
  <2>3. CASE CaptureRead(r) BY <2>3 DEF CaptureRead
  <2>4. CASE CountLines(r) BY <2>4 DEF CountLines
  <2>5. CASE TruncateRead(r) BY <2>5 DEF TruncateRead
  <2>6. CASE TruncateOpen(r) BY <2>6 DEF TruncateOpen
  <2>7. CASE TruncateWrite(r) BY <2>7 DEF TruncateWrite
  <2>8. CASE Emit(r) BY <2>8 DEF Emit
  <2>9. CASE Forward(r) BY <2>9 DEF Forward
  <2>10. CASE OpenMissing(r) BY <2>10 DEF OpenMissing
  <2> QED BY <2>1, <2>2, <2>3, <2>4, <2>5, <2>6, <2>7, <2>8, <2>9, <2>10 DEF Handler
<1>4. \A q \in Requests \ {r} : pc'[q] = pc[q] BY <1>1 DEF Others
<1> QED BY <1>2, <1>3, <1>4, OneSubMoves

\* A compaction that ends because its log is gone leaves the others alone.
LEMMA LoopMissing ==
  ASSUME TypeOK, Control, NEW r \in Requests, OpenMissing(r), OneLoop
  PROVE  OneLoop'
<1>1. /\ pc[r] = "trunc_open" /\ pc'[r] = "forward" /\ UNCHANGED <<half, line>>
      /\ \A q \in Requests \ {r} : pc'[q] = pc[q]
  BY DEF OpenMissing, Goto, TypeOK, locals
<1>2. pc[r] \in Active BY HandlerActive
<1>3. \A q \in Requests : pc'[q] \in Active => pc[q] \in Active BY <1>1, <1>2
<1>4. \A p, q \in Requests :
       pc'[p] \in Active /\ pc'[q] \in Active /\ Kind(p) \in Loop /\ Kind(q) \in Loop => p = q
  BY <1>3 DEF OneLoop
<1>5. ~half[r] BY <1>1 DEF Control, FileName
<1>6. "forward" \notin LoopSteps /\ "forward" \notin {"idle", "raw", "capture", "pre"}
  BY DEF LoopSteps
<1>7. \A q \in Requests : /\ pc'[q] \in LoopSteps => Kind(q) \in Loop
                          /\ half'[q] => pc'[q] \in FileName
                          /\ pc'[q] \in {"idle", "raw", "capture", "pre"} => line'[q] = 0
  <2>1. \A q \in Requests \ {r} :
           /\ pc[q] \in LoopSteps => Kind(q) \in Loop
           /\ half[q] => pc[q] \in FileName
           /\ pc[q] \in {"idle", "raw", "capture", "pre"} => line[q] = 0
    BY DEF OneLoop
  <2> QED BY <1>1, <1>5, <1>6, <2>1
<1> QED BY <1>4, <1>7 DEF OneLoop

\* The flags say what they are to say.
LEMMA FlagsStep ==
  ASSUME Overlap \cap Loop = {},
         ReplayTypes, Control, Flags, [ReplayNext]_allVars
  PROVE  Flags'
<1>0. /\ TypeOK /\ moved \subseteq Requests
      /\ alone \in BOOLEAN /\ exact \in BOOLEAN /\ spotless \in BOOLEAN
  BY DEF ReplayTypes
<1>a. exact => at = "off" /\ moved = {} /\ OneLoop /\ OneSub BY DEF Flags
<1>b. at # "off" /\ alone => Quiet BY DEF Flags
<1>c. spotless => IF at = "off" THEN exact ELSE alone BY DEF Flags
<1>1. ASSUME NEW r \in Requests, LiveStart(r) PROVE Flags'
  <2>1. /\ Start(r) /\ UNCHANGED <<at, moved, exact>>
        /\ alone' = (alone /\ at = "off") /\ spotless' = (spotless /\ at = "off")
    BY <1>1 DEF LiveStart, process
  <2>2. exact => OneLoop'
    <3>1. Next BY <2>1 DEF Next
    <3> QED BY <1>0, <1>a, <3>1, OneLoopStep
  <2>3. exact => OneSub' BY <1>0, <1>a, <2>1, SubStart
  <2>4. (at # "off" /\ alone => Quiet)' BY <2>1
  <2>5. (spotless => IF at = "off" THEN exact ELSE alone)' BY <1>c, <2>1
  <2> QED BY <1>a, <2>1, <2>2, <2>3, <2>4, <2>5 DEF Flags
<1>2. ASSUME NEW r \in Requests, LiveStep(r) PROVE Flags'
  <2>1. Handler(r) /\ UNCHANGED <<at, moved, alone, exact, spotless>>
    BY <1>2 DEF LiveStep, process, flags
  <2>2. exact => OneLoop'
    <3>1. Next BY <2>1 DEF Next
    <3> QED BY <1>0, <1>a, <3>1, OneLoopStep
  <2>3. exact => OneSub' BY <1>0, <1>a, <2>1, SubHandler
  <2>4. ~(at # "off" /\ alone) BY <1>b, <2>1, HandlerActive DEF Quiet
  <2> QED BY <1>a, <1>c, <2>1, <2>2, <2>3, <2>4 DEF Flags
<1>3. ASSUME NEW r \in Requests, MovedStep(r) PROVE Flags'
  <2>1. r \in moved /\ UNCHANGED <<at, alone, exact, spotless>>
    BY <1>3 DEF MovedStep, process, flags
  <2>2. ~exact BY <1>a, <2>1
  <2>3. ~(at # "off" /\ alone) BY <1>b, <1>3, HandlerActive DEF Quiet
  <2> QED BY <1>c, <2>1, <2>2, <2>3 DEF Flags
<1>4. ASSUME NEW r \in Requests, OpenMissing(r) PROVE Flags'
  <2>1. UNCHANGED <<at, moved, alone, exact, spotless>>
    BY <1>4 DEF OpenMissing, replayVars
  <2>2. exact => OneLoop' /\ OneSub' BY <1>0, <1>4, <1>a, LoopMissing, SubHandler
  <2>3. ~(at # "off" /\ alone) BY <1>b, <1>4, HandlerActive DEF Quiet
  <2> QED BY <1>a, <1>c, <2>1, <2>2, <2>3 DEF Flags
<1>5. ASSUME NEW r \in Requests, LiveFault(r) PROVE Flags'
  <2>1. Fault(r) /\ UNCHANGED <<at, alone>> /\ exact' = FALSE /\ spotless' = FALSE
    BY <1>5 DEF LiveFault, process, Spoiled
  <2>2. ~(at # "off" /\ alone) BY <1>b, <2>1, HandlerActive DEF Quiet
  <2> QED BY <2>1, <2>2 DEF Flags
<1>6. CASE LiveCrash
  <2>1. Crash /\ UNCHANGED <<at, alone>> /\ exact' = FALSE /\ spotless' = FALSE
    BY <1>6 DEF LiveCrash, process, Spoiled
  <2>2. ~(at # "off" /\ alone) BY <1>b, <2>1 DEF Quiet, Crash
  <2> QED BY <2>1, <2>2 DEF Flags
<1>7. CASE Begin
  <2>1. /\ UNCHANGED pc /\ at' = "archive" /\ alone' = Quiet /\ exact' = FALSE
        /\ spotless' = (spotless /\ Quiet)
    BY <1>7 DEF Begin, vars
  <2>2. Quiet' <=> Quiet BY <2>1 DEF Quiet
  <2>3. spotless' => alone' BY <2>1
  <2>4. alone' => Quiet' BY <2>1, <2>2
  <2> QED BY <2>1, <2>3, <2>4 DEF Flags
<1>8. ASSUME UNCHANGED <<pc, alone, exact, spotless>>, at # "off", at' # "off" PROVE Flags'
  <2>1. ~exact BY <1>a, <1>8
  <2>2. Quiet' <=> Quiet BY <1>8 DEF Quiet
  <2>3. alone' => Quiet' BY <1>b, <1>8, <2>2
  <2>4. spotless' => alone' BY <1>c, <1>8
  <2> QED BY <1>8, <2>1, <2>3, <2>4 DEF Flags
<1>9. CASE archive_derived_files
  <2>1. at = "archive" /\ (at' = "archive" \/ at' = "watcher")
    BY <1>9 DEF archive_derived_files
  <2> QED BY <1>8, <1>9, <2>1 DEF archive_derived_files, live, flags
<1>10. CASE spawn_watcher BY <1>8, <1>10 DEF spawn_watcher, vars, flags
<1>11. CASE NextLine
  <2>1. at = "next" BY <1>11 DEF NextLine
  <2>2. at' # "off"
    <3>1. \A q : Route(q) # "off" BY KindOf DEF Route
    <3>2. \A t : process_line(t) => at' # "off" BY <2>1, <3>1 DEF process_line
    <3> QED BY <1>11, <3>2 DEF NextLine
  <2> QED BY <1>8, <1>11, <2>1, <2>2 DEF NextLine, vars, flags
<1>12. CASE EndOfLog
  <2>1. at = "next" /\ at' = "off" /\ exact' = alone /\ UNCHANGED <<pc, half, line, moved, mine, alone, spotless>>
    BY <1>12 DEF EndOfLog, vars
  <2>2. alone => moved = {} /\ OneLoop /\ OneSub
    BY <1>0, <1>b, <2>1, QuietAfresh
  <2>3. (OneLoop => OneLoop') /\ (OneSub => OneSub') BY <2>1 DEF OneLoop, OneSub
  <2>4. spotless' => exact' BY <1>c, <2>1
  <2>5. exact' => moved' = {} /\ OneLoop' /\ OneSub' BY <2>1, <2>2, <2>3
  <2> QED BY <2>1, <2>4, <2>5 DEF Flags
<1>13. CASE ReplayText
  <2>1. at # "off" BY <1>13 DEF ReplayText, Derived, FileName
  <2> QED BY <1>8, <1>13, <2>1 DEF ReplayText, live, flags
<1>14. CASE ReplayNewline
  <2>1. at \in {"main", "sub", "pre", "comp"} BY <1>14 DEF ReplayNewline, Derived, FileName
  <2>2. at' # "off"
    <3>2. CASE at \in {"main", "sub"} BY <1>14, <3>2 DEF ReplayNewline
    <3>3. CASE at = "pre" BY <1>14, <3>3 DEF ReplayNewline
    <3>4. CASE at = "comp" BY <1>14, <3>4 DEF ReplayNewline
    <3> QED BY <2>1, <3>2, <3>3, <3>4
  <2> QED BY <1>8, <1>14, <2>1, <2>2 DEF ReplayNewline, live, flags
<1>15. ASSUME NEW from, NEW to, Compacting(from, to), from # "off", to # "off" PROVE Flags'
  BY <1>8, <1>15 DEF Compacting, live, flags
<1>16. CASE ReplayCapture BY <1>15, <1>16 DEF ReplayCapture
<1>17. CASE ReplayCount BY <1>15, <1>17 DEF ReplayCount
<1>18. CASE ReplayTruncateRead BY <1>15, <1>18 DEF ReplayTruncateRead
<1>19. CASE ReplayTruncateOpen BY <1>15, <1>19 DEF ReplayTruncateOpen
<1>20. CASE ReplayTruncateWrite BY <1>15, <1>20 DEF ReplayTruncateWrite
<1>21. CASE ReplayEmit BY <1>15, <1>21 DEF ReplayEmit
<1>22. CASE ReplayFault
  <2>1. exact' = FALSE /\ spotless' = FALSE /\ alone' = FALSE BY <1>22 DEF ReplayFault, Spoiled
  <2> QED BY <2>1 DEF Flags
<1>23. CASE UNCHANGED allVars
  <2>1. UNCHANGED <<pc, half, line, at, moved, exact, alone, spotless>>
    BY <1>23 DEF allVars, vars, replayVars
  <2>2. /\ Quiet => Quiet'
        /\ OneLoop => OneLoop'
        /\ OneSub => OneSub'
    BY <2>1 DEF Quiet, OneLoop, OneSub
  <2> QED BY <1>a, <1>b, <1>c, <2>1, <2>2 DEF Flags
<1> QED BY <1>1, <1>2, <1>3, <1>4, <1>5, <1>6, <1>7, <1>9, <1>10, <1>11, <1>12, <1>13, <1>14,
    <1>16, <1>17, <1>18, <1>19, <1>20, <1>21, <1>22, <1>23 DEF ReplayNext, ReplayStep

-----------------------------------------------------------------------------
(* The live handlers and what they lead to *)

\* A handler with a line under way is open.
LEMMA OpenActive ==
  ASSUME NEW r, Open(r)
  PROVE  pc[r] \in Active
BY DEF Open, OpenSteps, LoopSteps, Active, Reading, Writing, FileName

\* A step of one open handler of the loop: the others of the loop are not open.
LEMMA LoopMoves ==
  ASSUME OneLoop, NEW r \in Requests, Kind(r) \in Loop, pc[r] \in Active, Others(r), NEW e,
         IF Open(r)'
         THEN LoopAt(file', r, Pos(r)', Texted(r)', snap'[r], keep'[r], line'[r], e)
         ELSE LoopDone(file', e)
  PROVE  LiveLoop(e)'
<1>1. ASSUME NEW q \in Requests \ {r}, Kind(q) \in Loop PROVE ~Open(q)'
  <2>1. pc[q] \notin Active BY <1>1 DEF OneLoop
  <2>2. ~Open(q) BY <2>1, OpenActive
  <2>3. pc'[q] = pc[q] /\ half'[q] = half[q] BY DEF Others
  <2> QED BY <2>2, <2>3 DEF Open
<1>2. CASE Open(r)'
  <2>1. \A q \in Requests : Kind(q) \in Loop /\ Open(q)' => q = r BY <1>1
  <2> QED BY <1>2, <2>1 DEF LiveLoop
<1>3. CASE ~Open(r)'
  <2>1. \A q \in Requests : Kind(q) \in Loop => ~Open(q)' BY <1>1, <1>3
  <2> QED BY <1>3, <2>1 DEF LiveLoop
<1> QED BY <1>2, <1>3

\* A step that is none of the loop's.
LEMMA LoopStays ==
  ASSUME NEW r \in Requests, Others(r), NEW d, NEW e, LiveLoop(d),
         \A f \in LoopFiles : file'[f] = file[f] /\ e[f] = d[f],
         Kind(r) \in Loop => ~Open(r) /\ ~Open(r)'
  PROVE  LiveLoop(e)'
<1>1. ASSUME NEW q \in Requests, Kind(q) \in Loop PROVE Open(q)' <=> Open(q)
  <2>1. CASE q = r BY <1>1, <2>1
  <2>2. CASE q # r
    <3>1. pc'[q] = pc[q] /\ half'[q] = half[q] BY <2>2 DEF Others
    <3> QED BY <3>1 DEF Open
  <2> QED BY <2>1, <2>2
<1>2. ASSUME \A q \in Requests : Kind(q) \in Loop => ~Open(q)' PROVE LoopDone(file', e)
  <2>1. LoopDone(file, d) BY <1>1, <1>2 DEF LiveLoop
  <2> QED BY <2>1, LoopFrame
<1>3. ASSUME NEW q \in Requests, Kind(q) \in Loop, Open(q)'
      PROVE  LoopAt(file', q, Pos(q)', Texted(q)', snap'[q], keep'[q], line'[q], e)
  <2>1. q # r BY <1>3
  <2>2. /\ pc'[q] = pc[q] /\ half'[q] = half[q] /\ snap'[q] = snap[q]
        /\ keep'[q] = keep[q] /\ line'[q] = line[q]
    BY <2>1 DEF Others
  <2>3. Pos(q)' = Pos(q) /\ (Texted(q)' <=> Texted(q)) BY <2>2 DEF Pos, Texted, Route
  <2>4. LoopAt(file, q, Pos(q), Texted(q), snap[q], keep[q], line[q], d)
    BY <1>1, <1>3 DEF LiveLoop
  <2>5. LoopAt(file', q, Pos(q), Texted(q), snap[q], keep[q], line[q], e)
    BY <2>4, LoopFrame
  <2>6. Texted(q)' = Texted(q) BY <2>2 DEF Texted
  <2> QED BY <2>2, <2>3, <2>5, <2>6
<1> QED BY <1>2, <1>3 DEF LiveLoop

\* The same for the log of the subagents.
LEMMA SubMoves ==
  ASSUME OneSub, NEW r \in Requests, Kind(r) = "Subagent", pc[r] \in Active, Others(r), NEW e,
         SubsApart => IF Open(r)' THEN Appending(file', "sub", <<r>>, Texted(r)', e)
                                  ELSE Kept(file', "sub", e)
  PROVE  LiveSub(e)'
<1> SUFFICES ASSUME SubsApart PROVE LiveSub(e)' BY DEF LiveSub
<1>1. ASSUME NEW q \in Requests \ {r}, Kind(q) = "Subagent" PROVE ~Open(q)'
  <2>1. pc[q] \notin Active BY <1>1 DEF OneSub
  <2>2. ~Open(q) BY <2>1, OpenActive
  <2>3. pc'[q] = pc[q] /\ half'[q] = half[q] BY DEF Others
  <2> QED BY <2>2, <2>3 DEF Open
<1>2. CASE Open(r)'
  <2>1. \A q \in Requests : Kind(q) = "Subagent" /\ Open(q)' => q = r BY <1>1
  <2> QED BY <1>2, <2>1 DEF LiveSub
<1>3. CASE ~Open(r)'
  <2>1. \A q \in Requests : Kind(q) = "Subagent" => ~Open(q)' BY <1>1, <1>3
  <2> QED BY <1>3, <2>1 DEF LiveSub
<1> QED BY <1>2, <1>3

\* A step that is no subagent write leaves the subagent log on its way.
LEMMA SubStays ==
  ASSUME NEW r \in Requests, Others(r), NEW d, NEW e, LiveSub(d),
         file'["sub"] = file["sub"], e["sub"] = d["sub"],
         Kind(r) = "Subagent" => ~Open(r) /\ ~Open(r)'
  PROVE  LiveSub(e)'
<1> SUFFICES ASSUME SubsApart PROVE LiveSub(e)' BY DEF LiveSub
<1>1. ASSUME NEW q \in Requests, Kind(q) = "Subagent" PROVE Open(q)' <=> Open(q)
  <2>1. CASE q = r BY <1>1, <2>1
  <2>2. CASE q # r
    <3>1. pc'[q] = pc[q] /\ half'[q] = half[q] BY <2>2 DEF Others
    <3> QED BY <3>1 DEF Open
  <2> QED BY <2>1, <2>2
<1>2. ASSUME \A q \in Requests : Kind(q) = "Subagent" => ~Open(q)' PROVE Kept(file', "sub", e)
  <2>1. Kept(file, "sub", d) BY <1>1, <1>2 DEF LiveSub
  <2> QED BY <2>1, FileFrame
<1>3. ASSUME NEW q \in Requests, Kind(q) = "Subagent", Open(q)'
      PROVE  Appending(file', "sub", <<q>>, Texted(q)', e)
  <2>1. q # r BY <1>3
  <2>2. pc'[q] = pc[q] /\ half'[q] = half[q] BY <2>1 DEF Others
  <2>3. Texted(q)' = Texted(q) BY <2>2 DEF Texted
  <2>4. Appending(file, "sub", <<q>>, Texted(q), d) BY <1>1, <1>3 DEF LiveSub
  <2>5. Appending(file', "sub", <<q>>, Texted(q), e) BY <2>4, FileFrame
  <2> QED BY <2>3, <2>5
<1> QED BY <1>2, <1>3 DEF LiveSub

\* The step a handler of the loop is at, for the steps after the raw capture.
LEMMA LoopStage ==
  ASSUME TypeOK, OneLoop, NEW r \in Requests, pc[r] \in OpenSteps, NEW d, LiveLoop(d)
  PROVE  /\ Kind(r) \in Loop /\ pc[r] \in Active /\ pc[r] \notin {"raw", "sub"}
         /\ LoopAt(file, r, pc[r], half[r], snap[r], keep[r], line[r], d)
<1>1. pc[r] \in LoopSteps /\ pc[r] \notin {"raw", "sub"} BY DEF OpenSteps, LoopSteps
<1>2. Kind(r) \in Loop BY <1>1 DEF OneLoop
<1>3. Open(r) /\ Pos(r) = pc[r] BY <1>1 DEF Open, Pos
<1>4. Texted(r) = half[r] BY <1>1 DEF Texted, TypeOK
<1>5. LoopAt(file, r, pc[r], Texted(r), snap[r], keep[r], line[r], d)
  BY <1>2, <1>3 DEF LiveLoop
<1> QED BY <1>1, <1>2, <1>3, <1>4, <1>5, OpenActive

\* What may be assumed of the handlers while nothing goes wrong.
Ordered == TypeOK /\ Control /\ OneLoop /\ OneSub

\* The text of the raw capture: its record is from now on to be replayed.
LEMMA RawText ==
  ASSUME Ordered, NEW r \in Requests, WriteText(r), pc[r] = "raw", NEW d, Live(d),
         NEW e, e = ReplayLine(d, <<r>>)
  PROVE  Live(e)'
<1>0. TypeOK /\ Control /\ OneLoop /\ OneSub /\ Good(d) /\ LiveLoop(d) /\ LiveSub(d) /\ file \in Files
      /\ d \in Contents
  BY DEF Ordered, Live, TypeOK, Files, Good
<1>1. Others(r) BY <1>0, HandlerAlone DEF Handler
<1>2. /\ ~half[r] /\ pc' = pc /\ half'[r] = TRUE /\ UNCHANGED <<snap, keep, line>>
      /\ \A f \in Derived : file'[f] = file[f]
  BY <1>0 DEF WriteText, TypeOK, Files, Derived
<1>3. ~Open(r) /\ Open(r)' /\ pc[r] \in Active
  BY <1>2 DEF Open, OpenSteps, LoopSteps, Active, Writing, FileName
<1>4. Pos(r)' = Route(r) /\ Texted(r)' = FALSE BY <1>2 DEF Pos, Texted, Route
<1>5. LoopFiles \subseteq Derived /\ "sub" \in Derived BY DEF LoopFiles, Derived, FileName
<1>6. Good(e)
  <2>1. <<r>> \in Line BY DEF Line
  <2> QED BY <1>0, <2>1, ReplayGood
<1>7. LiveLoop(e)'
  <2>1. CASE Kind(r) \in Loop
    <3>1. \A q \in Requests : Kind(q) \in Loop => ~Open(q)
      <4>1. \A q \in Requests : Kind(q) \in Loop /\ Open(q) => q = r
        BY <1>0, <1>3, <2>1, OpenActive DEF OneLoop
      <4> QED BY <1>3, <4>1
    <3>2. LoopDone(file, d) BY <1>0, <3>1 DEF LiveLoop
    <3>3. LoopAt(file, r, Route(r), FALSE, snap[r], keep[r], line[r], e)
      BY <1>0, <2>1, <3>2, LoopEnters
    <3>4. \A f \in LoopFiles : file'[f] = file[f] /\ e[f] = e[f] BY <1>2, <1>5
    <3>5. LoopAt(file', r, Route(r), FALSE, snap[r], keep[r], line[r], e)
      BY <3>3, <3>4, LoopFrame
    <3>6. LoopAt(file', r, Pos(r)', Texted(r)', snap'[r], keep'[r], line'[r], e)
      BY <1>2, <1>4, <3>5
    <3> QED BY <1>0, <1>1, <1>3, <2>1, <3>6, LoopMoves
  <2>2. CASE Kind(r) \notin Loop
    <3>1. \A f \in LoopFiles : e[f] = d[f]
      <4>1. CASE Kind(r) = "Subagent" BY <1>0, <4>1, ReplaySub
      <4>2. CASE Kind(r) = "None"
        <5>1. Len(<<r>>) = 1 /\ <<r>>[1] = r OBVIOUS
        <5> QED BY <4>2, <5>1, ReplaySkips
      <4> QED BY <2>2, <4>1, <4>2, KindOf DEF Loop
    <3>2. \A f \in LoopFiles : file'[f] = file[f] /\ e[f] = d[f] BY <1>2, <1>5, <3>1
    <3> QED BY <1>0, <1>1, <2>2, <3>2, LoopStays
  <2> QED BY <2>1, <2>2
<1>8. LiveSub(e)'
  <2> SUFFICES ASSUME SubsApart PROVE LiveSub(e)' BY DEF LiveSub
  <2>1. CASE Kind(r) = "Subagent"
    <3>1. \A q \in Requests : Kind(q) = "Subagent" => ~Open(q)
      <4>1. \A q \in Requests : Kind(q) = "Subagent" /\ Open(q) => q = r
        BY <1>0, <1>3, <2>1, OpenActive DEF OneSub
      <4> QED BY <1>3, <4>1
    <3>2. Kept(file, "sub", d) BY <1>0, <3>1 DEF LiveSub
    <3>3. Appending(file, "sub", <<r>>, FALSE, e) BY <1>0, <2>1, <3>2, SubEnters
    <3>4. file'["sub"] = file["sub"] BY <1>2, <1>5
    <3>5. Appending(file', "sub", <<r>>, FALSE, e) BY <3>3, <3>4, FileFrame
    <3>6. Appending(file', "sub", <<r>>, Texted(r)', e) BY <1>4, <3>5
    <3> QED BY <1>0, <1>1, <1>3, <2>1, <3>6, SubMoves
  <2>2. CASE Kind(r) # "Subagent"
    <3>1. e["sub"] = d["sub"] BY <1>0, <2>2, SubEnters
    <3>2. file'["sub"] = file["sub"] BY <1>2, <1>5
    <3> QED BY <1>0, <1>1, <2>2, <3>1, <3>2, SubStays
  <2> QED BY <2>1, <2>2
<1> QED BY <1>6, <1>7, <1>8 DEF Live

\* A step of the loop after that, on its files.
LEMMA LoopStep ==
  ASSUME Ordered, NEW r \in Requests, pc[r] \in OpenSteps, NEW d, Live(d),
         Others(r), file'["sub"] = file["sub"], half'[r] \in BOOLEAN,
         IF pc'[r] \in OpenSteps
         THEN LoopAt(file', r, pc'[r], half'[r], snap'[r], keep'[r], line'[r], d)
         ELSE pc'[r] \in {"emit", "forward"} /\ LoopDone(file', d)
  PROVE  Live(d)'
<1>0. TypeOK /\ Control /\ OneLoop /\ OneSub /\ Good(d) /\ LiveLoop(d) /\ LiveSub(d)
  BY DEF Ordered, Live
<1>1. Kind(r) \in Loop /\ pc[r] \in Active BY <1>0, LoopStage
<1>2. CASE pc'[r] \in OpenSteps
  <2>1. pc'[r] \notin {"raw", "sub"} BY <1>2 DEF OpenSteps, LoopSteps
  <2>2. Open(r)' /\ Pos(r)' = pc'[r] BY <1>2, <2>1 DEF Open, Pos
  <2>3. LoopAt(file', r, pc'[r], Texted(r)', snap'[r], keep'[r], line'[r], d)
    <3>1. CASE half'[r] = TRUE
      <4>1. Texted(r)' = TRUE BY <2>1, <3>1 DEF Texted
      <4> QED BY <1>2, <3>1, <4>1
    <3>2. CASE half'[r] = FALSE
      <4>1. Texted(r)' = FALSE BY <2>1, <3>2 DEF Texted
      <4> QED BY <1>2, <3>2, <4>1
    <3> QED BY <3>1, <3>2
  <2>4. LiveLoop(d)' BY <1>0, <1>1, <2>2, <2>3, LoopMoves
  <2>5. Kind(r) # "Subagent" BY <1>1 DEF Loop
  <2>6. LiveSub(d)' BY <1>0, <2>5, SubStays
  <2> QED BY <1>0, <2>4, <2>6 DEF Live
<1>3. CASE pc'[r] \notin OpenSteps
  <2>1. ~Open(r)'
    <3>1. pc'[r] \notin {"raw", "sub"} BY <1>3
    <3> QED BY <1>3, <3>1 DEF Open
  <2>2. LiveLoop(d)' BY <1>0, <1>1, <1>3, <2>1, LoopMoves
  <2>3. Kind(r) # "Subagent" BY <1>1 DEF Loop
  <2>4. LiveSub(d)' BY <1>0, <2>3, SubStays
  <2> QED BY <1>0, <2>2, <2>4 DEF Live
<1> QED BY <1>2, <1>3

\* A step that is on no way to a derived file.
LEMMA LiveAside ==
  ASSUME NEW r \in Requests, Others(r), NEW d, Live(d),
         \A f \in Derived : file'[f] = file[f],
         ~Open(r) \/ Kind(r) = "None", ~Open(r)' \/ Kind(r) = "None"
  PROVE  Live(d)'
<1>0. Good(d) /\ LiveLoop(d) /\ LiveSub(d) BY DEF Live
<1>1. LoopFiles \subseteq Derived /\ "sub" \in Derived BY DEF LoopFiles, Derived, FileName
<1>2. \A f \in LoopFiles : file'[f] = file[f] /\ d[f] = d[f] BY <1>1
<1>3. Kind(r) \in Loop => ~Open(r) /\ ~Open(r)' BY DEF Loop
<1>4. LiveLoop(d)' BY <1>0, <1>2, <1>3, LoopStays
<1>5. file'["sub"] = file["sub"] BY <1>1
<1>6. LiveSub(d)' BY <1>0, <1>5, SubStays
<1> QED BY <1>0, <1>4, <1>6 DEF Live

\* Any other step of a handler leads to the same.
LEMMA LiveHandler ==
  ASSUME Ordered, NEW r \in Requests, Handler(r), ~(pc[r] = "raw" /\ ~half[r]),
         NEW d, Live(d)
  PROVE  Live(d)'
<1>0. /\ TypeOK /\ Control /\ OneLoop /\ OneSub /\ Good(d) /\ LiveLoop(d) /\ LiveSub(d)
      /\ file \in Files /\ d \in Contents /\ snap[r] \in Line /\ half[r] \in BOOLEAN
  BY DEF Ordered, Live, TypeOK, Files, Good
<1>1. Others(r) BY <1>0, HandlerAlone
<1>2. ASSUME pc[r] \in OpenSteps
      PROVE  /\ Kind(r) \in Loop
             /\ LoopAt(file, r, pc[r], half[r], snap[r], keep[r], line[r], d)
  BY <1>0, <1>2, LoopStage
<1>3. "sub" \in FileName /\ LoopFiles \subseteq FileName \ {"sub"}
  BY DEF FileName, LoopFiles
<1>n. pc[r] \notin FileName => half[r] = FALSE BY <1>0 DEF Control
<1>4. CASE WriteText(r)
  <2>1. /\ pc[r] \in FileName /\ half[r] = FALSE /\ half'[r] = TRUE
        /\ UNCHANGED <<pc, snap, keep, line>>
        /\ file' = [file EXCEPT ![pc[r]] = [lines |-> file[pc[r]].lines, tail |-> file[pc[r]].tail \o Text(r)]]
    BY <1>0, <1>4 DEF WriteText, TypeOK
  <2>2. CASE pc[r] \in LoopFiles
    <3>1. pc[r] \in OpenSteps BY <2>2 DEF LoopFiles, OpenSteps, LoopSteps
    <3>2. LoopAt(file, r, pc[r], FALSE, snap[r], keep[r], line[r], d) BY <1>2, <2>1, <3>1
    <3>3. Text(r) = TextOf(r, pc[r], snap[r]) BY DEF Text, TextOf
    <3>4. LoopAt(file', r, pc[r], TRUE, snap[r], keep[r], line[r], d)
      BY <1>0, <2>1, <2>2, <3>2, <3>3, LoopText
    <3>5. file'["sub"] = file["sub"] BY <1>0, <1>3, <2>1, <2>2 DEF Files
    <3>6. half'[r] \in BOOLEAN BY <2>1
    <3>7. pc'[r] \in OpenSteps
          /\ LoopAt(file', r, pc'[r], half'[r], snap'[r], keep'[r], line'[r], d)
      BY <2>1, <3>1, <3>4
    <3> QED BY <1>1, <3>1, <3>5, <3>6, <3>7, LoopStep
  <2>3. CASE pc[r] = "sub"
    <3>1. Kind(r) = "Subagent" /\ pc[r] \in Active /\ Open(r) /\ Open(r)'
      BY <1>0, <2>1, <2>3 DEF OneSub, Active, Writing, Open
    <3>2. Texted(r) = FALSE /\ Texted(r)' = TRUE BY <2>1, <2>3 DEF Texted
    <3>3. SubsApart => Appending(file, "sub", <<r>>, FALSE, d) BY <1>0, <3>1, <3>2 DEF LiveSub
    <3>4. file'["sub"] = [lines |-> file["sub"].lines, tail |-> file["sub"].tail \o <<r>>]
      BY <1>0, <1>3, <2>1, <2>3 DEF Text, Files
    <3>5. <<r>> \in Line BY DEF Line
    <3>6. SubsApart => Appending(file', "sub", <<r>>, TRUE, d) BY <3>3, <3>4, <3>5, TextWritten
    <3>7. LiveSub(d)' BY <1>0, <1>1, <3>1, <3>2, <3>6, SubMoves
    <3>8. \A f \in LoopFiles : file'[f] = file[f] /\ d[f] = d[f]
      BY <1>0, <1>3, <2>1, <2>3 DEF Files
    <3>9. Kind(r) \notin Loop BY <3>1 DEF Loop
    <3>10. LiveLoop(d)' BY <1>0, <1>1, <3>8, <3>9, LoopStays
    <3> QED BY <1>0, <3>7, <3>10 DEF Live
  <2> QED BY <2>1, <2>2, <2>3 DEF FileName, LoopFiles
<1>5. CASE WriteNewline(r)
  <2>1. /\ half[r] = TRUE /\ half'[r] = FALSE /\ pc'[r] = After(r)
        /\ UNCHANGED <<snap, keep, line>>
        /\ file' = [file EXCEPT ![pc[r]] = [lines |-> Append(file[pc[r]].lines, file[pc[r]].tail), tail |-> <<>>]]
    BY <1>0, <1>5 DEF WriteNewline, TypeOK, Goto
  <2>2. pc[r] \in FileName BY <1>0, <2>1 DEF Control
  <2>3. CASE pc[r] = "raw"
    <3>1. \A f \in Derived : file'[f] = file[f]
      BY <1>0, <2>1, <2>3 DEF Files, Derived
    <3>2. Open(r) /\ Pos(r) = Route(r) /\ Texted(r) = FALSE /\ pc[r] \in Active
      BY <2>1, <2>3 DEF Open, Pos, Texted, Active, Writing, FileName
    <3>3. LoopFiles \subseteq Derived /\ "sub" \in Derived BY DEF LoopFiles, Derived, FileName
    <3>4. CASE Kind(r) \in Loop
      <4>1. pc'[r] = Route(r) /\ pc'[r] \in {"main", "capture"}
        BY <2>1, <2>3, <3>4 DEF After, Route, Loop
      <4>2. LoopAt(file, r, Route(r), FALSE, snap[r], keep[r], line[r], d)
        BY <1>0, <3>2, <3>4 DEF LiveLoop
      <4>3. \A f \in LoopFiles : file'[f] = file[f] /\ d[f] = d[f] BY <3>1, <3>3
      <4>4. LoopAt(file', r, Route(r), FALSE, snap[r], keep[r], line[r], d)
        BY <4>2, <4>3, LoopFrame
      <4>5. Open(r)' /\ Pos(r)' = Route(r) /\ Texted(r)' = FALSE
        BY <2>1, <4>1 DEF Open, OpenSteps, LoopSteps, Pos, Texted
      <4>6. LoopAt(file', r, Pos(r)', Texted(r)', snap'[r], keep'[r], line'[r], d)
        BY <2>1, <4>4, <4>5
      <4>7. LiveLoop(d)' BY <1>0, <1>1, <3>2, <3>4, <4>5, <4>6, LoopMoves
      <4>8. Kind(r) # "Subagent" BY <3>4 DEF Loop
      <4>9. file'["sub"] = file["sub"] BY <3>1, <3>3
      <4>10. LiveSub(d)' BY <1>0, <1>1, <4>8, <4>9, SubStays
      <4> QED BY <1>0, <4>7, <4>10 DEF Live
    <3>5. CASE Kind(r) = "Subagent"
      <4>1. pc'[r] = "sub" BY <2>1, <2>3, <3>5 DEF After
      <4>2. SubsApart => Appending(file, "sub", <<r>>, FALSE, d) BY <1>0, <3>2, <3>5 DEF LiveSub
      <4>3. file'["sub"] = file["sub"] BY <3>1, <3>3
      <4>4. SubsApart => Appending(file', "sub", <<r>>, FALSE, d) BY <4>2, <4>3, FileFrame
      <4>5. Open(r)' /\ Texted(r)' = FALSE BY <2>1, <4>1 DEF Open, Texted
      <4>6. SubsApart => Appending(file', "sub", <<r>>, Texted(r)', d) BY <4>4, <4>5
      <4>7. LiveSub(d)' BY <1>0, <1>1, <3>2, <3>5, <4>5, <4>6, SubMoves
      <4>8. Kind(r) \notin Loop BY <3>5 DEF Loop
      <4>9. \A f \in LoopFiles : file'[f] = file[f] /\ d[f] = d[f] BY <3>1, <3>3
      <4>10. LiveLoop(d)' BY <1>0, <1>1, <4>8, <4>9, LoopStays
      <4> QED BY <1>0, <4>7, <4>10 DEF Live
    <3>6. CASE Kind(r) = "None" BY <1>1, <3>1, <3>6, LiveAside
    <3> QED BY <3>4, <3>5, <3>6, KindOf DEF Loop
  <2>4. CASE pc[r] \in LoopFiles
    <3>1. pc[r] \in OpenSteps BY <2>4 DEF LoopFiles, OpenSteps, LoopSteps
    <3>2. LoopAt(file, r, pc[r], TRUE, snap[r], keep[r], line[r], d) BY <1>2, <2>1, <3>1
    <3>3. Ended(file', pc[r], r, snap[r], keep[r], line[r], d)
      BY <1>0, <2>1, <2>4, <3>2, LoopNewline
    <3>4. file'["sub"] = file["sub"] BY <1>0, <1>3, <2>1, <2>4 DEF Files
    <3>5. half'[r] \in BOOLEAN BY <2>1
    <3>6. IF pc'[r] \in OpenSteps
          THEN LoopAt(file', r, pc'[r], half'[r], snap'[r], keep'[r], line'[r], d)
          ELSE pc'[r] \in {"emit", "forward"} /\ LoopDone(file', d)
      <4>1. "count" \in OpenSteps /\ "trunc_read" \in OpenSteps /\ "emit" \notin OpenSteps
            /\ "forward" \notin OpenSteps
        BY DEF OpenSteps, LoopSteps
      <4>2. CASE pc[r] = "main"
        <5>1. pc'[r] = "forward" BY <2>1, <4>2 DEF After
        <5> QED BY <3>3, <4>1, <4>2, <5>1 DEF Ended
      <4>3. CASE pc[r] = "pre"
        <5>1. pc'[r] = "count" BY <2>1, <4>3 DEF After
        <5> QED BY <2>1, <3>3, <4>1, <4>3, <5>1 DEF Ended
      <4>4. CASE pc[r] = "comp" /\ line[r] = 0
        <5>1. pc'[r] = "emit" BY <2>1, <4>4 DEF After
        <5> QED BY <3>3, <4>1, <4>4, <5>1 DEF Ended
      <4>5. CASE pc[r] = "comp" /\ line[r] # 0
        <5>1. pc'[r] = "trunc_read" BY <2>1, <4>5 DEF After
        <5> QED BY <2>1, <3>3, <4>1, <4>5, <5>1 DEF Ended
      <4> QED BY <2>4, <4>2, <4>3, <4>4, <4>5 DEF LoopFiles
    <3> QED BY <1>1, <3>1, <3>4, <3>5, <3>6, LoopStep
  <2>5. CASE pc[r] = "sub"
    <3>1. Kind(r) = "Subagent" /\ pc[r] \in Active /\ Open(r)
      BY <1>0, <2>1, <2>5 DEF OneSub, Active, Writing, FileName, Open
    <3>2. Texted(r) = TRUE BY <2>1, <2>5 DEF Texted
    <3>3. SubsApart => Appending(file, "sub", <<r>>, TRUE, d) BY <1>0, <3>1, <3>2 DEF LiveSub
    <3>4. file'["sub"] = [lines |-> Append(file["sub"].lines, file["sub"].tail), tail |-> <<>>]
      BY <1>0, <1>3, <2>1, <2>5 DEF Files
    <3>5. SubsApart => Kept(file', "sub", d) BY <3>3, <3>4, LineWritten
    <3>6. pc'[r] = "forward" BY <2>1, <2>5 DEF After
    <3>7. ~Open(r)' BY <3>6 DEF Open, OpenSteps, LoopSteps
    <3>8. LiveSub(d)' BY <1>0, <1>1, <3>1, <3>5, <3>7, SubMoves
    <3>9. \A f \in LoopFiles : file'[f] = file[f] /\ d[f] = d[f]
      BY <1>0, <1>3, <2>1, <2>5 DEF Files
    <3>10. Kind(r) \notin Loop BY <3>1 DEF Loop
    <3>11. LiveLoop(d)' BY <1>0, <1>1, <3>9, <3>10, LoopStays
    <3> QED BY <1>0, <3>8, <3>11 DEF Live
  <2> QED BY <2>2, <2>3, <2>4, <2>5 DEF FileName, LoopFiles
<1>6. CASE CaptureRead(r)
  <2> DEFINE last == read_last_line(file["main"])
  <2>1. /\ pc[r] = "capture" /\ snap'[r] = last /\ pc'[r] = IF last = <<>> THEN "comp" ELSE "pre"
        /\ UNCHANGED <<file, half, keep, line>>
    BY <1>0, <1>6 DEF CaptureRead, TypeOK, Goto
  <2>2. line[r] = 0 BY <1>0, <2>1 DEF OneLoop
  <2>3. pc[r] \in OpenSteps /\ "comp" \in OpenSteps /\ "pre" \in OpenSteps
    BY <2>1 DEF OpenSteps, LoopSteps
  <2>4. half[r] = FALSE BY <1>n, <2>1 DEF FileName
  <2>5. LoopAt(file, r, "capture", half[r], snap[r], keep[r], 0, d) BY <1>2, <2>1, <2>2, <2>3
  <2>6. LoopAt(file, r, IF last = <<>> THEN "comp" ELSE "pre", FALSE, last, keep[r], 0, d)
    BY <1>0, <2>5, LoopCapture
  <2> HIDE DEF last
  <2>7. LoopAt(file', r, pc'[r], half'[r], snap'[r], keep'[r], line'[r], d)
    BY <2>1, <2>2, <2>4, <2>6
  <2>8. pc'[r] \in OpenSteps /\ half'[r] \in BOOLEAN /\ file'["sub"] = file["sub"]
    BY <1>0, <2>1, <2>3
  <2> QED BY <1>1, <2>3, <2>7, <2>8, LoopStep
<1>7. CASE CountLines(r)
  <2> DEFINE m == Len(AllLines(file["pre"]))
  <2>1. /\ pc[r] = "count" /\ line'[r] = m /\ pc'[r] = "comp"
        /\ UNCHANGED <<file, half, keep, snap>>
    BY <1>0, <1>7 DEF CountLines, TypeOK, Goto
  <2>3. pc[r] \in OpenSteps /\ "comp" \in OpenSteps BY <2>1 DEF OpenSteps, LoopSteps
  <2>4. half[r] = FALSE BY <1>n, <2>1 DEF FileName
  <2>5. LoopAt(file, r, "count", half[r], snap[r], keep[r], line[r], d) BY <1>2, <2>1, <2>3
  <2>6. LoopAt(file, r, "comp", FALSE, snap[r], keep[r], m, d) BY <1>0, <2>5, LoopCount
  <2> HIDE DEF m
  <2>7. LoopAt(file', r, pc'[r], half'[r], snap'[r], keep'[r], line'[r], d)
    BY <2>1, <2>4, <2>6
  <2>8. pc'[r] \in OpenSteps /\ half'[r] \in BOOLEAN /\ file'["sub"] = file["sub"]
    BY <1>0, <2>1, <2>3
  <2> QED BY <1>1, <2>3, <2>7, <2>8, LoopStep
<1>8. CASE TruncateRead(r)
  <2> DEFINE last == read_last_line(file["main"])
  <2>1. /\ pc[r] = "trunc_read" /\ keep'[r] = last /\ pc'[r] = IF last = <<>> THEN "emit" ELSE "trunc_open"
        /\ UNCHANGED <<file, half, snap, line>>
    BY <1>0, <1>8 DEF TruncateRead, TypeOK, Goto
  <2>3. pc[r] \in OpenSteps /\ "trunc_open" \in OpenSteps BY <2>1 DEF OpenSteps, LoopSteps
  <2>4. half[r] = FALSE BY <1>n, <2>1 DEF FileName
  <2>5. LoopAt(file, r, "trunc_read", half[r], snap[r], keep[r], line[r], d) BY <1>2, <2>1, <2>3
  <2>6. last # <<>> /\ LoopAt(file, r, "trunc_open", FALSE, snap[r], last, line[r], d)
    BY <1>0, <2>5, LoopTruncateRead
  <2> HIDE DEF last
  <2>7. LoopAt(file', r, pc'[r], half'[r], snap'[r], keep'[r], line'[r], d)
    BY <2>1, <2>4, <2>6
  <2>8. pc'[r] \in OpenSteps /\ half'[r] \in BOOLEAN /\ file'["sub"] = file["sub"]
    BY <1>0, <2>1, <2>3, <2>6
  <2> QED BY <1>1, <2>3, <2>7, <2>8, LoopStep
<1>9. CASE TruncateOpen(r)
  <2>1. /\ pc[r] = "trunc_open" /\ pc'[r] = "trunc_write"
        /\ file' = [file EXCEPT !["main"] = EmptyFile]
        /\ UNCHANGED <<half, snap, keep, line>>
    BY <1>0, <1>9 DEF TruncateOpen, TypeOK, Goto, locals
  <2>3. pc[r] \in OpenSteps /\ "trunc_write" \in OpenSteps BY <2>1 DEF OpenSteps, LoopSteps
  <2>4. half[r] = FALSE BY <1>n, <2>1 DEF FileName
  <2>5. LoopAt(file, r, "trunc_open", half[r], snap[r], keep[r], line[r], d) BY <1>2, <2>1, <2>3
  <2>6. LoopAt(file', r, "trunc_write", FALSE, snap[r], keep[r], line[r], d)
    BY <1>0, <2>1, <2>5, LoopTruncateOpen
  <2>7. LoopAt(file', r, pc'[r], half'[r], snap'[r], keep'[r], line'[r], d)
    BY <2>1, <2>4, <2>6
  <2>8. pc'[r] \in OpenSteps /\ half'[r] \in BOOLEAN /\ file'["sub"] = file["sub"]
    BY <1>0, <1>3, <2>1, <2>3 DEF Files
  <2> QED BY <1>1, <2>3, <2>7, <2>8, LoopStep
<1>10. CASE TruncateWrite(r)
  <2>1. PICK g \in Overwrites(file["main"], keep[r]) : file' = [file EXCEPT !["main"] = g]
    BY <1>10 DEF TruncateWrite
  <2>2. pc[r] = "trunc_write" /\ pc'[r] = "emit" /\ UNCHANGED half
    BY <1>0, <1>10 DEF TruncateWrite, TypeOK, Goto, locals
  <2>3. pc[r] \in OpenSteps /\ "emit" \notin OpenSteps BY <2>2 DEF OpenSteps, LoopSteps
  <2>5. LoopAt(file, r, "trunc_write", half[r], snap[r], keep[r], line[r], d) BY <1>2, <2>2, <2>3
  <2>6. LoopDone(file', d) BY <1>0, <2>1, <2>5, LoopTruncateWrite
  <2>8. half'[r] \in BOOLEAN /\ file'["sub"] = file["sub"]
    BY <1>0, <1>3, <2>1, <2>2 DEF Files
  <2>9. pc'[r] \notin OpenSteps /\ pc'[r] \in {"emit", "forward"} BY <2>2, <2>3
  <2> QED BY <1>1, <2>3, <2>6, <2>8, <2>9, LoopStep
<1>11. CASE Emit(r) \/ Forward(r)
  <2>1. /\ pc[r] \in {"emit", "forward"} /\ pc'[r] \in {"forward", "done"} /\ UNCHANGED file
    BY <1>0, <1>11 DEF Emit, Forward, Goto, TypeOK
  <2>2. ~Open(r) /\ ~Open(r)' BY <2>1 DEF Open, OpenSteps, LoopSteps
  <2> QED BY <1>1, <2>1, <2>2, LiveAside
<1> QED BY <1>4, <1>5, <1>6, <1>7, <1>8, <1>9, <1>10, <1>11 DEF Handler

\* The references, while pre_compact_state grows or stays.
Grows == \/ file'["pre"].lines = file["pre"].lines
         \/ file'["pre"].lines = Append(file["pre"].lines, file["pre"].tail)

\* A reference stays right in snapshots that have grown.
LEMMA RefGrown ==
  ASSUME TypeOK, Grows
  PROVE  \A n \in Nat : \A s : RefOK(n, s, file["pre"].lines) => RefOK(n, s, file'["pre"].lines)
<1>1. file["pre"].lines \in Seq(Line) /\ file["pre"].tail \in Line
  BY DEF TypeOK, FileName, File
<1> QED BY <1>1, RefKept DEF Grows

\* A step that leaves the references right, whatever else it does.
LEMMA RefsMove ==
  ASSUME TypeOK, LiveRefs, Grows, NEW r \in Requests, Others(r),
         \A x \in refs' : x \in refs \/ (RefOK(x.line, x.snap, file["pre"].lines) /\ x.line \in Nat),
         pc'[r] \in Telling => RefOK(line'[r], snap'[r], file'["pre"].lines)
  PROVE  LiveRefs'
<1>1. \A x \in refs : x.line \in Nat /\ RefOK(x.line, x.snap, file["pre"].lines)
  BY DEF LiveRefs, RefsOK, TypeOK
<1>2. \A x \in refs' : RefOK(x.line, x.snap, file'["pre"].lines)
  BY <1>1, RefGrown
<1>3. ASSUME NEW q \in Requests \ {r}, pc'[q] \in Telling
      PROVE  RefOK(line'[q], snap'[q], file'["pre"].lines)
  <2>1. pc[q] \in Telling /\ line'[q] = line[q] /\ snap'[q] = snap[q] BY <1>3 DEF Others
  <2>2. RefOK(line[q], snap[q], file["pre"].lines) BY <2>1 DEF LiveRefs
  <2>3. line[q] \in Nat BY DEF TypeOK
  <2> QED BY <2>1, <2>2, <2>3, RefGrown
<1> QED BY <1>2, <1>3 DEF LiveRefs, RefsOK

\* A handler keeps the references right.
LEMMA RefsHandler ==
  ASSUME Ordered, NEW r \in Requests, Handler(r) \/ Start(r), NEW d, Live(d), LiveRefs
  PROVE  LiveRefs'
<1>0. /\ TypeOK /\ Control /\ OneLoop /\ OneSub /\ Good(d) /\ LiveLoop(d)
      /\ file \in Files /\ d \in Contents /\ snap[r] \in Line /\ line[r] \in Nat
      /\ half[r] \in BOOLEAN /\ "pre" \in FileName
  BY DEF Ordered, Live, TypeOK, Files, Good, FileName
<1>1. Others(r) BY <1>0, HandlerAlone
<1>2. pc[r] \in Telling => RefOK(line[r], snap[r], file["pre"].lines) BY DEF LiveRefs
<1>3. ASSUME pc'[r] \notin Telling \/ (pc[r] \in Telling /\ UNCHANGED <<line, snap>>),
             UNCHANGED refs, Grows
      PROVE  LiveRefs'
  <2>1. pc'[r] \in Telling => RefOK(line'[r], snap'[r], file'["pre"].lines)
    BY <1>0, <1>2, <1>3, RefGrown
  <2> QED BY <1>0, <1>1, <1>3, <2>1, RefsMove
<1>4. CASE Start(r)
  <2>1. pc'[r] = "raw" /\ UNCHANGED <<file, refs>> BY <1>0, <1>4 DEF Start, TypeOK, Goto
  <2> QED BY <1>3, <2>1 DEF Telling, Grows
<1>5. CASE WriteText(r)
  <2>1. /\ UNCHANGED <<pc, line, snap, refs>> /\ pc[r] \in FileName
        /\ file' = [file EXCEPT ![pc[r]] = [lines |-> file[pc[r]].lines, tail |-> file[pc[r]].tail \o Text(r)]]
    BY <1>5 DEF WriteText
  <2>2. file'["pre"].lines = file["pre"].lines
    <3>1. CASE pc[r] = "pre" BY <1>0, <2>1, <3>1 DEF Files
    <3>2. CASE pc[r] # "pre" BY <1>0, <2>1, <3>2 DEF Files
    <3> QED BY <3>1, <3>2
  <2> QED BY <1>3, <2>1, <2>2 DEF Grows
<1>6. CASE WriteNewline(r)
  <2>1. /\ half[r] /\ pc'[r] = After(r) /\ UNCHANGED <<line, snap, refs>>
        /\ file' = [file EXCEPT ![pc[r]] = [lines |-> Append(file[pc[r]].lines, file[pc[r]].tail), tail |-> <<>>]]
    BY <1>0, <1>6 DEF WriteNewline, Goto, TypeOK
  <2>2. Grows
    <3>1. CASE pc[r] = "pre" BY <1>0, <2>1, <3>1 DEF Files, Grows
    <3>2. CASE pc[r] # "pre" BY <1>0, <2>1, <3>2 DEF Files, Grows
    <3> QED BY <3>1, <3>2
  <2>3. After(r) \in Telling => pc[r] = "comp" BY DEF After, Telling
  <2> QED BY <1>3, <2>1, <2>2, <2>3 DEF Telling
<1>7. CASE CaptureRead(r)
  <2>1. /\ pc[r] = "capture" /\ pc'[r] \in {"comp", "pre"} /\ UNCHANGED <<file, line, refs>>
    BY <1>0, <1>7 DEF CaptureRead, TypeOK, Goto
  <2>2. line'[r] = 0 BY <1>0, <2>1 DEF OneLoop
  <2>3. RefOK(line'[r], snap'[r], file'["pre"].lines) BY <2>2 DEF RefOK
  <2>4. Grows BY <2>1 DEF Grows
  <2> QED BY <1>0, <1>1, <2>1, <2>3, <2>4, RefsMove
<1>8. CASE CountLines(r)
  <2> DEFINE m == Len(AllLines(file["pre"]))
  <2>1. /\ pc[r] = "count" /\ line'[r] = m /\ UNCHANGED <<file, snap, refs>>
    BY <1>0, <1>8 DEF CountLines, TypeOK
  <2>2. pc[r] \in OpenSteps BY <2>1 DEF OpenSteps, LoopSteps
  <2>3. LoopAt(file, r, "count", half[r], snap[r], keep[r], line[r], d)
    BY <1>0, <2>1, <2>2, LoopStage
  <2>4. RefOK(m, snap[r], file["pre"].lines) BY <1>0, <2>3, LoopCount
  <2> HIDE DEF m
  <2>5. RefOK(line'[r], snap'[r], file'["pre"].lines) BY <2>1, <2>4
  <2>6. Grows BY <2>1 DEF Grows
  <2> QED BY <1>0, <1>1, <2>1, <2>5, <2>6, RefsMove
<1>9. CASE TruncateRead(r)
  <2>1. pc[r] = "trunc_read" /\ UNCHANGED <<file, snap, line, refs>> BY <1>9 DEF TruncateRead
  <2> QED BY <1>3, <2>1 DEF Telling, Grows
<1>10. CASE TruncateOpen(r) \/ TruncateWrite(r)
  <2>1. /\ pc[r] \in {"trunc_open", "trunc_write"} /\ UNCHANGED <<snap, line, refs>>
        /\ \E g : file' = [file EXCEPT !["main"] = g]
    BY <1>10 DEF TruncateOpen, TruncateWrite, locals
  <2>2. file'["pre"] = file["pre"] BY <1>0, <2>1 DEF Files
  <2> QED BY <1>3, <2>1, <2>2 DEF Telling, Grows
<1>11. CASE Emit(r)
  <2>1. /\ pc[r] = "emit" /\ pc'[r] = "forward" /\ UNCHANGED file
        /\ refs' = refs \cup {[req |-> r, line |-> line[r], snap |-> snap[r]]}
    BY <1>0, <1>11 DEF Emit, Goto, TypeOK
  <2>2. RefOK(line[r], snap[r], file["pre"].lines) BY <1>2, <2>1 DEF Telling
  <2>3. \A x \in refs' : x \in refs \/ (RefOK(x.line, x.snap, file["pre"].lines) /\ x.line \in Nat)
    BY <1>0, <2>1, <2>2
  <2>4. Grows /\ pc'[r] \notin Telling BY <2>1 DEF Grows, Telling
  <2> QED BY <1>0, <1>1, <2>3, <2>4, RefsMove
<1>12. CASE Forward(r)
  <2>1. pc'[r] = "done" /\ UNCHANGED <<file, refs>> BY <1>0, <1>12 DEF Forward, Goto, TypeOK
  <2> QED BY <1>3, <2>1 DEF Telling, Grows
<1> QED BY <1>4, <1>5, <1>6, <1>7, <1>8, <1>9, <1>10, <1>11, <1>12 DEF Handler

-----------------------------------------------------------------------------
(* The raw log under the live handlers *)

RawHalf == \E r \in Requests : pc[r] = "raw" /\ half[r]

\* Records do not come apart again.
LEMMA GluedStays ==
  ASSUME TypeOK, file'["raw"].lines = file["raw"].lines \/
                 file'["raw"].lines = Append(file["raw"].lines, file["raw"].tail),
         RawGlued
  PROVE  RawGlued'
<1>0. file["raw"].lines \in Seq(Line) /\ file["raw"].tail \in Line
  BY DEF TypeOK, FileName, File
<1>1. PICK i \in DOMAIN file["raw"].lines : Len(file["raw"].lines[i]) > 1 BY DEF RawGlued, rawlog
<1>2. CASE file'["raw"].lines = file["raw"].lines BY <1>1, <1>2 DEF RawGlued, rawlog
<1>3. CASE file'["raw"].lines = Append(file["raw"].lines, file["raw"].tail)
  <2>1. i \in DOMAIN file'["raw"].lines /\ file'["raw"].lines[i] = file["raw"].lines[i]
    BY <1>0, <1>1, <1>3, LineAppended
  <2> QED BY <1>1, <2>1 DEF RawGlued, rawlog
<1> QED BY <1>2, <1>3

\* What a handler does to the raw log.
LEMMA RawStep ==
  ASSUME TypeOK, Control, NEW r \in Requests, Start(r) \/ Handler(r) \/ OpenMissing(r)
  PROVE  \/ /\ file'["raw"] = file["raw"] /\ ~(pc[r] = "raw" /\ ~half[r] /\ Handler(r))
            /\ RawHalf => RawHalf'
         \/ /\ pc[r] = "raw" /\ half[r]
            /\ file'["raw"] = [lines |-> Append(file["raw"].lines, file["raw"].tail), tail |-> <<>>]
         \/ /\ pc[r] = "raw" /\ ~half[r] /\ WriteText(r) /\ RawHalf'
            /\ file'["raw"] = [lines |-> file["raw"].lines, tail |-> file["raw"].tail \o <<r>>]
<1>0. file \in Files /\ "raw" \in FileName /\ "main" # "raw" BY DEF TypeOK, Files, FileName
<1>1. Others(r) BY HandlerAlone
<1>2. ASSUME ~(pc[r] = "raw" /\ half[r]) PROVE RawHalf => RawHalf'
  BY <1>1, <1>2 DEF RawHalf, Others
<1>3. CASE Start(r) \/ OpenMissing(r)
  <2>1. pc[r] # "raw" /\ UNCHANGED file BY <1>3 DEF Start, OpenMissing
  <2> QED BY <1>2, <2>1
<1>4. CASE WriteText(r)
  <2>1. /\ ~half[r] /\ pc' = pc /\ half'[r] = TRUE
        /\ file' = [file EXCEPT ![pc[r]] = [lines |-> file[pc[r]].lines, tail |-> file[pc[r]].tail \o Text(r)]]
    BY <1>4 DEF WriteText, TypeOK
  <2>2. CASE pc[r] = "raw"
    <3>1. Text(r) = <<r>> BY <2>2 DEF Text
    <3>2. file'["raw"] = [lines |-> file["raw"].lines, tail |-> file["raw"].tail \o <<r>>]
      BY <1>0, <2>1, <2>2, <3>1 DEF Files
    <3>3. RawHalf' BY <2>1, <2>2 DEF RawHalf
    <3> QED BY <1>4, <2>1, <2>2, <3>2, <3>3
  <2>3. CASE pc[r] # "raw"
    <3>1. file'["raw"] = file["raw"] BY <1>0, <2>1, <2>3 DEF Files
    <3> QED BY <1>2, <2>3, <3>1
  <2> QED BY <2>2, <2>3
<1>5. CASE WriteNewline(r)
  <2>1. /\ half[r]
        /\ file' = [file EXCEPT ![pc[r]] = [lines |-> Append(file[pc[r]].lines, file[pc[r]].tail), tail |-> <<>>]]
    BY <1>5 DEF WriteNewline
  <2>2. CASE pc[r] = "raw" BY <1>0, <2>1, <2>2 DEF Files
  <2>3. CASE pc[r] # "raw"
    <3>1. file'["raw"] = file["raw"] BY <1>0, <2>1, <2>3 DEF Files
    <3> QED BY <1>2, <2>3, <3>1
  <2> QED BY <2>2, <2>3
<1>6. ASSUME pc[r] # "raw", UNCHANGED file \/ \E g : file' = [file EXCEPT !["main"] = g]
      PROVE  /\ file'["raw"] = file["raw"] /\ ~(pc[r] = "raw" /\ ~half[r] /\ Handler(r))
             /\ RawHalf => RawHalf'
  <2>1. file'["raw"] = file["raw"] BY <1>0, <1>6 DEF Files
  <2> QED BY <1>2, <1>6, <2>1
<1>7. CASE CaptureRead(r) BY <1>6, <1>7 DEF CaptureRead
<1>8. CASE CountLines(r) BY <1>6, <1>8 DEF CountLines
<1>9. CASE TruncateRead(r) BY <1>6, <1>9 DEF TruncateRead
<1>10. CASE TruncateOpen(r) BY <1>6, <1>10 DEF TruncateOpen
<1>11. CASE TruncateWrite(r)
  <2>1. pc[r] # "raw" /\ \E g : file' = [file EXCEPT !["main"] = g] BY <1>11 DEF TruncateWrite
  <2> QED BY <1>6, <2>1
<1>12. CASE Emit(r) BY <1>6, <1>12 DEF Emit
<1>13. CASE Forward(r) BY <1>6, <1>13 DEF Forward
<1> QED BY <1>3, <1>4, <1>5, <1>7, <1>8, <1>9, <1>10, <1>11, <1>12, <1>13 DEF Handler

\* A raw log does not become whole again.
LEMMA GluedLive ==
  ASSUME TypeOK, Control, NEW r \in Requests, Start(r) \/ Handler(r) \/ OpenMissing(r),
         ~RawGlued'
  PROVE  ~RawGlued
<1> DEFINE ls == file["raw"].lines
           t == file["raw"].tail
<1>2. CASE file'["raw"] = file["raw"]
  <2>1. file'["raw"].lines = file["raw"].lines BY <1>2
  <2> QED BY <2>1, GluedStays
<1>3. CASE file'["raw"] = [lines |-> Append(ls, t), tail |-> <<>>]
  <2>1. file'["raw"].lines = Append(ls, t) BY <1>3
  <2> QED BY <2>1, GluedStays
<1>4. CASE file'["raw"] = [lines |-> ls, tail |-> t \o <<r>>]
  <2>1. file'["raw"].lines = ls BY <1>4
  <2> QED BY <2>1, GluedStays
<1> QED BY <1>2, <1>3, <1>4, RawStep

\* A raw log that is clean was clean, and has at most one record more to replay.
LEMMA CleanStep ==
  ASSUME TypeOK, Control, NEW r \in Requests, Start(r) \/ Handler(r) \/ OpenMissing(r), Clean'
  PROVE  /\ Clean
         /\ \/ Replayed' = Replayed /\ ~(pc[r] = "raw" /\ ~half[r] /\ Handler(r))
            \/ Replayed' = ReplayLine(Replayed, <<r>>) /\ pc[r] = "raw" /\ WriteText(r)
<1> DEFINE ls == file["raw"].lines
           t == file["raw"].tail
<1>0. ls \in Seq(Line) /\ t \in Line BY DEF TypeOK, FileName, File
<1>1. ~RawGlued BY GluedLive DEF Clean
<1>2. CASE /\ file'["raw"] = file["raw"] /\ ~(pc[r] = "raw" /\ ~half[r] /\ Handler(r))
           /\ RawHalf => RawHalf'
  <2>1. Clean BY <1>1, <1>2 DEF Clean, RawHalf, rawlog
  <2>2. Replayed' = Replayed BY <1>2 DEF Replayed, rawlog, AllLines
  <2> QED BY <1>2, <2>1, <2>2
<1>3. CASE /\ pc[r] = "raw" /\ half[r]
           /\ file'["raw"] = [lines |-> Append(ls, t), tail |-> <<>>]
  <2>1. Len(t) <= 1
    <3>1. \A i \in DOMAIN Append(ls, t) : ~(Len(Append(ls, t)[i]) > 1)
      BY <1>3 DEF Clean, RawGlued, rawlog
    <3>2. Len(ls) + 1 \in DOMAIN Append(ls, t) /\ Append(ls, t)[Len(ls) + 1] = t
      BY <1>0, LineAppended
    <3>3. Len(t) \in Nat BY <1>0 DEF Line
    <3> QED BY <3>1, <3>2, <3>3
  <2>2. Clean BY <1>1, <2>1 DEF Clean, rawlog
  <2>3. Replayed' = Replay(Append(ls, t))
    BY <1>3 DEF Replayed, rawlog, AllLines
  <2>4. CASE t = <<>>
    <3>1. Replayed = Replay(ls) BY <2>4 DEF Replayed, rawlog, AllLines
    <3>2. Replay(Append(ls, t)) = ReplayLine(Replay(ls), t) BY <1>0, ReplayNext1
    <3>3. Len(t) # 1 BY <2>4
    <3>4. ReplayLine(Replay(ls), t) = Replay(ls) BY <3>3, ReplaySkips
    <3> QED BY <1>3, <2>2, <2>3, <3>1, <3>2, <3>4
  <2>5. CASE t # <<>>
    <3>1. Replayed = Replay(Append(ls, t)) BY <2>5 DEF Replayed, rawlog, AllLines
    <3> QED BY <1>3, <2>2, <2>3, <3>1
  <2> QED BY <2>4, <2>5
<1>4. CASE /\ pc[r] = "raw" /\ ~half[r] /\ WriteText(r) /\ RawHalf'
           /\ file'["raw"] = [lines |-> ls, tail |-> t \o <<r>>]
  <2>1. Len(t \o <<r>>) <= 1 BY <1>4 DEF Clean, RawHalf, rawlog
  <2>2. <<r>> \in Line BY DEF Line
  <2>3. Len(t \o <<r>>) = Len(t) + 1 /\ Len(t) \in Nat
    BY <1>0, <2>2, ConcatProperties DEF Line
  <2>4. t = <<>> BY <1>0, <2>1, <2>3, EmptySeq DEF Line
  <2>5. t \o <<r>> = <<r>> BY <2>2, <2>4, ConcatEmptySeq DEF Line
  <2>6. Clean
    <3>1. Len(t) <= 1 BY <2>4
    <3> QED BY <1>1, <3>1 DEF Clean, rawlog
  <2>7. Replayed = Replay(ls) BY <2>4 DEF Replayed, rawlog, AllLines
  <2>8. Replayed' = Replay(Append(ls, <<r>>))
    <3>1. <<r>> # <<>> OBVIOUS
    <3>2. file'["raw"].tail = <<r>> /\ file'["raw"].lines = ls BY <1>4, <2>5
    <3>3. AllLines(rawlog)' = Append(ls, <<r>>) BY <3>1, <3>2 DEF rawlog, AllLines
    <3> QED BY <3>3 DEF Replayed
  <2>9. Replay(Append(ls, <<r>>)) = ReplayLine(Replay(ls), <<r>>) BY <1>0, <2>2, ReplayNext1
  <2> QED BY <1>4, <2>6, <2>7, <2>8, <2>9
<1> QED BY <1>2, <1>3, <1>4, RawStep

\* The main log of a session that goes well is there when it is to be emptied.
LEMMA NotMissing ==
  ASSUME Ordered, MissingInv, NEW r \in Requests, OpenMissing(r), NEW d, Live(d)
  PROVE  FALSE
<1>1. pc[r] = "trunc_open" /\ "main" \in missing BY DEF OpenMissing
<1>2. file["main"] = EmptyFile BY <1>1 DEF MissingInv
<1>3. /\ TypeOK /\ OneLoop /\ LiveLoop(d) /\ file \in Files
      /\ pc[r] \in OpenSteps
  BY <1>1 DEF Ordered, Live, TypeOK, Files, OpenSteps, LoopSteps
<1>4. LoopAt(file, r, "trunc_open", half[r], snap[r], keep[r], line[r], d)
  BY <1>1, <1>3, LoopStage
<1>5. \E G : G = [file EXCEPT !["main"] = EmptyFile] OBVIOUS
<1>6. file["main"] # EmptyFile BY <1>3, <1>4, <1>5, LoopTruncateOpen
<1> QED BY <1>2, <1>6

\* What is under way leads to the same contents, but for a record that reaches
\* the raw log.
LEMMA LiveElsewhere ==
  ASSUME Ordered, MissingInv, NEW r \in Requests,
         LiveStart(r) \/ LiveStep(r) \/ OpenMissing(r),
         ~(pc[r] = "raw" /\ ~half[r] /\ Handler(r)), NEW d, Live(d)
  PROVE  Live(d)'
<1>1. CASE LiveStart(r)
  <2>1. Start(r) BY <1>1 DEF LiveStart
  <2>2. TypeOK /\ Control BY DEF Ordered
  <2>3. Others(r) BY <2>1, <2>2, HandlerAlone
  <2>4. /\ pc[r] = "idle" /\ pc'[r] = "raw" /\ UNCHANGED <<file, half>>
    BY <2>1, <2>2 DEF Start, Goto, TypeOK, locals
  <2>5. ~half[r] BY <2>2, <2>4 DEF Control, FileName
  <2>6. ~Open(r) /\ ~Open(r)' BY <2>4, <2>5 DEF Open, OpenSteps, LoopSteps
  <2> QED BY <2>3, <2>4, <2>6, LiveAside
<1>2. CASE LiveStep(r)
  <2>1. Handler(r) BY <1>2 DEF LiveStep
  <2>2. ~(pc[r] = "raw" /\ ~half[r]) BY <2>1
  <2> QED BY <2>1, <2>2, LiveHandler
<1>3. CASE OpenMissing(r) BY <1>3, NotMissing
<1> QED BY <1>1, <1>2, <1>3

\* Something is under way to the derived files, whatever step a handler takes.
LEMMA LiveGoes ==
  ASSUME Ordered, MissingInv, NEW r \in Requests,
         LiveStart(r) \/ LiveStep(r) \/ OpenMissing(r), NEW d, Live(d)
  PROVE  \E e \in Contents : Live(e)'
<1>1. CASE ~(pc[r] = "raw" /\ ~half[r] /\ Handler(r))
  <2>1. Live(d)' BY <1>1, LiveElsewhere
  <2>2. d \in Contents BY DEF Live, Good
  <2> QED BY <2>1, <2>2
<1>2. CASE pc[r] = "raw" /\ ~half[r] /\ Handler(r)
  <2>1. WriteText(r)
    BY <1>2 DEF Handler, WriteNewline, CaptureRead, CountLines, TruncateRead,
       TruncateOpen, TruncateWrite, Emit, Forward
  <2>2. PICK e : e = ReplayLine(d, <<r>>) OBVIOUS
  <2>3. Live(e)' BY <1>2, <2>1, <2>2, RawText
  <2>4. e \in Contents
    <3>1. <<r>> \in Line BY DEF Line
    <3> QED BY <2>2, <3>1, ReplayGood DEF Live, Good
  <2> QED BY <2>3, <2>4
<1> QED BY <1>1, <1>2

Lasting == CleanLive /\ SpotlessLive /\ AloneInv /\ RefsInv

\* A handler keeps up what leads to the files of a replay.
LEMMA LastingLive ==
  ASSUME ReplayTypes, Control, MissingInv, Flags, Lasting, NEW r \in Requests,
         LiveStart(r) \/ LiveStep(r) \/ OpenMissing(r)
  PROVE  Lasting'
<1>0. /\ TypeOK /\ alone \in BOOLEAN /\ exact \in BOOLEAN /\ spotless \in BOOLEAN
  BY DEF ReplayTypes
<1>1. Start(r) \/ Handler(r) \/ OpenMissing(r) BY DEF LiveStart, LiveStep
<1>2. exact => at = "off" /\ Ordered BY <1>0 DEF Flags, Ordered
<1>3. /\ at' = at /\ exact' = exact /\ replays' = replays
      /\ alone' => alone
      /\ spotless' => spotless
      /\ at # "off" /\ alone' => Handler(r) \/ OpenMissing(r)
  <2>1. CASE LiveStart(r)
    <3>1. /\ at' = at /\ exact' = exact /\ replays' = replays
          /\ alone' = (alone /\ at = "off") /\ spotless' = (spotless /\ at = "off")
      BY <2>1 DEF LiveStart, process
    <3> QED BY <3>1
  <2>2. CASE LiveStep(r) \/ OpenMissing(r)
    <3>1. /\ at' = at /\ exact' = exact /\ replays' = replays
          /\ alone' = alone /\ spotless' = spotless /\ (Handler(r) \/ OpenMissing(r))
      BY <2>2 DEF LiveStep, OpenMissing, process, flags, replayVars
    <3> QED BY <3>1
  <2> QED BY <2>1, <2>2
<1>4. ASSUME at # "off", alone' PROVE FALSE
  <2>1. Quiet BY <1>3, <1>4 DEF Flags
  <2>2. pc[r] \in Active BY <1>3, <1>4, HandlerActive
  <2> QED BY <2>1, <2>2 DEF Quiet
<1>5. ASSUME at # "off", spotless' PROVE FALSE
  <2>1. alone /\ spotless BY <1>3, <1>5 DEF Flags
  <2>2. ~LiveStart(r) BY <1>5 DEF LiveStart
  <2>3. Handler(r) \/ OpenMissing(r) BY <2>2 DEF LiveStart, LiveStep
  <2>4. Quiet BY <1>5, <2>1 DEF Flags
  <2>5. pc[r] \in Active BY <2>3, HandlerActive
  <2> QED BY <2>4, <2>5 DEF Quiet
<1>6. AloneInv' BY <1>3, <1>4 DEF AloneInv
<1>7. RefsInv' BY <1>3, <1>5 DEF RefsInv
<1>8. CleanLive'
  <2> SUFFICES ASSUME exact', Clean' PROVE (\E d \in Contents : d = Replayed /\ Live(d))'
    BY DEF CleanLive
  <2>1. Ordered BY <1>2, <1>3
  <2>2. /\ Clean
        /\ \/ Replayed' = Replayed /\ ~(pc[r] = "raw" /\ ~half[r] /\ Handler(r))
           \/ Replayed' = ReplayLine(Replayed, <<r>>) /\ pc[r] = "raw" /\ WriteText(r)
    BY <1>0, <1>1, CleanStep
  <2>3. PICK d \in Contents : d = Replayed /\ Live(d) BY <1>3, <2>2 DEF Lasting, CleanLive
  <2>4. CASE Replayed' = Replayed /\ ~(pc[r] = "raw" /\ ~half[r] /\ Handler(r))
    <3>1. Live(d)' BY <2>1, <2>3, <2>4, LiveElsewhere
    <3> QED BY <2>3, <2>4, <3>1
  <2>5. CASE Replayed' = ReplayLine(Replayed, <<r>>) /\ pc[r] = "raw" /\ WriteText(r)
    <3>1. PICK e : e = ReplayLine(d, <<r>>) OBVIOUS
    <3>2. Live(e)' BY <2>1, <2>3, <2>5, <3>1, RawText
    <3>3. <<r>> \in Line BY DEF Line
    <3>4. e \in Contents BY <2>3, <3>1, <3>3, ReplayGood DEF Live, Good
    <3>5. e = Replayed' BY <2>3, <2>5, <3>1
    <3> QED BY <3>2, <3>4, <3>5
  <2> QED BY <2>2, <2>4, <2>5
<1>9. SpotlessLive'
  <2> SUFFICES ASSUME spotless', at' = "off", (replays = 0 \/ ~RawGlued)'
               PROVE  (LiveRefs /\ \E d \in Contents : Live(d))'
    BY DEF SpotlessLive
  <2>1. spotless /\ at = "off" BY <1>3
  <2>2. Ordered BY <1>2, <2>1 DEF Flags
  <2>3. replays = 0 \/ ~RawGlued
    <3>1. ~RawGlued' => ~RawGlued BY <1>0, <1>1, GluedLive
    <3> QED BY <1>3, <3>1
  <2>4. LiveRefs BY <2>1, <2>3 DEF Lasting, SpotlessLive
  <2>5. PICK d \in Contents : Live(d) BY <2>1, <2>3 DEF Lasting, SpotlessLive
  <2>6. \E e \in Contents : Live(e)' BY <2>2, <2>5, LiveGoes
  <2>7. LiveRefs'
    <3>1. ~OpenMissing(r) BY <2>2, <2>5, NotMissing
    <3>2. Handler(r) \/ Start(r) BY <1>1, <3>1
    <3> QED BY <2>2, <2>4, <2>5, <3>2, RefsHandler
  <2> QED BY <2>6, <2>7
<1> QED BY <1>6, <1>7, <1>8, <1>9 DEF Lasting

\* Errors, crashes and archived files end what was kept up so far.
LEMMA LastingBroken ==
  ASSUME ReplayTypes, Control, Flags, Lasting,
         LiveCrash \/ \E r \in Requests : MovedStep(r) \/ LiveFault(r)
  PROVE  Lasting'
<1>1. /\ at' = at /\ exact' \in {exact, FALSE} /\ spotless' \in {spotless, FALSE}
      /\ alone' = alone
  BY DEF LiveCrash, MovedStep, LiveFault, Spoiled, process, flags
<1>2. \E r \in Requests : pc[r] \in Active
  <2>1. CASE LiveCrash BY <2>1 DEF LiveCrash, Crash
  <2>2. CASE \E r \in Requests : MovedStep(r) \/ LiveFault(r)
    <3>1. PICK r \in Requests : MovedStep(r) \/ Fault(r) BY <2>2 DEF LiveFault
    <3> QED BY <3>1, HandlerActive
  <2> QED BY <2>1, <2>2
<1>3. ~(at # "off" /\ alone) BY <1>2 DEF Flags, Quiet
<1>4. ~exact'
  <2>1. CASE \E r \in Requests : MovedStep(r) BY <1>1, <2>1 DEF MovedStep, Flags
  <2>2. CASE LiveCrash \/ \E r \in Requests : LiveFault(r)
    BY <2>2 DEF LiveCrash, LiveFault, Spoiled
  <2> QED BY <2>1, <2>2
<1>5. ~spotless'
  <2>1. CASE \E r \in Requests : MovedStep(r) BY <1>1, <1>3, <2>1 DEF MovedStep, Flags
  <2>2. CASE LiveCrash \/ \E r \in Requests : LiveFault(r)
    BY <2>2 DEF LiveCrash, LiveFault, Spoiled
  <2> QED BY <2>1, <2>2
<1> QED BY <1>1, <1>3, <1>4, <1>5 DEF Lasting, CleanLive, SpotlessLive, AloneInv, RefsInv

-----------------------------------------------------------------------------
(* A replay that is alone *)

\* The raw log and the handlers stay as they are while the replay works.
ReplayFrame ==
  /\ file'["raw"] = file["raw"]
  /\ alone' = alone /\ spotless' = spotless /\ exact' = exact /\ replays' = replays

\* First the files go, all of them.
LEMMA AloneArchive ==
  ASSUME ReplayTypes, Alone, archive_derived_files
  PROVE  Alone' /\ ReplayFrame
<1>0. /\ file \in Files /\ left \in Seq(Derived) /\ at = "archive"
      /\ UNCHANGED <<read, mine, replays, alone, exact, spotless>>
  BY DEF ReplayTypes, TypeOK, Files, archive_derived_files, flags
<1>1. Position /\ \A f \in Derived : file[f] = EmptyFile \/ \E i \in DOMAIN left : left[i] = f
  BY <1>0 DEF Alone
<1>2. CASE left = <<>>
  <2>1. at' = "watcher" /\ UNCHANGED file BY <1>2 DEF archive_derived_files
  <2>2. DOMAIN left = {}
    <3>1. Len(left) = 0 BY <1>2
    <3> QED BY <1>0, <3>1
  <2>3. \A f \in Derived : file'[f] = EmptyFile BY <1>1, <2>1, <2>2
  <2>4. Position' BY <1>0, <1>1, <2>1 DEF Position, rawlog
  <2> QED BY <1>0, <2>1, <2>3, <2>4 DEF Alone, Process, ReplayFrame
<1>3. CASE left # <<>>
  <2> DEFINE f == Head(left)
  <2>1. left' = Tail(left) /\ at' = at /\ file' = [file EXCEPT ![f] = EmptyFile]
    BY <1>3 DEF archive_derived_files
  <2>2. /\ f \in Derived /\ f = left[1]
        /\ Len(Tail(left)) = Len(left) - 1 /\ Tail(left) \in Seq(Derived)
        /\ \A i \in 1..Len(Tail(left)) : Tail(left)[i] = left[i + 1]
    BY <1>0, <1>3, HeadTailProperties
  <2>3. f # "raw" /\ f \in FileName /\ "raw" \in FileName BY <2>2 DEF Derived, FileName
  <2> HIDE DEF f
  <2>4. file'["raw"] = file["raw"] BY <1>0, <2>1, <2>3 DEF Files
  <2>5. ASSUME NEW g \in Derived
        PROVE  file'[g] = EmptyFile \/ \E i \in DOMAIN left' : left'[i] = g
    <3>1. CASE g = f BY <1>0, <2>1, <2>3, <3>1 DEF Files
    <3>2. CASE g # f
      <4>1. file'[g] = file[g] BY <1>0, <2>1, <2>3, <3>2 DEF Files
      <4>2. CASE \E i \in DOMAIN left : left[i] = g
        <5>1. PICK i \in 1..Len(left) : left[i] = g BY <1>0, <4>2
        <5>2. i # 1 BY <2>2, <3>2, <5>1
        <5>3. Len(left) \in Nat BY <1>0
        <5>4. i - 1 \in 1..Len(Tail(left)) BY <2>2, <5>1, <5>2, <5>3
        <5>5. Tail(left)[i - 1] = left[(i - 1) + 1] BY <2>2, <5>4
        <5>6. i - 1 \in DOMAIN Tail(left) BY <2>2, <5>4
        <5>7. (i - 1) + 1 = i BY <5>1
        <5> QED BY <2>1, <5>1, <5>5, <5>6, <5>7
      <4> QED BY <1>1, <4>1, <4>2
    <3> QED BY <3>1, <3>2
  <2>6. Position' BY <1>0, <1>1, <2>1, <2>4 DEF Position, rawlog
  <2> QED BY <1>0, <2>1, <2>4, <2>5, <2>6 DEF Alone, Process, ReplayFrame
<1> QED BY <1>2, <1>3

\* Nothing is taken yet, and nothing is there.
LEMMA AloneWatcher ==
  ASSUME ReplayTypes, Alone, spawn_watcher
  PROVE  Alone' /\ ReplayFrame
<1>0. /\ at = "watcher" /\ at' = "next" /\ UNCHANGED <<vars, read, mine, replays, alone, exact, spotless>>
  BY DEF spawn_watcher, flags
<1>1. Position /\ \A f \in Derived : file[f] = EmptyFile BY <1>0 DEF Alone
<1>2. UNCHANGED file BY <1>0 DEF vars
<1>3. read' = [lines |-> 0, bodies |-> 0] BY <1>0, <1>1 DEF Position
<1>4. Taken' = <<>>
  <2>1. \A s : SubSeq(s, 1, 0) = <<>> BY SubSeqEmpty
  <2> QED BY <1>3, <2>1 DEF Taken
<1>5. Empties \in Contents /\ Empties = Replay(<<>>) /\ Good(Empties)
  BY ReplayEmpty DEF Good
<1>6. \A f \in Derived : Empties[f] = <<>> BY DEF Empties
<1>7. LoopFiles \subseteq Derived /\ "sub" \in Derived BY DEF LoopFiles, Derived, FileName
<1>8. LoopDone(file', Empties) /\ Kept(file', "sub", Empties)
  BY <1>1, <1>2, <1>6, <1>7 DEF LoopDone, Kept, Full, EmptyFile
<1>9. Reach(Empties)' BY <1>0, <1>5, <1>8 DEF Reach, OpenSteps, LoopSteps
<1>10. Position' BY <1>0, <1>1, <1>2 DEF Position, rawlog
<1>11. (\E d \in Contents : d = Replay(Taken) /\ Reach(d))' BY <1>4, <1>5, <1>9
<1> QED BY <1>0, <1>2, <1>10, <1>11 DEF Alone, ReplayFrame

\* What the replay takes next are whole lines of the raw log, in order.
LEMMA NextTaken ==
  ASSUME ReplayTypes, Position, NextLine
  PROVE  /\ Taken \in Seq(Line)
         /\ \E l \in Line : process_line(l) /\ Taken' = Append(Taken, l)
         /\ read'.lines <= Len(rawlog.lines)
         /\ read'.bodies # 0 => read'.lines = Len(rawlog.lines) /\ read'.bodies = Len(rawlog.tail)
<1> DEFINE ls == file["raw"].lines
           t == file["raw"].tail
           from(l) == SubSeq(l, read.bodies + 1, Len(l))
<1>0. /\ ls \in Seq(Line) /\ t \in Line /\ Len(ls) \in Nat /\ Len(t) \in Nat
      /\ read.lines \in Nat /\ read.bodies \in Nat /\ file' = file
      /\ read \in [lines : Nat, bodies : Nat]
  <2>1. ls \in Seq(Line) /\ t \in Line BY DEF ReplayTypes, TypeOK, FileName, File
  <2>2. read.lines \in Nat /\ read.bodies \in Nat /\ file' = file
        /\ read \in [lines : Nat, bodies : Nat]
    BY DEF ReplayTypes, NextLine, vars
  <2> QED BY <2>1, <2>2 DEF Line
<1>1. /\ read.lines <= Len(ls)
      /\ read.bodies # 0 => read.lines = Len(ls) /\ read.bodies = Len(t)
  BY DEF Position, rawlog
<1>2. \A l \in Line : read.bodies = 0 => from(l) = l
  BY SubSeqFull DEF Line
<1>3. CASE /\ read.lines < Len(ls) /\ process_line(from(ls[read.lines + 1]))
           /\ read' = [lines |-> read.lines + 1, bodies |-> 0]
  <2> DEFINE l == ls[read.lines + 1]
  <2>1. read.bodies = 0 BY <1>1, <1>3
  <2>2. read.lines + 1 \in 1..Len(ls) BY <1>0, <1>3
  <2>3. l \in Line BY <1>0, <2>2
  <2>4. process_line(l) BY <1>2, <1>3, <2>1, <2>3
  <2>5. Taken = SubSeq(ls, 1, read.lines) BY <2>1 DEF Taken, rawlog
  <2>6. Taken' = SubSeq(ls, 1, read.lines + 1) BY <1>0, <1>3 DEF Taken, rawlog
  <2>7. \A i \in 1..Len(ls) : ls[i] \in Line BY <1>0
  <2>8. Taken \in Seq(Line)
    <3>1. \A i \in 1..read.lines : ls[i] \in Line BY <1>0, <1>3, <2>7
    <3> QED BY <1>0, <2>5, <3>1, SubSeqProperties
  <2>9. Taken' = Append(Taken, l)
    <3>1. 1 \in 1..Len(ls) /\ read.lines + 1 \in 1..Len(ls) BY <1>0, <1>3
    <3>2. SubSeq(ls, 1, read.lines + 1) = SubSeq(ls, 1, (read.lines + 1) - 1) \o <<ls[read.lines + 1]>>
      BY <1>0, <3>1, SubSeqRecursiveSecond
    <3>3. (read.lines + 1) - 1 = read.lines BY <1>0
    <3>4. Append(Taken, l) = Taken \o <<l>> BY <2>3, <2>8, AppendIsConcat
    <3> QED BY <2>5, <2>6, <3>2, <3>3, <3>4
  <2>10. read'.lines <= Len(ls) /\ read'.bodies = 0 BY <1>0, <1>3
  <2> HIDE DEF l
  <2> QED BY <2>3, <2>4, <2>8, <2>9, <2>10 DEF rawlog
<1>4. CASE /\ read.lines = Len(ls) /\ read.bodies < Len(t) /\ process_line(from(t))
           /\ read' = [read EXCEPT !.bodies = Len(t)]
  <2>1. read.bodies = 0 BY <1>0, <1>1, <1>4
  <2>2. process_line(t) BY <1>0, <1>2, <1>4, <2>1
  <2>3. Taken = ls
    <3>1. SubSeq(ls, 1, Len(ls)) = ls BY <1>0, SubSeqFull
    <3> QED BY <1>4, <2>1, <3>1 DEF Taken, rawlog
  <2>4. t # <<>>
    <3>1. Len(<<>>) = 0 OBVIOUS
    <3> QED BY <1>4, <2>1, <3>1
  <2>5. read'.bodies = Len(t) /\ read'.lines = Len(ls) /\ read'.bodies # 0
    BY <1>0, <1>4, <2>1
  <2>6. Taken' = Append(ls, t) BY <1>0, <2>4, <2>5 DEF Taken, rawlog, AllLines
  <2> QED BY <1>0, <2>2, <2>3, <2>5, <2>6 DEF rawlog
<1> QED BY <1>3, <1>4 DEF NextLine

\* The record of the next line is under way, or the line is skipped.
LEMMA AloneNext ==
  ASSUME ReplayTypes, Alone, NextLine
  PROVE  Alone' /\ ReplayFrame
<1>0. /\ file \in Files /\ at = "next" /\ file' = file
      /\ UNCHANGED <<replays, alone, exact, spotless>>
  BY DEF ReplayTypes, TypeOK, Files, NextLine, vars, flags
<1>1. Position /\ \E d \in Contents : d = Replay(Taken) /\ Reach(d) BY <1>0 DEF Alone
<1>2. PICK d \in Contents : d = Replay(Taken) /\ Reach(d) BY <1>1
<1>3. Taken \in Seq(Line) BY <1>1, NextTaken
<1>4. PICK l \in Line : process_line(l) /\ Taken' = Append(Taken, l) BY <1>1, NextTaken
<1>5. PICK e : e = ReplayLine(d, l) OBVIOUS
<1>6. Replay(Taken)' = e
  <2>1. PICK ts \in Seq(Line) : ts = Taken BY <1>3
  <2>2. Replay(Append(ts, l)) = ReplayLine(Replay(ts), l) BY <2>1, ReplayNext1
  <2> QED BY <1>2, <1>4, <1>5, <2>1, <2>2
<1>7. Good(d) /\ LoopDone(file, d) /\ Kept(file, "sub", d)
  BY <1>0, <1>2 DEF Reach, OpenSteps, LoopSteps
<1>8. Good(e) /\ e \in Contents BY <1>5, <1>7, ReplayGood DEF Good
<1>9. Position' /\ Reach(e)' /\ at' \in {"next"} \cup Process
  <2>1. /\ read'.lines <= Len(rawlog.lines)
        /\ read'.bodies # 0 => read'.lines = Len(rawlog.lines) /\ read'.bodies = Len(rawlog.tail)
    BY <1>1, NextTaken
  <2>2. CASE Len(l) = 1 /\ l[1] # Torn
    <3>1. PICK r \in Requests : r = l[1] /\ l = <<r>> BY <2>2, OneRecord
    <3>2. mine' = [Nothing EXCEPT !.req = r] /\ at' = Route(r)
      BY <1>4, <2>2, <3>1 DEF process_line
    <3>3. mine'.req = r /\ mine'.half = FALSE /\ mine'.line = 0 BY <3>2 DEF Nothing
    <3>4. /\ Kind(r) \in Loop =>
               \A h, s, k, n : LoopAt(file, r, Route(r), FALSE, s, k, n, e)
          /\ Kind(r) \notin Loop => LoopDone(file, e)
      BY <1>0, <1>5, <1>7, <3>1, LoopEnters
    <3>5. /\ Kind(r) = "Subagent" => Appending(file, "sub", <<r>>, FALSE, e)
          /\ Kind(r) # "Subagent" => e["sub"] = d["sub"]
      BY <1>5, <1>7, <3>1, SubEnters
    <3>6. at' \in {"next", "main", "sub", "capture"} BY <3>2, KindOf DEF Route
    <3>7. Position' BY <1>0, <1>1, <2>1, <3>3, <3>6 DEF Position, rawlog
    <3>8. CASE Kind(r) \in Loop
      <4>1. at' \in {"main", "capture"} /\ at' = Route(r) BY <3>2, <3>8 DEF Route, Loop
      <4>2. at' \in OpenSteps /\ at' # "sub" BY <4>1 DEF OpenSteps, LoopSteps
      <4>3. LoopAt(file', mine'.req, at', mine'.half, mine'.snap, mine'.keep, mine'.line, e)
        BY <1>0, <3>3, <3>4, <3>8, <4>1
      <4>4. Kept(file', "sub", e) BY <1>0, <1>7, <3>5, <3>8 DEF Kept, Loop
      <4> QED BY <1>8, <3>7, <4>1, <4>2, <4>3, <4>4 DEF Reach, Process
    <3>9. CASE Kind(r) = "Subagent"
      <4>1. at' = "sub" /\ at' \notin OpenSteps BY <3>2, <3>9 DEF Route, OpenSteps, LoopSteps
      <4>2. Appending(file', "sub", <<mine'.req>>, mine'.half, e) BY <1>0, <3>3, <3>5, <3>9
      <4>3. LoopDone(file', e) BY <1>0, <3>4, <3>9 DEF Loop
      <4> QED BY <1>8, <3>7, <4>1, <4>2, <4>3 DEF Reach, Process
    <3>10. CASE Kind(r) = "None"
      <4>1. at' = "next" /\ at' \notin OpenSteps BY <3>2, <3>10 DEF Route, OpenSteps, LoopSteps
      <4>2. LoopDone(file', e) BY <1>0, <3>4, <3>10 DEF Loop
      <4>3. Kept(file', "sub", e) BY <1>0, <1>7, <3>5, <3>10 DEF Kept
      <4> QED BY <1>8, <3>7, <4>1, <4>2, <4>3 DEF Reach
    <3> QED BY <3>8, <3>9, <3>10, KindOf DEF Loop
  <2>3. CASE ~(Len(l) = 1 /\ l[1] # Torn)
    <3>1. mine' = mine /\ at' = "next" BY <1>0, <1>4, <2>3 DEF process_line
    <3>2. e = d BY <1>5, <2>3, ReplaySkips
    <3>3. Position' BY <1>0, <1>1, <2>1, <3>1 DEF Position, rawlog
    <3>4. Reach(e)' BY <1>0, <1>7, <3>1, <3>2 DEF Reach, OpenSteps, LoopSteps
    <3> QED BY <3>1, <3>3, <3>4
  <2> QED BY <2>2, <2>3
<1>10. (\E x \in Contents : x = Replay(Taken) /\ Reach(x))'
  BY <1>6, <1>8, <1>9
<1>11. at' \notin {"archive", "watcher"} BY <1>9 DEF Process
<1> QED BY <1>0, <1>9, <1>10, <1>11 DEF Alone, ReplayFrame

\* What a record that is under way leads to stays what has been taken.
LEMMA AloneWork ==
  ASSUME Position, NEW d \in Contents, d = Replay(Taken), Reach(d)',
         UNCHANGED <<read, replays>>, file'["raw"] = file["raw"],
         at' \in {"next"} \cup (Process \ {"capture"})
  PROVE  Alone'
<1>1. Taken' = Taken BY DEF Taken, rawlog, AllLines
<1>2. d = Replay(Taken)' BY <1>1
<1>3. at' \notin {"archive", "watcher", "capture"} BY DEF Process
<1>4. Position' BY <1>3 DEF Position, rawlog
<1>5. (\E x \in Contents : x = Replay(Taken) /\ Reach(x))' BY <1>2
<1> QED BY <1>3, <1>4, <1>5 DEF Alone

\* A record that is under way.
LEMMA AloneReach ==
  ASSUME ReplayTypes, Alone, at \in Process
  PROVE  /\ Position /\ (\E d \in Contents : d = Replay(Taken) /\ Reach(d))
         /\ file \in Files /\ mine \in Mine /\ mine.req \in Requests /\ mine.snap \in Line
         /\ mine.line \in Nat /\ mine.half \in BOOLEAN
BY DEF ReplayTypes, TypeOK, Files, Alone, Mine

\* A step of a replay that leaves the references right.
LEMMA ReplayRefsMove ==
  ASSUME ReplayTypes, ReplayRefs, at # "archive", at' # "archive",
         file'["raw"] = file["raw"], Grows,
         \A x \in refs' : x \in refs \/ (RefOK(x.line, x.snap, file["pre"].lines) /\ x.line \in Nat),
         at' \in Telling => RefOK(mine'.line, mine'.snap, file'["pre"].lines)
  PROVE  ReplayRefs'
<1>1. TypeOK BY DEF ReplayTypes
<1>2. Replayed' = Replayed BY DEF Replayed, rawlog, AllLines
<1>3. \A n \in Nat : \A s : RefOK(n, s, file["pre"].lines) => RefOK(n, s, file'["pre"].lines)
  BY <1>1, RefGrown
<1>4. \A x \in refs : x.line \in Nat BY <1>1 DEF TypeOK
<1>5. ASSUME NEW x \in refs'
      PROVE  RefOK(x.line, x.snap, Replayed["pre"]) \/ RefOK(x.line, x.snap, file'["pre"].lines)
  <2>1. CASE x \in refs BY <1>3, <1>4, <2>1 DEF ReplayRefs
  <2>2. CASE RefOK(x.line, x.snap, file["pre"].lines) /\ x.line \in Nat BY <1>3, <2>2
  <2> QED BY <2>1, <2>2
<1> QED BY <1>2, <1>5 DEF ReplayRefs

\* The text of a record.
LEMMA AloneText ==
  ASSUME ReplayTypes, Alone, ReplayText
  PROVE  Alone' /\ ReplayFrame /\ (ReplayRefs => ReplayRefs')
<1> DEFINE new == [lines |-> file[at].lines,
                   tail |-> file[at].tail \o TextOf(mine.req, at, mine.snap)]
<1>0. /\ at \in Derived /\ ~mine.half /\ file' = [file EXCEPT ![at] = new]
      /\ mine' = [mine EXCEPT !.half = TRUE]
      /\ UNCHANGED <<refs, at, read, alone, exact, spotless, replays>>
  BY DEF ReplayText, TextOf, flags
<1>1. at \in Process /\ at \in FileName /\ at # "raw" /\ "raw" \in FileName /\ "sub" \in FileName
      /\ LoopFiles \subseteq FileName \ {"sub"} /\ "pre" \in FileName
  BY <1>0 DEF Process, Derived, FileName, LoopFiles
<1>2. /\ Position /\ file \in Files /\ mine \in Mine /\ mine.req \in Requests /\ mine.snap \in Line
      /\ mine.half = FALSE
  BY <1>0, <1>1, AloneReach
<1>3. PICK d \in Contents : d = Replay(Taken) /\ Reach(d) BY <1>1, AloneReach
<1>4. mine'.half = TRUE /\ mine'.req = mine.req /\ mine'.snap = mine.snap
      /\ mine'.keep = mine.keep /\ mine'.line = mine.line
  BY <1>0, <1>2 DEF Mine
<1> HIDE DEF new
<1>5. file'[at] = new /\ \A f \in FileName \ {at} : file'[f] = file[f]
  BY <1>0, <1>1, <1>2 DEF Files
<1>6. Reach(d)'
  <2>1. CASE at \in LoopFiles
    <3>1. at \in OpenSteps /\ at # "sub" BY <2>1 DEF LoopFiles, OpenSteps, LoopSteps
    <3>2. LoopAt(file, mine.req, at, FALSE, mine.snap, mine.keep, mine.line, d)
      BY <1>2, <1>3, <3>1 DEF Reach
    <3>3. LoopAt(file', mine.req, at, TRUE, mine.snap, mine.keep, mine.line, d)
      BY <1>0, <1>2, <2>1, <3>2, LoopText DEF new
    <3>4. file'["sub"] = file["sub"] BY <1>1, <1>5, <3>1
    <3>5. Kept(file', "sub", d) BY <1>3, <3>1, <3>4 DEF Reach, Kept
    <3> QED BY <1>0, <1>3, <1>4, <3>1, <3>3, <3>5 DEF Reach
  <2>2. CASE at = "sub"
    <3>1. at \notin OpenSteps BY <2>2 DEF OpenSteps, LoopSteps
    <3>2. LoopDone(file, d) /\ Appending(file, "sub", <<mine.req>>, FALSE, d)
      BY <1>2, <1>3, <2>2, <3>1 DEF Reach
    <3>3. file'["sub"] = [lines |-> file["sub"].lines, tail |-> file["sub"].tail \o <<mine.req>>]
      BY <1>5, <2>2 DEF new, TextOf
    <3>4. <<mine.req>> \in Line BY <1>2 DEF Line
    <3>5. Appending(file', "sub", <<mine.req>>, TRUE, d) BY <3>2, <3>3, <3>4, TextWritten
    <3>6. \A f \in LoopFiles : file'[f] = file[f] /\ d[f] = d[f] BY <1>1, <1>5, <2>2
    <3>7. LoopDone(file', d) BY <3>2, <3>6, LoopFrame
    <3> QED BY <1>0, <1>3, <1>4, <2>2, <3>1, <3>5, <3>7 DEF Reach
  <2> QED BY <1>0, <2>1, <2>2 DEF Derived, FileName, LoopFiles
<1>7. file'["raw"] = file["raw"] BY <1>1, <1>5
<1>8. Alone'
  <2>1. at # "capture" BY <1>0 DEF Derived, FileName
  <2> QED BY <1>0, <1>1, <1>2, <1>3, <1>6, <1>7, <2>1, AloneWork
<1>9. ASSUME ReplayRefs PROVE ReplayRefs'
  <2>1. file'["pre"].lines = file["pre"].lines
    <3>1. CASE at = "pre" BY <1>5, <3>1 DEF new
    <3>2. CASE at # "pre" BY <1>1, <1>5, <3>2
    <3> QED BY <3>1, <3>2
  <2>2. at \in Telling => RefOK(mine'.line, mine'.snap, file'["pre"].lines)
    BY <1>4, <1>9, <2>1 DEF ReplayRefs
  <2>3. at # "archive" BY <1>0 DEF Derived, FileName
  <2> QED BY <1>0, <1>7, <1>9, <2>1, <2>2, <2>3, ReplayRefsMove DEF Grows
<1> QED BY <1>0, <1>7, <1>8, <1>9 DEF ReplayFrame

\* The end of its line.
LEMMA AloneNewline ==
  ASSUME ReplayTypes, Alone, ReplayNewline
  PROVE  Alone' /\ ReplayFrame /\ (ReplayRefs => ReplayRefs')
<1> DEFINE new == [lines |-> Append(file[at].lines, file[at].tail), tail |-> <<>>]
<1>0. /\ at \in Derived /\ mine.half /\ file' = [file EXCEPT ![at] = new]
      /\ mine' = [mine EXCEPT !.half = FALSE]
      /\ at' = CASE at \in {"main", "sub"} -> "next"
                 [] at = "pre" -> "count"
                 [] at = "comp" -> IF mine.line = 0 THEN "emit" ELSE "trunc_read"
      /\ UNCHANGED <<refs, read, alone, exact, spotless, replays>>
  BY DEF ReplayNewline, flags
<1>1. at \in Process /\ at \in FileName /\ at # "raw" /\ "raw" \in FileName /\ "sub" \in FileName
      /\ LoopFiles \subseteq FileName \ {"sub"} /\ "pre" \in FileName
  BY <1>0 DEF Process, Derived, FileName, LoopFiles
<1>2. /\ Position /\ file \in Files /\ mine \in Mine /\ mine.req \in Requests /\ mine.snap \in Line
      /\ mine.half = TRUE
  BY <1>0, <1>1, AloneReach
<1>3. PICK d \in Contents : d = Replay(Taken) /\ Reach(d) BY <1>1, AloneReach
<1>4. mine'.half = FALSE /\ mine'.req = mine.req /\ mine'.snap = mine.snap
      /\ mine'.keep = mine.keep /\ mine'.line = mine.line
  BY <1>0, <1>2 DEF Mine
<1> HIDE DEF new
<1>5. file'[at] = new /\ \A f \in FileName \ {at} : file'[f] = file[f]
  BY <1>0, <1>1, <1>2 DEF Files
<1>a. /\ at \in {"main", "sub"} => at' = "next"
      /\ at = "pre" => at' = "count"
      /\ at = "comp" /\ mine.line = 0 => at' = "emit"
      /\ at = "comp" /\ mine.line # 0 => at' = "trunc_read"
  BY <1>0
<1>b. at \in LoopFiles \/ at = "sub" BY <1>0 DEF Derived, FileName, LoopFiles
<1>6. Reach(d)'
  <2>1. CASE at \in LoopFiles
    <3>1. at \in OpenSteps /\ at # "sub" BY <2>1 DEF LoopFiles, OpenSteps, LoopSteps
    <3>2. LoopAt(file, mine.req, at, TRUE, mine.snap, mine.keep, mine.line, d)
      BY <1>2, <1>3, <3>1 DEF Reach
    <3>3. Ended(file', at, mine.req, mine.snap, mine.keep, mine.line, d)
      BY <1>0, <1>2, <2>1, <3>2, LoopNewline DEF new
    <3>4. file'["sub"] = file["sub"] BY <1>1, <1>5, <3>1
    <3>5. Kept(file', "sub", d) BY <1>3, <3>1, <3>4 DEF Reach, Kept
    <3>6. CASE at = "main"
      BY <1>3, <1>a, <3>3, <3>5, <3>6 DEF Reach, Ended, OpenSteps, LoopSteps
    <3>7. CASE at = "pre"
      BY <1>3, <1>4, <1>a, <3>3, <3>5, <3>7 DEF Reach, Ended, OpenSteps, LoopSteps
    <3>8. CASE at = "comp" /\ mine.line = 0
      BY <1>3, <1>a, <3>3, <3>5, <3>8 DEF Reach, Ended, OpenSteps, LoopSteps
    <3>9. CASE at = "comp" /\ mine.line # 0
      BY <1>3, <1>4, <1>a, <3>3, <3>5, <3>9 DEF Reach, Ended, OpenSteps, LoopSteps
    <3> QED BY <2>1, <3>6, <3>7, <3>8, <3>9 DEF LoopFiles
  <2>2. CASE at = "sub"
    <3>1. at \notin OpenSteps /\ at' \notin OpenSteps /\ at' # "sub"
      BY <1>a, <2>2 DEF OpenSteps, LoopSteps
    <3>2. LoopDone(file, d) /\ Appending(file, "sub", <<mine.req>>, TRUE, d)
      BY <1>2, <1>3, <2>2, <3>1 DEF Reach
    <3>3. file'["sub"] = [lines |-> Append(file["sub"].lines, file["sub"].tail), tail |-> <<>>]
      BY <1>5, <2>2 DEF new
    <3>4. Kept(file', "sub", d) BY <3>2, <3>3, LineWritten
    <3>6. \A f \in LoopFiles : file'[f] = file[f] /\ d[f] = d[f] BY <1>1, <1>5, <2>2
    <3>7. LoopDone(file', d) BY <3>2, <3>6, LoopFrame
    <3> QED BY <1>3, <3>1, <3>4, <3>7 DEF Reach
  <2> QED BY <1>b, <2>1, <2>2
<1>7. file'["raw"] = file["raw"] BY <1>1, <1>5
<1>8. at' \in {"next", "count", "emit", "trunc_read"} BY <1>a, <1>b DEF LoopFiles
<1>9. Alone'
  <2>1. at' \in {"next"} \cup (Process \ {"capture"}) BY <1>8 DEF Process
  <2> QED BY <1>0, <1>2, <1>3, <1>6, <1>7, <2>1, AloneWork
<1>10. ASSUME ReplayRefs PROVE ReplayRefs'
  <2>1. Grows
    <3>1. CASE at = "pre" BY <1>5, <3>1 DEF new, Grows
    <3>2. CASE at # "pre" BY <1>1, <1>5, <3>2 DEF Grows
    <3> QED BY <3>1, <3>2
  <2>2. ASSUME at' \in Telling PROVE RefOK(mine'.line, mine'.snap, file'["pre"].lines)
    <3>1. at = "comp" BY <1>a, <1>b, <2>2 DEF Telling, LoopFiles
    <3>2. RefOK(mine.line, mine.snap, file["pre"].lines) BY <1>10, <3>1 DEF ReplayRefs, Telling
    <3>3. file'["pre"] = file["pre"] BY <1>1, <1>5, <3>1
    <3> QED BY <1>4, <3>2, <3>3
  <2>3. at # "archive" BY <1>b DEF LoopFiles
  <2> QED BY <1>0, <1>7, <1>8, <1>10, <2>1, <2>2, <2>3, ReplayRefsMove
<1> QED BY <1>0, <1>7, <1>9, <1>10 DEF ReplayFrame

\* A step of record_compaction that writes no line.
LEMMA AloneCompacts ==
  ASSUME ReplayTypes, Alone, at \in Process \ {"sub"},
         at' \in {"next"} \cup (Process \ {"sub", "capture"}), mine'.req = mine.req,
         \A f \in FileName \ {"main"} : file'[f] = file[f],
         UNCHANGED <<read, alone, exact, spotless, replays>>,
         \A x \in refs' : x \in refs \/ (RefOK(x.line, x.snap, file["pre"].lines) /\ x.line \in Nat),
         ReplayRefs /\ at' \in Telling => RefOK(mine'.line, mine'.snap, file["pre"].lines),
         NEW d \in Contents, d = Replay(Taken), Reach(d),
         IF at' \in OpenSteps
         THEN LoopAt(file', mine.req, at', mine'.half, mine'.snap, mine'.keep, mine'.line, d)
         ELSE LoopDone(file', d)
  PROVE  Alone' /\ ReplayFrame /\ (ReplayRefs => ReplayRefs')
<1>1. Position BY AloneReach
<1>2. file'["sub"] = file["sub"] /\ file'["raw"] = file["raw"] /\ file'["pre"] = file["pre"]
  BY DEF FileName
<1>3. at # "sub" /\ at' # "sub" BY DEF Process
<1>4. Kept(file', "sub", d) BY <1>2, <1>3 DEF Reach, Kept
<1>5. Reach(d)' BY <1>3, <1>4 DEF Reach
<1>6. Alone' BY <1>1, <1>2, <1>5, AloneWork
<1>7. at # "archive" /\ at' # "archive" BY DEF Process
<1>8. ReplayRefs => ReplayRefs' BY <1>2, <1>7, ReplayRefsMove DEF Grows
<1> QED BY <1>2, <1>6, <1>8 DEF ReplayFrame


\* The reads of record_compaction.
LEMMA AloneReads ==
  ASSUME ReplayTypes, Control, Alone, ReplayCapture \/ ReplayCount \/ ReplayTruncateRead
  PROVE  Alone' /\ ReplayFrame /\ (ReplayRefs => ReplayRefs')
<1>0. /\ at \in {"capture", "count", "trunc_read"}
      /\ UNCHANGED <<file, refs, read, alone, exact, spotless, replays>>
  BY DEF ReplayCapture, ReplayCount, ReplayTruncateRead, Compacting, flags
<1>1. at \in Process \ {"sub"} /\ at \in OpenSteps /\ at \notin Derived
  BY <1>0 DEF Process, OpenSteps, LoopSteps, Derived, FileName
<1>2. Position /\ file \in Files /\ mine \in Mine /\ mine.req \in Requests /\ mine.half = FALSE
  BY <1>1, AloneReach DEF Control
<1>3. PICK d \in Contents : d = Replay(Taken) /\ Reach(d) BY <1>1, AloneReach
<1>4. LoopAt(file, mine.req, at, FALSE, mine.snap, mine.keep, mine.line, d) /\ Good(d)
  BY <1>1, <1>2, <1>3 DEF Reach
<1> DEFINE Goes == /\ at' \in OpenSteps /\ at' \in Process \ {"sub", "capture"}
                   /\ mine'.req = mine.req
                   /\ LoopAt(file', mine.req, at', mine'.half, mine'.snap, mine'.keep, mine'.line, d)
                   /\ ReplayRefs /\ at' \in Telling => RefOK(mine'.line, mine'.snap, file["pre"].lines)
<1>5. ASSUME ReplayCapture PROVE Goes
  <2> DEFINE last == read_last_line(file["main"])
  <2>1. /\ at = "capture" /\ at' = (IF last = <<>> THEN "comp" ELSE "pre")
        /\ mine' = [mine EXCEPT !.snap = last]
    BY <1>5 DEF ReplayCapture, Compacting
  <2>2. mine.line = 0 BY <1>2, <2>1 DEF Position
  <2>3. LoopAt(file, mine.req, IF last = <<>> THEN "comp" ELSE "pre", FALSE, last, mine.keep, 0, d)
    BY <1>2, <1>4, <2>1, <2>2, LoopCapture
  <2> HIDE DEF last
  <2>4. /\ mine'.req = mine.req /\ mine'.half = FALSE /\ mine'.snap = last
        /\ mine'.keep = mine.keep /\ mine'.line = 0
    BY <1>2, <2>1, <2>2 DEF Mine
  <2>5. at' \in OpenSteps /\ at' \in Process \ {"sub", "capture"}
    BY <2>1 DEF OpenSteps, LoopSteps, Process
  <2>6. RefOK(mine'.line, mine'.snap, file["pre"].lines) BY <2>4 DEF RefOK
  <2>7. LoopAt(file', mine.req, at', FALSE, last, mine.keep, 0, d) BY <1>0, <2>1, <2>3
  <2> QED BY <2>4, <2>5, <2>6, <2>7
<1>6. ASSUME ReplayCount PROVE Goes
  <2> DEFINE n == Len(AllLines(file["pre"]))
  <2>1. at = "count" /\ at' = "comp" /\ mine' = [mine EXCEPT !.line = n]
    BY <1>6 DEF ReplayCount, Compacting
  <2>2. /\ LoopAt(file, mine.req, "comp", FALSE, mine.snap, mine.keep, n, d)
        /\ RefOK(n, mine.snap, file["pre"].lines)
    BY <1>2, <1>3, <1>4, <2>1, LoopCount
  <2> HIDE DEF n
  <2>3. /\ mine'.req = mine.req /\ mine'.half = FALSE /\ mine'.snap = mine.snap
        /\ mine'.keep = mine.keep /\ mine'.line = n
    BY <1>2, <2>1 DEF Mine
  <2>4. at' \in OpenSteps /\ at' \in Process \ {"sub", "capture"}
    BY <2>1 DEF OpenSteps, LoopSteps, Process
  <2> QED BY <1>0, <2>1, <2>2, <2>3, <2>4
<1>7. ASSUME ReplayTruncateRead PROVE Goes
  <2> DEFINE last == read_last_line(file["main"])
  <2>1. /\ at = "trunc_read" /\ at' = (IF last = <<>> THEN "emit" ELSE "trunc_open")
        /\ mine' = [mine EXCEPT !.keep = last]
    BY <1>7 DEF ReplayTruncateRead, Compacting
  <2>2. last # <<>> /\ LoopAt(file, mine.req, "trunc_open", FALSE, mine.snap, last, mine.line, d)
    BY <1>2, <1>4, <2>1, LoopTruncateRead
  <2> HIDE DEF last
  <2>3. /\ mine'.req = mine.req /\ mine'.half = FALSE /\ mine'.snap = mine.snap
        /\ mine'.keep = last /\ mine'.line = mine.line
    BY <1>2, <2>1 DEF Mine
  <2>4. at' = "trunc_open" BY <2>1, <2>2
  <2>5. at' \in OpenSteps /\ at' \in Process \ {"sub", "capture"}
    BY <2>4 DEF OpenSteps, LoopSteps, Process
  <2>6. ReplayRefs => RefOK(mine.line, mine.snap, file["pre"].lines)
    BY <2>1 DEF ReplayRefs, Telling
  <2> QED BY <1>0, <2>2, <2>3, <2>4, <2>5, <2>6
<1>8. Goes BY <1>5, <1>6, <1>7
<1> QED BY <1>0, <1>1, <1>3, <1>8, AloneCompacts

\* The truncation of the main log, and the datagram.
LEMMA AloneWrites ==
  ASSUME ReplayTypes, Control, Alone,
         ReplayTruncateOpen \/ ReplayTruncateWrite \/ ReplayEmit
  PROVE  Alone' /\ ReplayFrame /\ (ReplayRefs => ReplayRefs')
<1>0. /\ at \in {"trunc_open", "trunc_write", "emit"}
      /\ UNCHANGED <<mine, read, alone, exact, spotless, replays>>
  BY DEF ReplayTruncateOpen, ReplayTruncateWrite, ReplayEmit, Compacting, flags
<1>1. at \in Process \ {"sub"} /\ at \in Telling /\ at \notin Derived
  BY <1>0 DEF Process, Telling, Derived, FileName
<1>2. /\ Position /\ file \in Files /\ mine \in Mine /\ mine.req \in Requests /\ mine.half = FALSE
      /\ mine.line \in Nat /\ "main" \in FileName
  BY <1>1, AloneReach DEF Control, FileName
<1>3. PICK d \in Contents : d = Replay(Taken) /\ Reach(d) BY <1>1, AloneReach
<1>4. ReplayRefs => RefOK(mine.line, mine.snap, file["pre"].lines) BY <1>1 DEF ReplayRefs
<1>5. CASE ReplayTruncateOpen
  <2>1. /\ at = "trunc_open" /\ at' = "trunc_write" /\ UNCHANGED refs
        /\ file' = [file EXCEPT !["main"] = EmptyFile]
    BY <1>5 DEF ReplayTruncateOpen, Compacting
  <2>2. at \in OpenSteps /\ at' \in OpenSteps /\ at' \in Process \ {"sub", "capture"}
    BY <2>1 DEF OpenSteps, LoopSteps, Process
  <2>3. LoopAt(file, mine.req, "trunc_open", FALSE, mine.snap, mine.keep, mine.line, d)
    BY <1>2, <1>3, <2>1, <2>2 DEF Reach
  <2>4. LoopAt(file', mine.req, "trunc_write", FALSE, mine.snap, mine.keep, mine.line, d)
    BY <1>2, <2>1, <2>3, LoopTruncateOpen
  <2>5. \A f \in FileName \ {"main"} : file'[f] = file[f] BY <1>2, <2>1 DEF Files
  <2> QED BY <1>0, <1>1, <1>2, <1>3, <1>4, <2>1, <2>2, <2>4, <2>5, AloneCompacts
<1>6. CASE ReplayTruncateWrite
  <2>1. /\ at = "trunc_write" /\ at' = "emit" /\ UNCHANGED refs
        /\ \E f \in Overwrites(file["main"], mine.keep) : file' = [file EXCEPT !["main"] = f]
    BY <1>6 DEF ReplayTruncateWrite, Compacting
  <2>2. at \in OpenSteps /\ at' \notin OpenSteps /\ at' \in Process \ {"sub", "capture"}
    BY <2>1 DEF OpenSteps, LoopSteps, Process
  <2>3. LoopAt(file, mine.req, "trunc_write", FALSE, mine.snap, mine.keep, mine.line, d)
    BY <1>2, <1>3, <2>1, <2>2 DEF Reach
  <2>4. LoopDone(file', d) BY <1>2, <2>1, <2>3, LoopTruncateWrite
  <2>5. \A f \in FileName \ {"main"} : file'[f] = file[f] BY <1>2, <2>1 DEF Files
  <2> QED BY <1>0, <1>1, <1>2, <1>3, <1>4, <2>1, <2>2, <2>4, <2>5, AloneCompacts
<1>7. CASE ReplayEmit /\ ReplayRefs
  <2>1. /\ at = "emit" /\ at' = "next" /\ UNCHANGED file
        /\ refs' = refs \cup {[req |-> mine.req, line |-> mine.line, snap |-> mine.snap]}
    BY <1>7 DEF ReplayEmit, Compacting
  <2>2. at \notin OpenSteps /\ at' \notin OpenSteps /\ at' \notin Telling
    BY <2>1 DEF OpenSteps, LoopSteps, Telling
  <2>3. LoopDone(file', d) BY <1>3, <2>1, <2>2 DEF Reach
  <2>4. \A x \in refs' : x \in refs \/ (RefOK(x.line, x.snap, file["pre"].lines) /\ x.line \in Nat)
    BY <1>2, <1>4, <1>7, <2>1
  <2> QED BY <1>0, <1>1, <1>2, <1>3, <2>1, <2>2, <2>3, <2>4, AloneCompacts
<1>8. CASE ReplayEmit /\ ~ReplayRefs
  <2>1. at = "emit" /\ at' = "next" /\ UNCHANGED file
    BY <1>8 DEF ReplayEmit, Compacting
  <2>2. at \notin OpenSteps /\ at' \notin OpenSteps /\ at # "sub" /\ at' # "sub"
    BY <2>1 DEF OpenSteps, LoopSteps
  <2>3. Reach(d)' BY <1>3, <2>1, <2>2 DEF Reach
  <2>4. Alone' BY <1>0, <1>2, <1>3, <2>1, <2>3, AloneWork
  <2> QED BY <1>0, <1>8, <2>1, <2>4 DEF ReplayFrame
<1> QED BY <1>5, <1>6, <1>7, <1>8

\* The raw log without a handler in the middle of a record is clean unless two
\* records are glued.
LEMMA QuietClean ==
  ASSUME Quiet, ~RawGlued
  PROVE  Clean
<1>1. "raw" \in Active BY DEF Active, Writing, FileName
<1>2. \A r \in Requests : pc[r] # "raw" BY <1>1 DEF Quiet
<1> QED BY <1>2 DEF Clean

\* What a quiet session has come to.
LEMMA QuietDone ==
  ASSUME Quiet, NEW d, Live(d)
  PROVE  LoopDone(file, d) /\ (SubsApart => Kept(file, "sub", d))
<1>1. \A r \in Requests : ~Open(r) BY OpenActive DEF Quiet
<1> QED BY <1>1 DEF Live, LiveLoop, LiveSub

\* ... and what is enough for it.
LEMMA DoneQuiet ==
  ASSUME Quiet, NEW d, Good(d), LoopDone(file, d), Kept(file, "sub", d)
  PROVE  Live(d)
<1>1. \A r \in Requests : ~Open(r) BY OpenActive DEF Quiet
<1> QED BY <1>1 DEF Live, LiveLoop, LiveSub

\* A replay begins: what the references name is what it will write.
LEMMA LastingBegin ==
  ASSUME ReplayTypes, Control, Flags, Lasting, Begin
  PROVE  Lasting'
<1>0. /\ at = "off" /\ at' = "archive" /\ replays' = replays + 1 /\ left' = DERIVED_FILES
      /\ read' = [lines |-> 0, bodies |-> 0] /\ mine' = Nothing
      /\ exact' = FALSE /\ UNCHANGED vars
  BY DEF Begin
<1>1. /\ TypeOK /\ replays \in Nat /\ Len(rawlog.lines) \in Nat
  BY DEF ReplayTypes, TypeOK, FileName, File, rawlog
<1>2. UNCHANGED <<file, pc, half, refs>> BY <1>0 DEF vars, locals
<1>3. CleanLive' /\ SpotlessLive' BY <1>0 DEF CleanLive, SpotlessLive
<1>4. AloneInv'
  <2>1. Position' BY <1>0, <1>1, <1>2 DEF Position, rawlog
  <2>2. \A f \in Derived : \E i \in DOMAIN left' : left'[i] = f BY <1>0, DerivedAssumption
  <2>3. Alone' BY <1>0, <2>1, <2>2 DEF Alone, Process
  <2> QED BY <2>3 DEF AloneInv
<1>5. RefsInv'
  <2> SUFFICES ASSUME spotless', ~RawGlued' PROVE ReplayRefs'
    BY DEF RefsInv
  <2>1. spotless /\ Quiet BY DEF Begin
  <2>2. ~RawGlued BY <1>2 DEF RawGlued, rawlog
  <2>3. Clean /\ exact BY <1>0, <2>1, <2>2, QuietClean DEF Flags
  <2>4. PICK d \in Contents : d = Replayed /\ Live(d) BY <2>3 DEF Lasting, CleanLive
  <2>5. file["pre"] = Full(d["pre"])
    BY <2>1, <2>4, QuietDone DEF LoopDone, Kept, LoopFiles
  <2>6. file["pre"].lines = Replayed["pre"] BY <2>4, <2>5 DEF Full
  <2>7. LiveRefs BY <1>0, <2>1, <2>2 DEF Lasting, SpotlessLive
  <2>8. \A x \in refs : RefOK(x.line, x.snap, Replayed["pre"])
    BY <2>6, <2>7 DEF LiveRefs, RefsOK
  <2>9. Replayed' = Replayed BY <1>2 DEF Replayed, rawlog, AllLines
  <2>10. at' \notin Telling BY <1>0 DEF Telling
  <2> QED BY <1>2, <2>8, <2>9, <2>10 DEF ReplayRefs
<1> QED BY <1>3, <1>4, <1>5 DEF Lasting

\* The replay ends: all that was in the raw log has been taken.
LEMMA LastingEnd ==
  ASSUME ReplayTypes, Control, Flags, Lasting, EndOfLog
  PROVE  Lasting'
<1>0. /\ at = "next" /\ at' = "off" /\ exact' = alone /\ UNCHANGED <<vars, alone, spotless, replays>>
      /\ read.lines = Len(file["raw"].lines) /\ read.bodies = Len(file["raw"].tail)
  BY DEF EndOfLog
<1>1. /\ TypeOK /\ file["raw"].lines \in Seq(Line) /\ file["raw"].tail \in Line
      /\ alone \in BOOLEAN /\ spotless \in BOOLEAN /\ exact \in BOOLEAN
  BY DEF ReplayTypes, TypeOK, FileName, File
<1>2. UNCHANGED <<file, pc, half, snap, keep, line, refs>> BY <1>0 DEF vars, locals
<1>3. AloneInv' /\ RefsInv' BY <1>0 DEF AloneInv, RefsInv
<1>4. Taken = AllLines(rawlog)
  <2>1. CASE read.bodies = 0
    <3>1. file["raw"].tail = <<>> BY <1>0, <1>1, <2>1, EmptySeq DEF Line
    <3>2. SubSeq(file["raw"].lines, 1, Len(file["raw"].lines)) = file["raw"].lines
      BY <1>1, SubSeqFull
    <3> QED BY <1>0, <2>1, <3>1, <3>2 DEF Taken, rawlog, AllLines
  <2>2. CASE read.bodies # 0 BY <2>2 DEF Taken
  <2> QED BY <2>1, <2>2
<1>5. ASSUME alone
      PROVE  /\ Quiet /\ Position
             /\ \E d \in Contents : d = Replayed /\ Live(d) /\ file["pre"] = Full(d["pre"])
  <2>1. Quiet BY <1>0, <1>5 DEF Flags
  <2>2. Alone BY <1>0, <1>5 DEF Lasting, AloneInv
  <2>3. PICK d \in Contents : d = Replay(Taken) /\ Reach(d) BY <1>0, <2>2 DEF Alone
  <2>4. Good(d) /\ LoopDone(file, d) /\ Kept(file, "sub", d)
    BY <1>0, <2>3 DEF Reach, OpenSteps, LoopSteps
  <2>5. d = Replayed BY <1>4, <2>3 DEF Replayed
  <2>6. Live(d) BY <2>1, <2>4, DoneQuiet
  <2>7. file["pre"] = Full(d["pre"]) BY <2>4 DEF LoopDone, Kept, LoopFiles
  <2>8. Position BY <2>2 DEF Alone
  <2> QED BY <2>1, <2>5, <2>6, <2>7, <2>8
<1>6. ASSUME NEW d PROVE Live(d) => Live(d)'
  BY <1>2 DEF Live, LiveLoop, LiveSub, Open, Pos, Texted
<1>7. Replayed' = Replayed BY <1>2 DEF Replayed, rawlog, AllLines
<1>8. CleanLive'
  <2> SUFFICES ASSUME alone PROVE (\E d \in Contents : d = Replayed /\ Live(d))'
    BY <1>0 DEF CleanLive
  <2> QED BY <1>5, <1>6, <1>7
<1>9. SpotlessLive'
  <2> SUFFICES ASSUME spotless', (replays = 0 \/ ~RawGlued)'
               PROVE  (LiveRefs /\ \E d \in Contents : Live(d))'
    BY DEF SpotlessLive
  <2>1. spotless /\ alone BY <1>0 DEF Flags
  <2>2. PICK d \in Contents : d = Replayed /\ Live(d) /\ file["pre"] = Full(d["pre"])
    BY <1>5, <2>1
  <2>3. replays # 0 BY <1>5, <2>1 DEF Position
  <2>4. ~RawGlued BY <1>0, <1>2, <2>3 DEF RawGlued, rawlog
  <2>5. ReplayRefs BY <1>0, <2>1, <2>4 DEF Lasting, RefsInv
  <2>6. file["pre"].lines = Replayed["pre"] BY <2>2 DEF Full
  <2>7. \A x \in refs : RefOK(x.line, x.snap, file["pre"].lines)
    BY <2>5, <2>6 DEF ReplayRefs
  <2>8. \A r \in Requests : pc[r] \notin Telling
    <3>1. Telling \subseteq Active BY DEF Telling, Active, Reading, Writing, FileName
    <3> QED BY <1>5, <2>1, <3>1 DEF Quiet
  <2>9. LiveRefs' BY <1>2, <2>7, <2>8 DEF LiveRefs, RefsOK
  <2> QED BY <1>6, <2>2, <2>9
<1> QED BY <1>3, <1>8, <1>9 DEF Lasting

\* A step of a replay keeps up what leads to the files.
LEMMA LastingReplay ==
  ASSUME ReplayTypes, Control, Flags, Lasting, Begin \/ ReplayStep \/ ReplayFault
  PROVE  Lasting'
<1>1. CASE Begin BY <1>1, LastingBegin
<1>2. CASE EndOfLog BY <1>2, LastingEnd
<1>3. CASE ReplayFault
  BY <1>3 DEF ReplayFault, Spoiled, Lasting, CleanLive, SpotlessLive, AloneInv, RefsInv
<1>4. CASE ReplayStep /\ ~EndOfLog
  <2>0. alone \in BOOLEAN /\ exact \in BOOLEAN /\ spotless \in BOOLEAN BY DEF ReplayTypes
  <2>1. at # "off" /\ at' # "off" /\ UNCHANGED <<alone, exact, spotless>>
    <3> USE DEF flags
    <3>1. CASE archive_derived_files
      <4>1. at = "archive" /\ (at' = "watcher" \/ at' = at) /\ UNCHANGED <<alone, exact, spotless>>
        BY <3>1 DEF archive_derived_files
      <4> QED BY <4>1
    <3>2. CASE spawn_watcher BY <3>2 DEF spawn_watcher
    <3>3. CASE NextLine
      <4>1. at = "next" /\ UNCHANGED <<alone, exact, spotless>> BY <3>3 DEF NextLine
      <4>2. at' = at \/ \E r : at' = Route(r)
        <5>1. \A t : process_line(t) => at' = at \/ \E r : at' = Route(r)
          BY DEF process_line
        <5> QED BY <3>3, <5>1 DEF NextLine
      <4> QED BY <4>1, <4>2, KindOf DEF Route
    <3>4. CASE ReplayText BY <3>4 DEF ReplayText, Derived, FileName
    <3>5. CASE ReplayNewline BY <3>5 DEF ReplayNewline, Derived, FileName
    <3>6. CASE ReplayCapture BY <3>6 DEF ReplayCapture, Compacting
    <3>7. CASE ReplayCount BY <3>7 DEF ReplayCount, Compacting
    <3>8. CASE ReplayTruncateRead BY <3>8 DEF ReplayTruncateRead, Compacting
    <3>9. CASE ReplayTruncateOpen BY <3>9 DEF ReplayTruncateOpen, Compacting
    <3>10. CASE ReplayTruncateWrite BY <3>10 DEF ReplayTruncateWrite, Compacting
    <3>11. CASE ReplayEmit BY <3>11 DEF ReplayEmit, Compacting
    <3> QED BY <1>4, <3>1, <3>2, <3>3, <3>4, <3>5, <3>6, <3>7, <3>8, <3>9, <3>10, <3>11 DEF ReplayStep
  <2>2. CleanLive' BY <2>1 DEF CleanLive, Flags
  <2>3. SpotlessLive' BY <2>1 DEF SpotlessLive
  <2>4. ASSUME alone
        PROVE  Alone' /\ ReplayFrame /\ (~RawGlued /\ ReplayRefs => ReplayRefs')
    <3>1. Alone BY <2>1, <2>4 DEF Lasting, AloneInv
    <3>2. CASE archive_derived_files
      <4>1. Alone' /\ ReplayFrame BY <3>1, <3>2, AloneArchive
      <4>2. Replayed' = Replayed BY <4>1 DEF Replayed, rawlog, AllLines, ReplayFrame
      <4>3. at = "archive" /\ UNCHANGED refs BY <3>2 DEF archive_derived_files
      <4>4. at' = "watcher" \/ at' = at BY <3>2 DEF archive_derived_files
      <4>5. at' \notin Telling BY <4>3, <4>4 DEF Telling
      <4>6. ReplayRefs => ReplayRefs' BY <4>2, <4>3, <4>5 DEF ReplayRefs
      <4> QED BY <4>1, <4>6
    <3>3. CASE spawn_watcher \/ NextLine
      <4>1. Alone' /\ ReplayFrame BY <3>1, <3>3, AloneWatcher, AloneNext
      <4>2. UNCHANGED <<file, refs>> /\ at # "archive"
        BY <3>3 DEF spawn_watcher, NextLine, vars
      <4>3. at' \in {"next", "main", "sub", "capture"}
        <5>1. CASE spawn_watcher BY <5>1 DEF spawn_watcher
        <5>2. CASE NextLine
          <6>1. \A t : process_line(t) => at' = at \/ \E r : at' = Route(r)
            BY DEF process_line
          <6>2. at = "next" /\ (at' = at \/ \E r : at' = Route(r)) BY <5>2, <6>1 DEF NextLine
          <6> QED BY <6>2, KindOf DEF Route
        <5> QED BY <3>3, <5>1, <5>2
      <4>4. at' # "archive" /\ at' \notin Telling BY <4>3 DEF Telling
      <4>5. ReplayRefs => ReplayRefs' BY <4>2, <4>4, ReplayRefsMove DEF Grows
      <4> QED BY <4>1, <4>5
    <3>4. CASE ReplayText \/ ReplayNewline BY <3>1, <3>4, AloneText, AloneNewline
    <3>5. CASE ReplayCapture \/ ReplayCount \/ ReplayTruncateRead BY <3>1, <3>5, AloneReads
    <3>6. CASE ReplayTruncateOpen \/ ReplayTruncateWrite \/ ReplayEmit BY <3>1, <3>6, AloneWrites
    <3> QED BY <1>4, <3>2, <3>3, <3>4, <3>5, <3>6 DEF ReplayStep
  <2>5. AloneInv' BY <2>1, <2>4 DEF AloneInv
  <2>6. RefsInv'
    <3> SUFFICES ASSUME spotless', ~RawGlued' PROVE ReplayRefs'
      BY DEF RefsInv
    <3>1. spotless /\ alone BY <2>1 DEF Flags
    <3>2. ~RawGlued BY <2>4, <3>1 DEF ReplayFrame, RawGlued, rawlog
    <3>3. ReplayRefs BY <2>1, <3>1, <3>2 DEF Lasting, RefsInv
    <3> QED BY <2>4, <3>1, <3>2, <3>3
  <2> QED BY <2>2, <2>3, <2>5, <2>6 DEF Lasting
<1> QED BY <1>1, <1>2, <1>3, <1>4

-----------------------------------------------------------------------------
(* The invariant of a session with its replays *)

\* A new session directory.
LEMMA ReplayInvInit == ReplayInit => ReplayInv
<1> SUFFICES ASSUME ReplayInit PROVE ReplayInv OBVIOUS
<1>0. /\ at = "off" /\ exact = TRUE /\ moved = {} /\ mine = Nothing /\ replays = 0
      /\ file = [f \in FileName |-> EmptyFile] /\ refs = {}
      /\ \A r \in Requests : pc[r] = "idle" /\ ~half[r] /\ line[r] = 0
      /\ missing = Derived
  BY DEF ReplayInit, Init
<1>1. ReplayTypes BY ReplayTypeInit
<1>2. /\ "idle" \notin Active /\ "idle" \notin Telling
      /\ Derived \subseteq FileName /\ "raw" \in FileName /\ "main" \in FileName
  BY DEF Active, Reading, Writing, FileName, Telling, Derived
<1>3. Quiet BY <1>0, <1>2 DEF Quiet
<1>4. Control BY <1>0 DEF Control, Nothing
<1>5. MissingInv BY <1>0, <1>2 DEF MissingInv, Nothing
<1>6. OneLoop /\ OneSub BY <1>3, <1>4, <1>0, QuietAfresh
<1>7. Flags BY <1>0, <1>6 DEF Flags
<1>8. \A f \in FileName : file[f] = EmptyFile BY <1>0
<1>9. Replayed = Empties /\ Good(Empties) /\ Empties \in Contents
  <2>1. AllLines(rawlog) = <<>> BY <1>2, <1>8 DEF AllLines, rawlog, EmptyFile
  <2> QED BY <2>1, ReplayEmpty DEF Replayed, Good
<1>10. Live(Empties)
  <2>1. \A f \in Derived : Empties[f] = <<>> BY DEF Empties
  <2>2. LoopFiles \subseteq Derived /\ "sub" \in Derived BY DEF LoopFiles, Derived, FileName
  <2>3. LoopDone(file, Empties) /\ Kept(file, "sub", Empties)
    BY <1>2, <1>8, <2>1, <2>2 DEF LoopDone, Kept, Full, EmptyFile
  <2> QED BY <1>3, <1>9, <2>3, DoneQuiet
<1>11. LiveRefs BY <1>0, <1>2 DEF LiveRefs, RefsOK
<1>12. CleanLive BY <1>9, <1>10 DEF CleanLive
<1>13. SpotlessLive BY <1>9, <1>10, <1>11 DEF SpotlessLive
<1>14. AloneInv /\ RefsInv BY <1>0 DEF AloneInv, RefsInv
<1> QED BY <1>1, <1>4, <1>5, <1>7, <1>12, <1>13, <1>14 DEF ReplayInv

\* Nothing changes when nothing changes.
LEMMA LastingStutter ==
  ASSUME Lasting, UNCHANGED allVars
  PROVE  Lasting'
<1>1. /\ UNCHANGED <<file, pc, half, snap, keep, line, refs>>
      /\ UNCHANGED <<at, left, read, mine, alone, exact, spotless, replays>>
  BY DEF allVars, vars, locals, replayVars
<1>2. \A d : Live(d)' <=> Live(d)
  BY <1>1 DEF Live, LiveLoop, LiveSub, Open, Pos, Texted
<1>3. \A d : Reach(d)' <=> Reach(d) BY <1>1 DEF Reach
<1>4. Replayed' = Replayed /\ Taken' = Taken BY <1>1 DEF Replayed, Taken, rawlog, AllLines
<1>5. (Clean' <=> Clean) /\ (RawGlued' <=> RawGlued) BY <1>1 DEF Clean, RawGlued, rawlog
<1>6. (LiveRefs' <=> LiveRefs) /\ (Position' <=> Position)
  BY <1>1 DEF LiveRefs, RefsOK, Position, rawlog
<1>7. CleanLive' BY <1>1, <1>2, <1>4, <1>5 DEF Lasting, CleanLive
<1>8. SpotlessLive' BY <1>1, <1>2, <1>5, <1>6 DEF Lasting, SpotlessLive
<1>9. AloneInv' BY <1>1, <1>3, <1>4, <1>6 DEF Lasting, AloneInv, Alone
<1>10. RefsInv' BY <1>1, <1>4, <1>5 DEF Lasting, RefsInv, ReplayRefs
<1> QED BY <1>7, <1>8, <1>9, <1>10 DEF Lasting

\* Every step keeps the invariant.
LEMMA ReplayInvStep ==
  ASSUME Overlap \cap Loop = {}, ReplayInv, [ReplayNext]_allVars
  PROVE  ReplayInv'
<1>0. ReplayTypes /\ Control /\ MissingInv /\ Flags /\ Lasting BY DEF ReplayInv, Lasting
<1>1. ReplayTypes' BY <1>0, ReplayTypeStep
<1>2. Control' BY <1>0, ControlStep
<1>3. MissingInv' BY <1>0, MissingStep
<1>4. Flags' BY <1>0, FlagsStep
<1>5. Lasting'
  <2>1. ASSUME NEW r \in Requests, LiveStart(r) \/ LiveStep(r) \/ OpenMissing(r) PROVE Lasting'
    BY <1>0, <2>1, LastingLive
  <2>2. CASE LiveCrash \/ \E r \in Requests : MovedStep(r) \/ LiveFault(r)
    BY <1>0, <2>2, LastingBroken
  <2>3. CASE Begin \/ ReplayStep \/ ReplayFault BY <1>0, <2>3, LastingReplay
  <2>4. CASE UNCHANGED allVars BY <1>0, <2>4, LastingStutter
  <2> QED BY <2>1, <2>2, <2>3, <2>4 DEF ReplayNext
<1> QED BY <1>1, <1>2, <1>3, <1>4, <1>5 DEF ReplayInv, Lasting

\* The state of a session and of its replays keeps its type.
THEOREM ReplayTypeCorrect == ReplaySpec => []ReplayTypes
BY ReplayTypeInit, ReplayTypeStep, PTL DEF ReplaySpec

\* What the raw log says once no handler is open.
LEMMA QuietRebuilt ==
  ASSUME ReplayInv, exact, Quiet, OneRecordPerLine
  PROVE  \E d \in Contents :
           d = Replayed /\ LoopDone(file, d) /\ (SubsApart => Kept(file, "sub", d))
<1>1. ~RawGlued
  <2>1. file["raw"].lines \in Seq(Line)
    BY DEF ReplayInv, ReplayTypes, TypeOK, FileName, File
  <2>2. \A l \in Line : Len(l) \in Nat BY DEF Line
  <2> QED BY <2>1, <2>2 DEF OneRecordPerLine, RawGlued, rawlog, FileName
<1>2. PICK d \in Contents : d = Replayed /\ Live(d)
  BY <1>1, QuietClean DEF ReplayInv, CleanLive
<1> QED BY <1>2, QuietDone

\* If main exchanges and compactions do not overlap, a replay that ran to its
\* end without an error and met no open handler leaves the main log, the
\* snapshots and the compaction log as the raw log says they are, and the
\* handlers that come later, however they interleave, keep them so.
RebuildsLoop ==
  at = "off" /\ exact /\ Quiet /\ OneRecordPerLine =>
    \A f \in LoopFiles :
      file[f] = [lines |-> Replay(AllLines(file["raw"]))[f], tail |-> <<>>]

THEOREM ReplayRebuildsLoop ==
  ASSUME Overlap \cap Loop = {}
  PROVE  ReplaySpec => []RebuildsLoop
<1>1. ReplayInv => RebuildsLoop
  BY QuietRebuilt DEF RebuildsLoop, LoopDone, Kept, Full, Replayed, rawlog
<1> QED BY <1>1, ReplayInvInit, ReplayInvStep, PTL DEF ReplaySpec

\* If no two subagents overlap either, the replay rebuilds every derived file:
\* two subagents side by side may write their log in another order than the raw
\* log, and two records on a line of it.
THEOREM ReplayRebuildsFiles ==
  ASSUME Overlap \cap Loop = {}, SubsApart
  PROVE  ReplaySpec => []ReplayRebuilds
<1>1. ReplayInv => ReplayRebuilds
  <2> SUFFICES ASSUME ReplayInv, exact, Quiet, OneRecordPerLine, NEW f \in Derived
               PROVE  file[f] = [lines |-> Replay(AllLines(file["raw"]))[f], tail |-> <<>>]
    BY DEF ReplayRebuilds, LiveMatchesReplay
  <2>1. PICK d \in Contents : d = Replayed /\ LoopDone(file, d) /\ Kept(file, "sub", d)
    BY QuietRebuilt
  <2>2. Kept(file, f, d) BY <2>1 DEF LoopDone, LoopFiles, Derived, FileName
  <2> QED BY <2>1, <2>2 DEF Kept, Full, Replayed, rawlog
<1> QED BY <1>1, ReplayInvInit, ReplayInvStep, PTL DEF ReplaySpec

\* If main exchanges and compactions do not overlap, a replay keeps every
\* reference to a captured exchange right, and the main log and the snapshots
\* together, as long as nothing has gone wrong and it finds one record on every
\* line.
THEOREM ReplayReferencesRight ==
  ASSUME Overlap \cap Loop = {}
  PROVE  ReplaySpec => []ReplayKeepsReferences
<1>1. ReplayInv => ReplayKeepsReferences
  <2> SUFFICES ASSUME ReplayInv, at = "off", spotless, replays > 0 => OneRecordPerLine
               PROVE  CompactionsConsistent
    BY DEF ReplayKeepsReferences
  <2>0. /\ replays \in Nat /\ file["pre"] \in File /\ file["main"] \in File
        /\ file["raw"].lines \in Seq(Line)
        /\ refs \subseteq [req : Requests, line : Nat, snap : Line]
    BY DEF ReplayInv, ReplayTypes, TypeOK, FileName, File
  <2>1. replays = 0 \/ ~RawGlued
    <3>1. \A l \in Line : Len(l) \in Nat BY DEF Line
    <3> QED BY <2>0, <3>1 DEF OneRecordPerLine, RawGlued, rawlog, FileName
  <2>2. PICK d \in Contents : LiveRefs /\ Live(d) BY <2>1 DEF ReplayInv, SpotlessLive
  <2> DEFINE ls == file["pre"].lines
             t == file["pre"].tail
  <2>3. ls \in Seq(Line) /\ t \in Line BY <2>0 DEF File
  <2>4. ASSUME NEW x \in refs, x.line > 0
        PROVE  x.line <= Len(AllLines(file["pre"])) /\ AllLines(file["pre"])[x.line] = x.snap
    <3>1. x.line \in Nat /\ RefOK(x.line, x.snap, ls) BY <2>0, <2>2 DEF LiveRefs, RefsOK
    <3>2. CASE t = <<>> BY <2>4, <3>1, <3>2 DEF AllLines, RefOK
    <3>3. CASE t # <<>>
      <4>1. RefOK(x.line, x.snap, Append(ls, t)) BY <2>3, <3>1, RefKept
      <4>2. AllLines(file["pre"]) = Append(ls, t) BY <3>3 DEF AllLines
      <4> QED BY <2>4, <4>1, <4>2 DEF RefOK
    <3> QED BY <3>2, <3>3
  <2>5. ASSUME Quiet, file["pre"] # EmptyFile
        PROVE  Head(AllLines(file["main"])) = Last(AllLines(file["pre"]))
    <3>1. file["pre"] = Full(d["pre"]) /\ file["main"] = Full(d["main"])
      BY <2>2, <2>5, QuietDone DEF LoopDone, LoopFiles, Kept
    <3>2. d["pre"] # <<>> BY <2>5, <3>1 DEF Full, EmptyFile
    <3>3. d["main"] # <<>> /\ d["main"][1] = Last(d["pre"])
      BY <2>2, <3>2 DEF Live, Good, Heads
    <3>4. AllLines(file["main"]) = d["main"] /\ AllLines(file["pre"]) = d["pre"]
      BY <3>1 DEF Full, AllLines
    <3>5. d["main"] \in Seq(Line) BY DEF Contents, Derived, FileName
    <3> QED BY <3>3, <3>4, <3>5
  <2> QED BY <2>4, <2>5 DEF CompactionsConsistent
<1> QED BY <1>1, ReplayInvInit, ReplayInvStep, PTL DEF ReplaySpec

=============================================================================
