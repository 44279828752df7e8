---------------------------- MODULE TaskFilesProofs ----------------------------
(***************************************************************************)
(* TaskFiles for any length of the text, any chunk size, any quota and any *)
(* number of failures: what the control plane has of a stream is what the  *)
(* node believes it has, and all of it when the node forgets the task.     *)
(*                                                                         *)
(* The invariant adds to the properties how far the counters can be apart  *)
(* (Behind), what a final upload has read (FinalIsWhole), and that a row   *)
(* with no path has no text in the file (UnnamedIsEmpty); that a chunk     *)
(* which fits continues the stored text is the lemma NewsContinues.        *)
(***************************************************************************)
EXTENDS TaskFiles, SequenceTheorems, TLAPS

Ended == {"uploaded", "reported", "filed", "cleared", "forgotten"}

\* Nothing is ahead of the file of the process; a stream without a row has no text.
Behind ==
    /\ row.last <= written
    /\ acked <= written
    /\ slice.upto <= written
    /\ ~row.exists => row.last = 0

\* A final upload of a process that has ended takes all it wrote.
FinalIsWhole ==
    /\ pc = "send" /\ slice.final /\ ~slice.live => over /\ slice.upto = written
    /\ pc \in Ended /\ ~slice.live => over

\* A row that mark_log_truncated made is of a stream without a file.
UnnamedIsEmpty == failures = 0 /\ ~row.path => stored = <<>>

FilesInv ==
    /\ FilesTypeOK
    /\ Behind
    /\ FinalIsWhole
    /\ UnnamedIsEmpty
    /\ StoredExactly
    /\ AckedIsStored
    /\ CompleteWhenForgotten
    /\ ArtifactKept

\* Nothing is written, uploaded or stored at first.
LEMMA InitFilesInv == FilesInit => FilesInv
<1> SUFFICES ASSUME FilesInit PROVE FilesInv
  OBVIOUS
<1> USE LogStreamAssumption
<1>1. FilesTypeOK
  <2>1. NoSlice \in [from: 0..MaxText, upto: 0..MaxText, final: BOOLEAN, live: BOOLEAN]
    BY DEF NoSlice
  <2>2. NoRow \in [exists: BOOLEAN, last: 0..MaxText, truncated: BOOLEAN, path: BOOLEAN]
    BY DEF NoRow
  <2>3. <<>> \in Seq(1..MaxText)
    OBVIOUS
  <2>4. TypeOK
    <3>1. /\ written \in 0..MaxText /\ acked \in 0..MaxText
          /\ failures \in 0..MaxFailures /\ stops \in 0..MaxStops
      BY DEF FilesInit, Init
    <3>2. Init
      BY DEF FilesInit
    <3> HIDE LogStreamAssumption
    <3>3. QED
      BY <2>1, <2>2, <2>3, <3>1, <3>2 DEF Init, TypeOK
  <2>5. QED
    BY <2>4 DEF FilesInit, FilesTypeOK
<1>2. /\ Behind /\ FinalIsWhole /\ UnnamedIsEmpty /\ AckedIsStored /\ CompleteWhenForgotten
      /\ ArtifactKept
  BY DEF FilesInit, Init, Behind, FinalIsWhole, UnnamedIsEmpty, AckedIsStored,
         CompleteWhenForgotten, ArtifactKept, Ended, NoRow, NoSlice
<1>3. archived = <<>> /\ Len(archived) = 0 /\ Len(Kept) = 0 /\ row.last = 0
  BY DEF FilesInit, Init, Kept, NoRow
<1>4. StoredExactly
  BY <1>3 DEF StoredExactly
<1>5. QED
  BY <1>1, <1>2, <1>4 DEF FilesInv

--------------------------------------------------------------------------------
(* The chunk. *)

\* What a text is made of.
LEMMA TextHas ==
  ASSUME NEW a \in Nat, NEW b \in Nat, a <= b
  PROVE  /\ Text(a, b) \in Seq(Nat) /\ Len(Text(a, b)) = b - a
         /\ \A i \in 1..(b - a) : Text(a, b)[i] = a + i
  BY DEF Text

\* A text is made of the places of the log.
LEMMA TextIsTyped ==
  ASSUME NEW a \in Nat, NEW b \in Nat, NEW m \in Nat, a <= b, b <= m
  PROVE  Text(a, b) \in Seq(1..m)
<1>1. \A i \in 1..(b - a) : a + i \in 1..m
  OBVIOUS
<1>2. QED
  BY <1>1 DEF Text

\* A text from a to b has every place in between.
LEMMA TextHasAll ==
  ASSUME NEW a \in Nat, NEW b \in Nat, NEW k \in (a + 1)..b
  PROVE  \E i \in DOMAIN Text(a, b) : Text(a, b)[i] = k
<1>1. k - a \in DOMAIN Text(a, b) /\ Text(a, b)[k - a] = k
  BY DEF Text
<1>2. QED
  BY <1>1

\* Texts that follow each other can be joined in any order.
LEMMA Associative ==
  \A s, t, u \in Seq(1..MaxText) : (s \o t) \o u = s \o (t \o u)
<1> TAKE s, t, u \in Seq(1..MaxText)
<1> QED
  BY ConcatAssociative

\* What is kept grows by the news, wherever the file is rotated.
LEMMA KeptGrows ==
  ASSUME stored \in Seq(1..MaxText), archived \in Seq(1..MaxText), News \in Seq(1..MaxText),
         AppendNews
  PROVE  /\ stored' \in Seq(1..MaxText) /\ archived' \in Seq(1..MaxText)
         /\ Len(archived) <= Len(archived')
         /\ Kept \in Seq(1..MaxText)
         /\ Kept' = Kept \o News
<1> DEFINE text == stored \o News
           cut == Len(text) - (Len(text) % StreamMax)
           S == 1..MaxText
<1>1. text \in Seq(S) /\ Len(text) \in Nat
  OBVIOUS
<1>2. cut \in 0..Len(text)
  <2> DEFINE n == Len(text)
  <2>1. n \in Nat /\ StreamMax \in Nat \ {0}
    BY <1>1, LogStreamAssumption
  <2> HIDE DEF n
  <2>2. n % StreamMax \in 0..(StreamMax - 1) /\ n % StreamMax \in 0..n
    BY <2>1
  <2>3. n - (n % StreamMax) \in 0..n
    BY <2>1, <2>2
  <2>4. QED
    BY <2>3 DEF n
<1>3. archived' = archived \o SubSeq(text, 1, cut) /\ stored' = SubSeq(text, cut + 1, Len(text))
  BY DEF AppendNews
<1> HIDE DEF text, cut
<1>4. SubSeq(text, 1, cut) \in Seq(S) /\ SubSeq(text, cut + 1, Len(text)) \in Seq(S)
  <2>1. /\ cut \in Int /\ cut + 1 \in Int /\ Len(text) \in Int
        /\ \A i \in 1..cut : text[i] \in S
        /\ \A i \in (cut + 1)..Len(text) : text[i] \in S
    <3>1. \A i \in 1..Len(text) : text[i] \in S
      BY <1>1, ElementOfSeq
    <3>2. /\ \A i \in 1..cut : i \in 1..Len(text)
          /\ \A i \in (cut + 1)..Len(text) : i \in 1..Len(text)
      BY <1>1, <1>2
    <3>3. QED
      BY <1>1, <1>2, <3>1, <3>2
  <2>2. QED
    BY <2>1, SubSeqProperties
<1>5. SubSeq(text, 1, cut) \o SubSeq(text, cut + 1, Len(text)) = text
  <2>1. 1 \in 1..(Len(text) + 1) /\ cut \in (1 - 1)..Len(text) /\ Len(text) \in cut..Len(text)
    BY <1>1, <1>2
  <2>2. SubSeq(text, 1, cut) \o SubSeq(text, cut + 1, Len(text)) = SubSeq(text, 1, Len(text))
    BY <1>1, <2>1, ConcatAdjacentSubSeq
  <2>3. QED
    BY <1>1, <2>2, SubSeqFull
<1>6. archived' \in Seq(S) /\ Len(archived) <= Len(archived') /\ stored' \in Seq(S)
  BY <1>3, <1>4
<1>7. Kept' = archived \o text
  <2>1. Kept' = (archived \o SubSeq(text, 1, cut)) \o SubSeq(text, cut + 1, Len(text))
    BY <1>3 DEF Kept
  <2>2. Kept' = archived \o (SubSeq(text, 1, cut) \o SubSeq(text, cut + 1, Len(text)))
    BY <1>4, <2>1, Associative, Zenon
  <2>3. QED
    BY <1>5, <2>2
<1>8. archived \o (stored \o News) = Kept \o News
  <2>1. (archived \o stored) \o News = archived \o (stored \o News)
    BY Associative, Zenon
  <2>2. QED
    BY <2>1, Zenon DEF Kept
<1>9. Kept \in Seq(S)
  BY DEF Kept
<1>10. QED
  BY <1>6, <1>7, <1>8, <1>9 DEF text

\* A chunk that fits brings what follows the stored text, and nothing else.
LEMMA NewsContinues ==
  ASSUME FilesInv, pc = "send", Fits
  PROVE  /\ ChunkEnd \in Nat /\ ChunkEnd <= slice.upto
         /\ Later(row.last, ChunkEnd) \in 0..written
         /\ row.last <= Later(row.last, ChunkEnd) /\ ChunkEnd <= Later(row.last, ChunkEnd)
         /\ News = Text(row.last, Later(row.last, ChunkEnd))
<1>1. /\ slice.from \in Nat /\ slice.upto \in Nat /\ row.last \in Nat /\ written \in Nat
      /\ row.last <= written /\ slice.upto <= written
      /\ ~row.exists => row.last = 0
  BY DEF FilesInv, FilesTypeOK, TypeOK, Behind
<1>2. ChunkEnd \in Nat /\ ChunkEnd <= slice.upto
  BY <1>1, LogStreamAssumption DEF ChunkEnd
<1>3. slice.from <= row.last
  BY <1>1 DEF Fits
<1>4. Later(slice.from, row.last) = row.last
  BY <1>1, <1>3 DEF Later
<1>5. Later(ChunkEnd, row.last) = Later(row.last, ChunkEnd)
  BY <1>1, <1>2 DEF Later
<1>6. QED
  BY <1>1, <1>2, <1>4, <1>5 DEF News, Later

\* A chunk that is appended continues what is stored, or is already there.
LEMMA AppendChunkKeeps == ASSUME FilesInv, AppendChunk PROVE FilesInv'
<1> USE LogStreamAssumption
<1> DEFINE e == Later(row.last, ChunkEnd)
<1>1. pc = "send" /\ Fits /\ AppendNews
  BY DEF AppendChunk, Store, StoreHalf
<1>2. /\ ChunkEnd \in Nat /\ ChunkEnd <= slice.upto
      /\ e \in 0..written /\ row.last <= e /\ ChunkEnd <= e
      /\ News = Text(row.last, e)
  BY <1>1, NewsContinues
<1> HIDE DEF e
<1>3. UNCHANGED <<written, over, stops, pruned, full, artifactRow, old>>
  BY DEF AppendChunk, Store, StoreHalf, processVars, Acknowledged, Unanswered
<1>4. /\ written \in 0..MaxText /\ acked \in 0..MaxText /\ stops \in 0..MaxStops
      /\ slice \in [from: 0..MaxText, upto: 0..MaxText, final: BOOLEAN, live: BOOLEAN]
      /\ row \in [exists: BOOLEAN, last: 0..MaxText, truncated: BOOLEAN, path: BOOLEAN]
      /\ stored \in Seq(1..MaxText) /\ archived \in Seq(1..MaxText)
      /\ failures \in 0..MaxFailures /\ row.last <= written /\ acked <= written /\ slice.upto <= written
      /\ disk \in [log: BOOLEAN, artifact: BOOLEAN]
  BY DEF FilesInv, FilesTypeOK, TypeOK, Behind
<1>4a. /\ row.last \in 0..MaxText /\ row.last \in Nat
       /\ e \in Nat /\ e \in 0..MaxText
       /\ ChunkEnd \in 0..MaxText
  <2>1. row.last \in 0..MaxText /\ slice.upto \in 0..MaxText
    BY <1>4
  <2>2. QED
    BY <2>1, <1>2, <1>4
<1>4b. /\ written \in Nat /\ acked \in Nat /\ acked <= written /\ row.last <= written
       /\ slice.upto \in Nat /\ slice.upto <= written
       /\ acked \in 0..MaxText /\ failures \in 0..MaxFailures
  BY <1>4
<1>5. \/ /\ row' = [exists |-> TRUE, last |-> e, truncated |-> FALSE, path |-> TRUE] /\ failures' = failures
         /\ Acknowledged \/ Unanswered
      \/ /\ row' = row /\ failures' = failures + 1 /\ failures' \in 0..MaxFailures
         /\ Unanswered
  <2>1. CASE Store
    BY <2>1 DEF Store, e
  <2>2. CASE StoreHalf
    <3>1. failures' = failures + 1 /\ failures < MaxFailures
      BY <2>2 DEF StoreHalf
    <3>2. failures' \in 0..MaxFailures
      BY <3>1, <1>4b
    <3>3. QED
      BY <2>2, <3>1, <3>2 DEF StoreHalf
  <2>3. QED
    BY <2>1, <2>2 DEF AppendChunk
<1>6. /\ \/ acked' = acked
         \/ /\ acked' = ChunkEnd /\ row'.last = e
            /\ slice' = [slice EXCEPT !.from = ChunkEnd]
            /\ pc' = IF ChunkEnd < slice.upto THEN "send"
                     ELSE IF slice.final THEN "uploaded" ELSE "idle"
      /\ \/ slice' = slice \/ slice' = [slice EXCEPT !.from = ChunkEnd]
      /\ \/ pc' \in {"send", "idle"}
         \/ pc' = "uploaded" /\ slice.final /\ ~(ChunkEnd < slice.upto) /\ row'.last = e
  BY <1>1, <1>5 DEF Acknowledged, Unanswered
<1>7. /\ row' \in [exists: BOOLEAN, last: 0..MaxText, truncated: BOOLEAN, path: BOOLEAN]
      /\ row'.last \in {row.last, e} /\ row.last <= row'.last
      /\ ~row'.exists => row'.last = row.last /\ ~row.exists
  <2>1. CASE row' = row
    BY <2>1, <1>4, <1>4a
  <2>2. CASE row' = [exists |-> TRUE, last |-> e, truncated |-> FALSE, path |-> TRUE]
    BY <2>2, <1>2, <1>4a
  <2>3. QED
    BY <2>1, <2>2, <1>5
<1>8. /\ slice' \in [from: 0..MaxText, upto: 0..MaxText, final: BOOLEAN, live: BOOLEAN]
      /\ slice'.upto = slice.upto /\ slice'.final = slice.final /\ slice'.live = slice.live
  BY <1>4, <1>6, <1>4a
<1>9. /\ stored' \in Seq(1..MaxText) /\ archived' \in Seq(1..MaxText)
      /\ Len(archived) <= Len(archived')
      /\ News \in Seq(1..MaxText) /\ Kept \in Seq(1..MaxText)
      /\ Kept' = Kept \o News
  <2>1. News \in Seq(1..MaxText)
    <3>1. e <= MaxText /\ row.last <= e /\ MaxText \in Nat
      BY <1>2, <1>4a
    <3>2. QED
      BY <3>1, <1>2, <1>4a, TextIsTyped
  <2>2. QED
    BY <2>1, <1>1, <1>4, KeptGrows
<1>10. FilesTypeOK'
  <2>1. acked' \in 0..MaxText /\ failures' \in 0..MaxFailures
    BY <1>4a, <1>4b, <1>5, <1>6
  <2>2. pc' \in {"idle", "send", "uploaded"}
    BY <1>6
  <2>3. disk' \in [log: BOOLEAN, artifact: BOOLEAN]
    BY <1>4 DEF AppendChunk
  <2>4. QED
    BY <2>1, <2>2, <2>3, <1>3, <1>7, <1>8, <1>9 DEF FilesInv, FilesTypeOK, TypeOK
<1>11. Behind'
  <2>1. row'.last <= written /\ slice'.upto <= written
    BY <1>2, <1>4b, <1>7, <1>8
  <2>2. acked' <= written
    <3>1. acked' = acked \/ acked' = ChunkEnd
      BY <1>6
    <3>2. ChunkEnd <= written
      BY <1>2, <1>4b
    <3>3. QED
      BY <3>1, <3>2, <1>4b
  <2>3. ~row'.exists => row'.last = 0
    BY <1>7 DEF FilesInv, Behind
  <2>4. QED
    BY <2>1, <2>2, <2>3, <1>3 DEF Behind
<1>12. FinalIsWhole'
  BY <1>1, <1>3, <1>6, <1>8 DEF FilesInv, FinalIsWhole, Ended
<1>13. StoredExactly'
  <2> SUFFICES ASSUME failures' = 0
               PROVE  \E left \in 0..Len(archived') :
                        /\ Len(Kept') = left + row'.last
                        /\ \A i \in 1..row'.last : Kept'[left + i] = i
                        /\ left > 0 => pruned'
    BY DEF StoredExactly
  <2>1. failures = 0 /\ row'.last = e
    BY <1>4, <1>5
  <2>2. PICK left \in 0..Len(archived) :
            /\ Len(Kept) = left + row.last
            /\ \A i \in 1..row.last : Kept[left + i] = i
            /\ left > 0 => pruned
    BY <2>1 DEF FilesInv, StoredExactly
  <2>3. /\ News \in Seq(Nat) /\ Len(News) = e - row.last
        /\ \A i \in 1..(e - row.last) : News[i] = row.last + i
    BY <1>2, <1>4a, TextHas
  <2>4. left \in 0..Len(archived') /\ left \in Nat
    BY <1>4, <1>9
  <2>5. /\ Len(Kept') = Len(Kept) + Len(News)
        /\ \A i \in 1..(Len(Kept) + Len(News)) :
              Kept'[i] = IF i <= Len(Kept) THEN Kept[i] ELSE News[i - Len(Kept)]
    BY <1>9, ConcatProperties
  <2>6. Len(Kept') = left + e
    <3>1. /\ Len(Kept') = Len(Kept) + Len(News)
          /\ Len(Kept) = left + row.last
          /\ Len(News) = e - row.last
      BY <2>2, <2>3, <2>5
    <3>2. left \in Nat /\ row.last \in Nat /\ e \in Nat
      BY <1>2, <1>4a, <2>4
    <3>3. QED
      BY <3>1, <3>2
  <2>7. ASSUME NEW i \in 1..e PROVE Kept'[left + i] = i
    <3>0. i \in Nat /\ i >= 1 /\ i <= e /\ row.last \in Nat /\ e \in Nat /\ row.last <= e
      BY <1>2, <1>4a, <2>7
    <3>1. CASE i <= row.last
      <4>1. /\ left + i \in 1..(Len(Kept) + Len(News)) /\ left + i <= Len(Kept)
            /\ i \in 1..row.last
        BY <2>2, <2>3, <2>4, <3>0, <3>1
      <4>2. Kept'[left + i] = Kept[left + i]
        BY <2>5, <4>1
      <4>3. QED
        BY <2>2, <4>1, <4>2
    <3>2. CASE row.last < i
      <4>1. /\ left + i \in 1..(Len(Kept) + Len(News)) /\ ~(left + i <= Len(Kept))
            /\ (left + i) - Len(Kept) = i - row.last
            /\ i - row.last \in 1..(e - row.last)
        <5>1. Len(Kept) = left + row.last /\ Len(News) = e - row.last /\ left \in Nat
          BY <2>2, <2>3, <2>4
        <5> DEFINE k == Len(Kept)
                   m == Len(News)
        <5>2. k = left + row.last /\ m = e - row.last
          BY <5>1
        <5> HIDE DEF k, m
        <5>3. /\ i \in Nat /\ row.last \in Nat /\ e \in Nat /\ left \in Nat
              /\ row.last < i /\ i <= e
          BY <3>0, <3>2, <5>1
        <5>4. left + i \in 1..(k + m) /\ ~(left + i <= k)
          BY <5>2, <5>3
        <5>5. (left + i) - k = i - row.last /\ i - row.last \in 1..(e - row.last)
          BY <5>2, <5>3
        <5>6. QED
          BY <5>4, <5>5 DEF k, m
      <4>2. Kept'[left + i] = News[i - row.last]
        BY <2>5, <4>1
      <4>3. News[i - row.last] = row.last + (i - row.last)
        BY <2>3, <4>1
      <4>4. QED
        BY <3>0, <4>2, <4>3
    <3>3. QED
      BY <3>0, <3>1, <3>2
  <2>8. QED
    BY <1>3, <2>1, <2>2, <2>4, <2>6, <2>7
<1>13a. UnnamedIsEmpty'
  BY <1>4, <1>5 DEF UnnamedIsEmpty
<1>14. AckedIsStored'
  <2> SUFFICES ASSUME ~pruned
               PROVE  /\ acked' <= row'.last
                      /\ \A i \in 1..row'.last : \E k \in DOMAIN Kept' : Kept'[k] = i
    BY <1>3 DEF AckedIsStored
  <2>1. acked <= row.last /\ \A i \in 1..row.last : \E k \in DOMAIN Kept : Kept[k] = i
    BY DEF FilesInv, AckedIsStored
  <2>2. acked' <= row'.last
    <3>1. CASE acked' = acked
      <4>1. acked <= row.last /\ row.last <= row'.last
        BY <2>1, <1>7
      <4>2. row'.last \in Nat
        BY <1>4a, <1>7
      <4>3. QED
        BY <3>1, <4>1, <4>2, <1>4a, <1>4b
    <3>2. CASE acked' = ChunkEnd /\ row'.last = e
      BY <3>2, <1>2
    <3>3. QED
      BY <3>1, <3>2, <1>6
  <2>3. ASSUME NEW i \in 1..row'.last PROVE \E k \in DOMAIN Kept' : Kept'[k] = i
    <3>1. News \in Seq(Nat)
      BY <1>2, <1>4a, TextHas
    <3>2. CASE i \in 1..row.last
      <4>1. PICK k \in DOMAIN Kept : Kept[k] = i
        BY <2>1, <3>2
      <4>2. k \in DOMAIN Kept' /\ Kept'[k] = i
        BY <4>1, <3>1, <1>9
      <4>3. QED
        BY <4>2
    <3>3. CASE i \in (row.last + 1)..e
      <4>1. PICK m \in DOMAIN News : News[m] = i
        BY <3>3, <1>2, <1>4a, TextHasAll
      <4>2. Len(Kept) + m \in DOMAIN Kept' /\ Kept'[Len(Kept) + m] = i
        BY <4>1, <3>1, <1>9
      <4>3. QED
        BY <4>2
    <3>4. QED
      BY <3>2, <3>3, <1>2, <1>4, <1>7, <2>3
  <2>4. QED
    BY <2>2, <2>3
<1>15. CompleteWhenForgotten'
  <2> SUFFICES ASSUME pc' \in Ended, ~slice.live PROVE row'.last = written
    BY <1>3, <1>8 DEF CompleteWhenForgotten, Ended
  <2>1. slice.final /\ ~(ChunkEnd < slice.upto) /\ row'.last = e
    BY <1>6 DEF Ended
  <2>2. slice.upto = written
    BY <2>1, <1>1 DEF FilesInv, FinalIsWhole
  <2>3. QED
    BY <2>1, <2>2, <1>2, <1>4
<1>16. ArtifactKept'
  BY <1>6 DEF ArtifactKept
<1>17. QED
  BY <1>10, <1>11, <1>12, <1>13, <1>13a, <1>14, <1>15, <1>16 DEF FilesInv
--------------------------------------------------------------------------------
(* The process writes, and the agent reads what it wrote. *)

\* The process only adds to its log and ends.
LEMMA ProcessKeeps == ASSUME FilesInv, Process, UNCHANGED <<fileVars, old>> PROVE FilesInv'
<1>1. UNCHANGED <<agentVars, serverVars, full, fileVars, old>>
  BY DEF Process, Write, End
<1>2. /\ ~over /\ written' \in 0..MaxText /\ written <= written' /\ over' \in BOOLEAN
      /\ written \in Nat /\ acked \in Nat /\ row.last \in Nat /\ slice.upto \in Nat
  <2>1. /\ written \in 0..MaxText /\ over \in BOOLEAN /\ acked \in 0..MaxText
        /\ row \in [exists: BOOLEAN, last: 0..MaxText, truncated: BOOLEAN, path: BOOLEAN]
        /\ slice \in [from: 0..MaxText, upto: 0..MaxText, final: BOOLEAN, live: BOOLEAN]
    BY DEF FilesInv, FilesTypeOK, TypeOK
  <2>2. row.last \in 0..MaxText /\ slice.upto \in 0..MaxText
    BY <2>1
  <2>3. /\ ~over /\ over' \in BOOLEAN
        /\ \/ written' = written
           \/ written' = written + 1 /\ written < MaxText
    <3>1. CASE Write
      BY <3>1, <2>1 DEF Write
    <3>2. CASE End
      BY <3>2 DEF End
    <3>3. QED
      BY <3>1, <3>2 DEF Process
  <2>4. QED
    BY <2>1, <2>2, <2>3, LogStreamAssumption
<1>3. FilesTypeOK'
  BY <1>1, <1>2 DEF FilesInv, FilesTypeOK, TypeOK, agentVars, serverVars, storeVars, fileVars
<1>4. Behind'
  BY <1>1, <1>2 DEF FilesInv, Behind, agentVars, serverVars
<1>5. ~(pc \in Ended /\ ~slice.live) /\ ~(pc = "send" /\ slice.final /\ ~slice.live)
  BY <1>2 DEF FilesInv, FinalIsWhole
<1>6. FinalIsWhole' /\ CompleteWhenForgotten'
  BY <1>1, <1>5 DEF FinalIsWhole, CompleteWhenForgotten, Ended, agentVars
<1>7. UnnamedIsEmpty' /\ StoredExactly' /\ AckedIsStored' /\ ArtifactKept'
  <2>1. UNCHANGED <<pc, acked, row, stored, archived, failures, pruned, disk, artifactRow, old>>
    BY <1>1 DEF agentVars, serverVars, storeVars, fileVars
  <2>2. UnnamedIsEmpty' /\ ArtifactKept'
    BY <2>1 DEF FilesInv, UnnamedIsEmpty, ArtifactKept
  <2>3. StoredExactly'
    BY <2>1 DEF FilesInv, StoredExactly, Kept
  <2>4. AckedIsStored'
    BY <2>1 DEF FilesInv, AckedIsStored, Kept
  <2>5. QED
    BY <2>2, <2>3, <2>4
<1>8. QED
  BY <1>3, <1>4, <1>6, <1>7 DEF FilesInv

\* The pump reads from what was acknowledged up to what is written.
LEMMA ReadKeeps ==
  ASSUME FilesInv, NEW final \in BOOLEAN, Read(final), UNCHANGED <<fileVars, old>>
  PROVE  FilesInv'
<1>1. /\ UNCHANGED <<acked, stops, processVars, serverVars, full, fileVars, old>>
      /\ pc' = "send"
      /\ slice' = [from |-> acked, upto |-> written, final |-> final, live |-> ~over]
  BY DEF Read
<1>2. /\ acked \in 0..MaxText /\ written \in 0..MaxText /\ over \in BOOLEAN
  BY DEF FilesInv, FilesTypeOK, TypeOK
<1>3. /\ slice' \in [from: 0..MaxText, upto: 0..MaxText, final: BOOLEAN, live: BOOLEAN]
      /\ slice'.upto = written /\ slice'.live = ~over
  BY <1>1, <1>2
<1>4. FilesTypeOK'
  BY <1>1, <1>3 DEF FilesInv, FilesTypeOK, TypeOK, processVars, serverVars, storeVars, fileVars
<1>5. Behind'
  BY <1>1, <1>2, <1>3 DEF FilesInv, Behind, processVars, serverVars
<1>6. FinalIsWhole' /\ CompleteWhenForgotten' /\ ArtifactKept'
  BY <1>1, <1>2, <1>3 DEF FinalIsWhole, CompleteWhenForgotten, ArtifactKept, Ended, processVars
<1>7. UnnamedIsEmpty' /\ StoredExactly' /\ AckedIsStored'
  BY <1>1 DEF FilesInv, UnnamedIsEmpty, StoredExactly, AckedIsStored, Kept, serverVars, storeVars
<1>8. QED
  BY <1>4, <1>5, <1>6, <1>7 DEF FilesInv

--------------------------------------------------------------------------------
(* The steps that leave the row, the stored text and the process alone: the agent  *)
(* goes on to the end of the task, or starts over; artifacts come and go.          *)

Onward ==
    /\ UNCHANGED <<written, over, row, stored, archived, pruned>>
    /\ acked' = acked \/ acked' = 0
    /\ stops' \in 0..MaxStops
    /\ failures' \in 0..MaxFailures /\ failures <= failures'
    /\ full' \in BOOLEAN /\ old' \in BOOLEAN /\ (old => old')
    /\ artifactRow' \in BOOLEAN
    /\ disk' \in [log: BOOLEAN, artifact: BOOLEAN]
    /\ \/ pc' = "idle" /\ slice' \in {slice, NoSlice}
       \/ /\ slice' = slice
          /\ \/ pc' = pc
             \/ pc \in Ended /\ pc' \in Ended
          /\ \/ old'
             \/ artifactRow' /\ disk'.artifact
             \/ /\ artifactRow' = artifactRow /\ disk'.artifact = disk.artifact
                /\ pc' \in {"filed", "cleared", "forgotten"}
                     => pc \in {"filed", "cleared", "forgotten"}

\* The steps of finalization that neither read nor store keep the invariant.
LEMMA OnwardKeeps == ASSUME FilesInv, Onward PROVE FilesInv'
<1>1. NoSlice \in [from: 0..MaxText, upto: 0..MaxText, final: BOOLEAN, live: BOOLEAN]
      /\ NoSlice.upto = 0
  BY LogStreamAssumption DEF NoSlice
<1>2. /\ acked \in 0..MaxText /\ written \in 0..MaxText /\ row.last \in Nat
      /\ failures \in 0..MaxFailures
      /\ slice \in [from: 0..MaxText, upto: 0..MaxText, final: BOOLEAN, live: BOOLEAN]
      /\ pc \in {"idle", "send"} \cup Ended
  BY DEF FilesInv, FilesTypeOK, TypeOK, Ended
<1>3. FilesTypeOK'
  <2>1. acked' \in 0..MaxText
    <3>1. acked' = acked \/ acked' = 0
      BY DEF Onward
    <3>2. QED
      BY <1>2, <3>1, LogStreamAssumption
  <2>2. slice' \in [from: 0..MaxText, upto: 0..MaxText, final: BOOLEAN, live: BOOLEAN]
    <3>1. slice' = slice \/ slice' = NoSlice
      BY DEF Onward
    <3>2. QED
      BY <1>1, <1>2, <3>1
  <2>3. pc' \in {"idle", "send"} \cup Ended
    <3>1. pc' = "idle" \/ pc' = pc \/ pc' \in Ended
      BY DEF Onward
    <3>2. QED
      BY <1>2, <3>1
  <2>4. QED
    BY <2>1, <2>2, <2>3 DEF Onward, FilesInv, FilesTypeOK, TypeOK, Ended
<1>4. Behind'
  BY <1>1, <1>2 DEF Onward, FilesInv, Behind
<1>5. FinalIsWhole'
  BY DEF Onward, FilesInv, FinalIsWhole, Ended
<1>6. CompleteWhenForgotten'
  BY DEF Onward, FilesInv, CompleteWhenForgotten, Ended
<1>7. UnnamedIsEmpty' /\ StoredExactly'
  <2>1. failures' = 0 => failures = 0
    BY <1>2 DEF Onward
  <2>2. UNCHANGED <<row, stored, archived, pruned>>
    BY DEF Onward
  <2>3. QED
    BY <2>1, <2>2 DEF FilesInv, UnnamedIsEmpty, StoredExactly, Kept
<1>8. AckedIsStored'
  <2>1. UNCHANGED <<row, stored, archived, pruned>> /\ (acked' = acked \/ acked' = 0)
    BY DEF Onward
  <2>2. 0 <= row.last
    BY <1>2
  <2>3. QED
    BY <2>1, <2>2 DEF FilesInv, AckedIsStored, Kept
<1>9. ArtifactKept'
  BY DEF Onward, FilesInv, ArtifactKept
<1>10. QED
  BY <1>3, <1>4, <1>5, <1>6, <1>7, <1>8, <1>9 DEF FilesInv
\* Every step but those of the process, the reader, the chunk and the deleted stream.
LEMMA OnwardSteps ==
  ASSUME FilesInv,
         \/ GrowsOld
         \/ Storage /\ UNCHANGED <<fileVars, old>>
         \/ (Report \/ ClearOffsets \/ Forget \/ AgentDies \/ Refuse)
              /\ UNCHANGED <<fileVars, old>>
         \/ UploadArtifact \/ UploadArtifactHalf \/ FinalizeFails
         \/ PruneArtifacts
         \/ UNCHANGED filesVars
  PROVE  Onward
<1>1. /\ stops \in 0..MaxStops /\ failures \in 0..MaxFailures
      /\ full \in BOOLEAN /\ old \in BOOLEAN /\ artifactRow \in BOOLEAN
      /\ disk \in [log: BOOLEAN, artifact: BOOLEAN]
      /\ failures <= failures
  BY DEF FilesInv, FilesTypeOK, TypeOK
<1> USE LogStreamAssumption
<1>2. CASE GrowsOld \/ (Storage /\ UNCHANGED <<fileVars, old>>) \/ UNCHANGED filesVars
  BY <1>1, <1>2
  DEF GrowsOld, Storage, Onward, filesVars, vars, processVars, agentVars, serverVars, storeVars, fileVars
<1>3. CASE (Report \/ ClearOffsets \/ Forget \/ Refuse) /\ UNCHANGED <<fileVars, old>>
  BY <1>1, <1>3
  DEF Report, ClearOffsets, Forget, Refuse, Refused, Onward, Ended, processVars, serverVars,
      storeVars, fileVars
<1>4. CASE AgentDies /\ UNCHANGED <<fileVars, old>>
  BY <1>1, <1>4 DEF AgentDies, Onward, processVars, serverVars, storeVars, fileVars
<1>5. CASE UploadArtifact
  <2>1. /\ disk' = [disk EXCEPT !.artifact = TRUE] /\ artifactRow'
        /\ artifactRow' \in BOOLEAN
        /\ UNCHANGED <<serverVars, full, old>>
    BY <1>5 DEF UploadArtifact
  <2>2. disk' \in [log: BOOLEAN, artifact: BOOLEAN] /\ disk'.artifact
    BY <2>1, <1>1
  <2>3. CASE Filed
    BY <2>1, <2>2, <2>3, <1>1 DEF Filed, Onward, Ended, processVars, serverVars, storeVars
  <2>4. CASE FinalizeAgain
    BY <2>1, <2>2, <2>4, <1>1 DEF FinalizeAgain, Onward, processVars, serverVars, storeVars
  <2>5. QED
    BY <1>5, <2>3, <2>4 DEF UploadArtifact
<1>6. CASE UploadArtifactHalf
  <2>1. disk' = [disk EXCEPT !.artifact = TRUE]
    BY <1>6 DEF UploadArtifactHalf
  <2>2. disk' \in [log: BOOLEAN, artifact: BOOLEAN]
    BY <2>1, <1>1
  <2>3. failures' \in 0..MaxFailures /\ failures <= failures'
    BY <1>1, <1>6 DEF UploadArtifactHalf
  <2>4. QED
    BY <2>2, <2>3, <1>1, <1>6
    DEF UploadArtifactHalf, Unfiled, FinalizeAgain, Onward, processVars, storeVars
<1>7. CASE FinalizeFails
  BY <1>1, <1>7
  DEF FinalizeFails, FinalizeAgain, Onward, processVars, serverVars, storeVars, fileVars
<1>8. CASE PruneArtifacts
  <2>1. disk' = [disk EXCEPT !.artifact = FALSE] /\ old /\ old' = old
    BY <1>8 DEF PruneArtifacts
  <2>2. disk' \in [log: BOOLEAN, artifact: BOOLEAN]
    BY <2>1, <1>1
  <2>3. failures' \in 0..MaxFailures /\ failures <= failures' /\ artifactRow' \in BOOLEAN
    <3>1. \/ failures' = failures /\ artifactRow' = FALSE
          \/ failures' = failures + 1 /\ failures < MaxFailures /\ artifactRow' = artifactRow
      BY <1>8 DEF PruneArtifacts
    <3>2. failures' \in 0..MaxFailures /\ failures <= failures'
      <4>1. failures' = failures \/ (failures' = failures + 1 /\ failures < MaxFailures)
        BY <3>1, Zenon
      <4>2. failures \in 0..MaxFailures
        BY <1>1
      <4>3. QED
        BY <4>1, <4>2
    <3>3. artifactRow' \in BOOLEAN
      BY <3>1, <1>1
    <3>4. QED
      BY <3>2, <3>3
  <2>4. QED
    BY <2>1, <2>2, <2>3, <1>1, <1>8 DEF PruneArtifacts, Onward, processVars, agentVars, storeVars
<1>9. QED
  BY <1>2, <1>3, <1>4, <1>5, <1>6, <1>7, <1>8

--------------------------------------------------------------------------------
(* The stream is refused for want of room, or deleted. *)

\* A chunk over the quota marks the stream as truncated and stores nothing.
LEMMA TruncateKeeps == ASSUME FilesInv, Truncate, UNCHANGED <<fileVars, old>> PROVE FilesInv'
<1>1. /\ row' = [row EXCEPT !.exists = TRUE, !.truncated = TRUE] /\ pc' = "idle"
      /\ UNCHANGED <<acked, slice, stops, written, over, stored, archived, failures, pruned,
                     full, disk, artifactRow, old>>
  BY DEF Truncate, Refused, processVars, storeVars, fileVars
<1>2. row \in [exists: BOOLEAN, last: 0..MaxText, truncated: BOOLEAN, path: BOOLEAN]
  BY DEF FilesInv, FilesTypeOK, TypeOK
<1>3. /\ row' \in [exists: BOOLEAN, last: 0..MaxText, truncated: BOOLEAN, path: BOOLEAN]
      /\ row'.last = row.last /\ row'.path = row.path /\ row'.exists
  BY <1>1, <1>2
<1>4. FilesTypeOK'
  BY <1>1, <1>3 DEF FilesInv, FilesTypeOK, TypeOK
<1>5. Behind' /\ FinalIsWhole' /\ CompleteWhenForgotten' /\ ArtifactKept'
  BY <1>1, <1>3
  DEF FilesInv, Behind, FinalIsWhole, CompleteWhenForgotten, ArtifactKept, Ended
<1>6. UnnamedIsEmpty' /\ StoredExactly' /\ AckedIsStored'
  BY <1>1, <1>3 DEF FilesInv, UnnamedIsEmpty, StoredExactly, AckedIsStored, Kept
<1>7. QED
  BY <1>4, <1>5, <1>6 DEF FilesInv

\* Retention deletes the stream of an old task only.
LEMMA PruneLogsKeeps == ASSUME FilesInv, PruneLogs PROVE FilesInv'
<1>1. /\ stored' = IF row.path THEN <<>> ELSE stored
      /\ archived' = archived /\ pruned' = TRUE
      /\ \/ row' = NoRow /\ failures' = failures
         \/ row' = row /\ failures' = failures + 1 /\ failures < MaxFailures
      /\ disk' = [disk EXCEPT !.log = @ /\ ~row.path]
      /\ UNCHANGED <<acked, slice, stops, pc, written, over, full, artifactRow, old>>
  BY DEF PruneLogs, Prune, PruneHalf, DeleteFile, processVars, agentVars
<1>2. /\ row \in [exists: BOOLEAN, last: 0..MaxText, truncated: BOOLEAN, path: BOOLEAN]
      /\ disk \in [log: BOOLEAN, artifact: BOOLEAN]
      /\ failures \in 0..MaxFailures /\ written \in 0..MaxText
      /\ stored \in Seq(1..MaxText) /\ archived \in Seq(1..MaxText)
  BY DEF FilesInv, FilesTypeOK, TypeOK
<1>3. NoRow \in [exists: BOOLEAN, last: 0..MaxText, truncated: BOOLEAN, path: BOOLEAN] /\ NoRow.last = 0
  BY LogStreamAssumption DEF NoRow
<1>4. failures' \in 0..MaxFailures
  BY <1>1, <1>2, LogStreamAssumption
<1>5. /\ disk' \in [log: BOOLEAN, artifact: BOOLEAN]
      /\ disk'.artifact = disk.artifact
  <2>1. (disk.log /\ ~row.path) \in BOOLEAN
    OBVIOUS
  <2>2. QED
    BY <1>1, <1>2, <2>1
<1>6. FilesTypeOK'
  <2>1. stored' \in Seq(1..MaxText) /\ archived' \in Seq(1..MaxText)
    <3>1. archived' = archived /\ (stored' = <<>> \/ stored' = stored)
      BY <1>1
    <3>2. <<>> \in Seq(1..MaxText)
      OBVIOUS
    <3>3. QED
      BY <1>2, <3>1, <3>2
  <2>2. row' \in [exists: BOOLEAN, last: 0..MaxText, truncated: BOOLEAN, path: BOOLEAN]
    BY <1>1, <1>2, <1>3
  <2>3. QED
    BY <2>1, <2>2, <1>1, <1>4, <1>5 DEF FilesInv, FilesTypeOK, TypeOK
<1>7. Behind'
  BY <1>1, <1>2, <1>3 DEF FilesInv, Behind
<1>8. FinalIsWhole' /\ CompleteWhenForgotten' /\ AckedIsStored'
  BY <1>1 DEF FilesInv, FinalIsWhole, CompleteWhenForgotten, AckedIsStored, Ended
<1>9. ArtifactKept'
  BY <1>1, <1>5 DEF FilesInv, ArtifactKept
<1>10. StoredExactly' /\ UnnamedIsEmpty'
  <2> SUFFICES ASSUME failures' = 0
               PROVE  /\ \E left \in 0..Len(archived') :
                           /\ Len(Kept') = left + row'.last
                           /\ \A i \in 1..row'.last : Kept'[left + i] = i
                           /\ left > 0 => pruned'
                      /\ stored' = <<>>
    BY DEF StoredExactly, UnnamedIsEmpty
  <2>1. failures = 0 /\ row'.last = 0
    BY <1>1, <1>2, <1>3
  <2>2. stored' = <<>>
    BY <1>1, <2>1 DEF FilesInv, UnnamedIsEmpty
  <2>3. Kept' = archived /\ Len(archived) \in 0..Len(archived') /\ Len(archived) \in Nat
    BY <1>1, <1>2, <2>2, ConcatEmptySeq DEF Kept
  <2>4. Len(Kept') = Len(archived) + row'.last
    BY <2>1, <2>3
  <2>5. \A i \in 1..row'.last : Kept'[Len(archived) + i] = i
    BY <2>1
  <2>6. QED
    BY <1>1, <2>2, <2>3, <2>4, <2>5
<1>11. QED
  BY <1>6, <1>7, <1>8, <1>9, <1>10 DEF FilesInv

\* Every step of the agent, the control plane and retention keeps the invariant.
LEMMA StepFilesInv == FilesInv /\ [FilesNext]_filesVars => FilesInv'
<1> SUFFICES ASSUME FilesInv, [FilesNext]_filesVars PROVE FilesInv'
  OBVIOUS
<1>1. CASE Process /\ UNCHANGED <<fileVars, old>>
  BY <1>1, ProcessKeeps
<1>2. CASE (Read(TRUE) \/ Read(FALSE)) /\ UNCHANGED <<fileVars, old>>
  BY <1>2, ReadKeeps
<1>3. CASE AppendChunk
  BY <1>3, AppendChunkKeeps
<1>4. CASE Truncate /\ UNCHANGED <<fileVars, old>>
  BY <1>4, TruncateKeeps
<1>5. CASE PruneLogs
  BY <1>5, PruneLogsKeeps
<1>6. CASE \/ GrowsOld
           \/ Storage /\ UNCHANGED <<fileVars, old>>
           \/ (Report \/ ClearOffsets \/ Forget \/ AgentDies \/ Refuse)
                /\ UNCHANGED <<fileVars, old>>
           \/ UploadArtifact \/ UploadArtifactHalf \/ FinalizeFails
           \/ PruneArtifacts
           \/ UNCHANGED filesVars
  BY <1>6, OnwardSteps, OnwardKeeps
<1>7. QED
  BY <1>1, <1>2, <1>3, <1>4, <1>5, <1>6 DEF FilesNext, Streaming

--------------------------------------------------------------------------------
\* Offsets, rows and files keep their types; in particular no offset exceeds the text.
THEOREM FilesTypeCorrect == FilesSpec => []FilesTypeOK
<1>1. FilesInv => FilesTypeOK
  BY DEF FilesInv
<1>2. QED
  BY <1>1, InitFilesInv, StepFilesInv, PTL DEF FilesSpec

\* task_log_chunk keeps each character of a stream once and in order, in the log file and
\* its archives, however chunks were repeated or cut, as long as no commit fails after
\* the file was written; only archives of a stream the retention deleted come before it.
THEOREM StoredExactlyHolds == FilesSpec => []StoredExactly
<1>1. FilesInv => StoredExactly
  BY DEF FilesInv
<1>2. QED
  BY <1>1, InitFilesInv, StepFilesInv, PTL DEF FilesSpec

\* The offsets the node saves never run ahead of what is stored, whatever fails on
\* either side, until the retention deletes the stream.
THEOREM AckedIsStoredHolds == FilesSpec => []AckedIsStored
<1>1. FilesInv => AckedIsStored
  BY DEF FilesInv
<1>2. QED
  BY <1>1, InitFilesInv, StepFilesInv, PTL DEF FilesSpec

\* finalize_background_task forgets a task that has ended only with all its output
\* stored, whatever was repeated, cut or lost on the way.
THEOREM CompleteWhenForgottenHolds == FilesSpec => []CompleteWhenForgotten
<1>1. FilesInv => CompleteWhenForgotten
  BY DEF FilesInv
<1>2. QED
  BY <1>1, InitFilesInv, StepFilesInv, PTL DEF FilesSpec

\* When finalize_background_task forgets a task its summary is in the control plane, as
\* a row and as a file, until the retention deletes it: the node goes on only after a
\* reply, and a failed commit that leaves the file without its row makes it upload again.
THEOREM ArtifactKeptHolds == FilesSpec => []ArtifactKept
<1>1. FilesInv => ArtifactKept
  BY DEF FilesInv
<1>2. QED
  BY <1>1, InitFilesInv, StepFilesInv, PTL DEF FilesSpec

================================================================================
