-------------------------- MODULE CleanStageProofs --------------------------
(* The clean stage loses no line without a trace and loads what it should,   *)
(* for any columns, files, casts, fills, ranks and number of attempts, and   *)
(* however often the ranking of Dedup is evaluated anew.                     *)
EXTENDS CleanStage, TLAPS

-----------------------------------------------------------------------------
(* The inductive invariant *)

Filled(i) == FillRow(file.lines[i])
Typed(i)  == CastRow(Filled(i))

\* a dead letter of TypeCast for a line
CastLetter(l, i) == l.reason = "cast" /\ l.line = i /\ l.row = Typed(i)

\* The frame holds what the transforms so far have made of the file: all of
\* its lines, or else a letter, and after TypeCast only lines that cast.
FrameFollows ==
    /\ step = 1 => frame = [i \in Lines |-> file.lines[i]]
    /\ step = 2 => frame = [i \in Lines |-> Filled(i)]
    /\ step = 3 =>
         /\ \A i \in DOMAIN frame : frame[i] = Typed(i) /\ CastCleanly(i)
         /\ \A i \in Lines \ DOMAIN frame : \E l \in letters : CastLetter(l, i)

\* What has been sent; and why a cast letter was.
LettersTell ==
    /\ \A l \in letters : l.reason = "cast" =>
          \E j \in Lines : ~CastCleanly(j) /\ RowHash(Filled(j)) = RowHash(Filled(l.line))
    /\ step = 2 /\ sent => \A i \in Diverted : \E l \in letters : CastLetter(l, i)
    /\ step = 3 /\ sent => \E S \in Survivors : DOMAIN frame \ S \subseteq Dead

\* The stage is left behind Dedup, whose duplicates have been sent.
DedupFollows ==
    /\ Succeeded \/ loaded # {} =>
         step = 3 /\ deduped = Rankable /\ (Rankable /\ DOMAIN frame \notin Survivors => sent)
    /\ pc = "transform" => ~deduped
    /\ Succeeded => checked \in Evaluations
    /\ pc = "loaded" \/ loaded # {} => loaded \in Evaluations
    /\ pc \in {"transform", "checked", "failed"} => loaded = {}
    /\ pc \in {"transform", "failed"} => checked = {}
    /\ pc = "reprocessed" => reprocessed = [l \in letters |-> CastRow(FillRow(l.row))]

IInv == TypeOK /\ FrameFollows /\ LettersTell /\ DedupFollows

-----------------------------------------------------------------------------
(* What the transforms do to a row *)

\* Rows stay rows; a row's trade and, if it casts, its date are not touched.
LEMMA RowFacts ==
  ASSUME NEW row \in RowType
  PROVE  /\ FillRow(row) \in RowType /\ CastRow(row) \in RowType
         /\ FillRow(row)[KeyColumn] = row[KeyColumn] /\ CastRow(row)[KeyColumn] = row[KeyColumn]
         /\ FillRow(row)[OrderColumn] = row[OrderColumn]
         /\ ~Uncastable(row) => \A c \in ColumnSet : CastRow(row)[c] = row[c]
<1>1. /\ KeyColumn \in ColumnSet /\ OrderColumn \in ColumnSet
      /\ KeyColumn \notin DOMAIN Fills /\ OrderColumn \notin DOMAIN Fills
      /\ Castable[KeyColumn] = Values
  BY ColumnsAssumption, KeysAssumption
<1>2. \A c \in DOMAIN Fills : Fills[c] \in Values
  BY ColumnsAssumption
<1>3. \A c \in ColumnSet : row[c] \in Values \union {Null}
  BY DEF RowType
<1>4. FillRow(row) \in RowType
  BY <1>2, <1>3 DEF FillRow, RowType
<1>5. CastRow(row) \in RowType
  BY <1>3 DEF CastRow, RowType
<1>6. FillRow(row)[KeyColumn] = row[KeyColumn] /\ FillRow(row)[OrderColumn] = row[OrderColumn]
  BY <1>1 DEF FillRow
<1>7. CastRow(row)[KeyColumn] = row[KeyColumn]
  BY <1>1, <1>3 DEF CastRow
<1>8. ~Uncastable(row) => \A c \in ColumnSet : CastRow(row)[c] = row[c]
  BY DEF CastRow, Uncastable
<1> QED
  BY <1>4, <1>5, <1>6, <1>7, <1>8

LEMMA LineFacts ==
  ASSUME TypeOK, NEW i \in Lines
  PROVE  /\ i \in Nat /\ file.lines[i] \in RowType
         /\ Filled(i) \in RowType /\ Typed(i) \in RowType
         /\ Typed(i)[KeyColumn] = file.lines[i][KeyColumn]
         /\ CastCleanly(i) => Typed(i)[OrderColumn] = file.lines[i][OrderColumn]
<1>1. file.lines \in Seq(RowType)
  BY FilesAssumption DEF TypeOK
<1>2. i \in Nat /\ file.lines[i] \in RowType
  BY <1>1 DEF Lines
<1>3. /\ Filled(i) \in RowType /\ Filled(i)[KeyColumn] = file.lines[i][KeyColumn]
      /\ Filled(i)[OrderColumn] = file.lines[i][OrderColumn]
  BY <1>2, RowFacts DEF Filled
<1>4. /\ Typed(i) \in RowType /\ Typed(i)[KeyColumn] = Filled(i)[KeyColumn]
      /\ CastCleanly(i) => Typed(i)[OrderColumn] = Filled(i)[OrderColumn]
  BY <1>3, RowFacts, ColumnsAssumption DEF Typed, CastCleanly, Filled
<1> QED
  BY <1>2, <1>3, <1>4

\* What a step that keeps the file keeps.
LEMMA FileStays ==
  ASSUME UNCHANGED file
  PROVE  /\ Lines' = Lines /\ (Rankable' <=> Rankable)
         /\ \A i : Filled(i)' = Filled(i) /\ Typed(i)' = Typed(i)
                   /\ (CastCleanly(i)' <=> CastCleanly(i))
         /\ \A l, i : CastLetter(l, i)' <=> CastLetter(l, i)
         /\ \A row : FillRow(row)' = FillRow(row)
<1>1. Lines' = Lines /\ (Rankable' <=> Rankable)
  BY DEF Lines, Rankable
<1>2. \A row : FillRow(row)' = FillRow(row)
  BY DEF FillRow
<1>3. \A i : Filled(i)' = Filled(i) /\ Typed(i)' = Typed(i) /\ (CastCleanly(i)' <=> CastCleanly(i))
  BY DEF Filled, Typed, CastCleanly, FillRow
<1>4. \A l, i : CastLetter(l, i)' <=> CastLetter(l, i)
  BY <1>3 DEF CastLetter
<1> QED
  BY <1>1, <1>2, <1>3, <1>4

LEMMA FrameStays ==
  ASSUME UNCHANGED frame
  PROVE  /\ Survivors' = Survivors /\ Diverted' = Diverted /\ CastFailures' = CastFailures
         /\ UNCHANGED deduped => Evaluations' = Evaluations
<1>1. \A i, j : (SameKey(i, j)' <=> SameKey(i, j)) /\ RankOf(i)' = RankOf(i)
  BY DEF SameKey, RankOf
<1>2. Survivors' = Survivors
  BY <1>1 DEF Survivors
<1>3. CastFailures' = CastFailures /\ Diverted' = Diverted
  BY DEF CastFailures, Diverted
<1> QED
  BY <1>2, <1>3 DEF Evaluations

\* Letters are only added: what they told, they tell.
LEMMA LettersAdded ==
  ASSUME TypeOK, UNCHANGED file, letters \subseteq letters',
         \A l \in letters' \ letters : l \in LetterType /\ l.line \in Lines /\ l.reason # "cast"
  PROVE  /\ \A i : (\E l \in letters : CastLetter(l, i)) => \E l \in letters' : CastLetter(l, i)'
         /\ Dead \subseteq Dead'
         /\ \A l \in letters' : l \in LetterType /\ l.line \in Lines
         /\ (\A l \in letters : l.reason = "cast" =>
               \E j \in Lines : ~CastCleanly(j) /\ RowHash(Filled(j)) = RowHash(Filled(l.line)))
            => \A l \in letters' : l.reason = "cast" =>
                 (\E j \in Lines : ~CastCleanly(j) /\ RowHash(Filled(j)) = RowHash(Filled(l.line)))'
<1>1. \A l, i : CastLetter(l, i)' <=> CastLetter(l, i)
  BY FileStays
<1>2. \A i : Filled(i)' = Filled(i) /\ (CastCleanly(i)' <=> CastCleanly(i)) /\ Lines' = Lines
  BY FileStays
<1>3. Dead \subseteq Dead'
  BY DEF Dead
<1>4. \A l \in letters' : l \in LetterType /\ l.line \in Lines
  BY DEF TypeOK
<1>5. \A l \in letters' : l.reason = "cast" => l \in letters
  OBVIOUS
<1> QED
  BY <1>1, <1>2, <1>3, <1>4, <1>5

\* The types of what the transforms change.
LEMMA TypesStay ==
  ASSUME TypeOK, UNCHANGED <<file, ansi, deduped, reprocessed>>,
         pc' = "transform", step' \in 1 .. 3, attempt' \in 1 .. MaxAttempts, sent' \in BOOLEAN,
         DOMAIN frame' \subseteq Lines, \A i \in DOMAIN frame' : frame'[i] \in RowType,
         letters \subseteq letters', \A l \in letters' : l \in LetterType /\ l.line \in Lines,
         checked' \subseteq DOMAIN frame', loaded' \subseteq DOMAIN frame'
  PROVE  TypeOK'
<1>1. Lines' = Lines
  BY FileStays
<1>2. \A l \in DOMAIN reprocessed' : l \in letters' /\ reprocessed'[l] \in RowType
  BY DEF TypeOK
<1> QED
  BY <1>1, <1>2 DEF TypeOK

-----------------------------------------------------------------------------
(* Steps *)

LEMMA InitInv == Init => IInv
<1> SUFFICES ASSUME Init PROVE IInv
  OBVIOUS
<1>1. file.lines \in Seq(RowType) /\ file \in Files
  BY FilesAssumption DEF Init
<1>2. \A i \in Lines : file.lines[i] \in RowType
  BY <1>1 DEF Lines
<1>3. TypeOK
  <2>1. DOMAIN frame = Lines /\ \A i \in DOMAIN frame : frame[i] \in RowType
    BY <1>2 DEF Init
  <2>2. ansi \in BOOLEAN /\ 1 \in 1 .. MaxAttempts
    BY ModesAssumption DEF Init
  <2>3. DOMAIN reprocessed = {}
    BY DEF Init
  <2>4. sent \in BOOLEAN /\ deduped \in BOOLEAN
    BY DEF Init
  <2> QED
    BY <1>1, <2>1, <2>2, <2>3, <2>4 DEF Init, TypeOK
<1>4. FrameFollows /\ LettersTell /\ DedupFollows
  BY DEF Init, FrameFollows, LettersTell, DedupFollows, Succeeded
<1> QED
  BY <1>3, <1>4 DEF IInv

LEMMA FillNullsInv ==
  ASSUME IInv, FillNulls
  PROVE  IInv'
<1>1. /\ pc = "transform" /\ step = 1 /\ step' = 2 /\ attempt' = 1 /\ sent' = FALSE
      /\ frame' = [i \in DOMAIN frame |-> FillRow(frame[i])]
      /\ UNCHANGED <<file, ansi, pc, deduped, letters, checked, loaded, reprocessed>>
  BY DEF FillNulls, NextTransform
<1>2. DOMAIN frame = Lines /\ \A i \in Lines : frame[i] = file.lines[i]
  BY <1>1 DEF IInv, FrameFollows
<1>3. frame' = [i \in Lines |-> Filled(i)]
  BY <1>1, <1>2 DEF Filled
<1>4. /\ Lines' = Lines /\ \A i : Filled(i)' = Filled(i) /\ (CastCleanly(i)' <=> CastCleanly(i))
      /\ \A l, i : CastLetter(l, i)' <=> CastLetter(l, i)
  BY <1>1, FileStays
<1>5. TypeOK'
  <2>1. DOMAIN frame' = Lines /\ \A i \in Lines : frame'[i] \in RowType
    BY <1>3, LineFacts DEF IInv
  <2>2. checked \subseteq Lines /\ loaded \subseteq Lines
    BY <1>2 DEF IInv, TypeOK
  <2>3. 1 \in 1 .. MaxAttempts /\ \A l \in letters : l \in LetterType /\ l.line \in Lines
    BY ModesAssumption DEF IInv, TypeOK
  <2>4. sent' \in BOOLEAN /\ step' \in 1 .. 3
    <3>1. sent' \in BOOLEAN
      BY <1>1, Zenon
    <3>2. step' \in 1 .. 3
      BY <1>1
    <3> QED
      BY <3>1, <3>2
  <2> QED
    BY <1>1, <1>4, <2>1, <2>2, <2>3, <2>4, TypesStay DEF IInv
<1>6. FrameFollows'
  BY <1>1, <1>3, <1>4 DEF FrameFollows
<1>7. LettersTell'
  BY <1>1, <1>4 DEF IInv, LettersTell
<1>8. DedupFollows'
  BY <1>1 DEF IInv, DedupFollows, Succeeded
<1> QED
  BY <1>5, <1>6, <1>7, <1>8 DEF IInv

LEMMA SendCastFailuresInv ==
  ASSUME IInv, SendCastFailures
  PROVE  IInv'
<1> DEFINE new == {Letter(i, CastRow(frame[i]), "cast") : i \in Diverted}
<1>1. /\ pc = "transform" /\ step = 2 /\ sent' = TRUE /\ letters' = letters \union new
      /\ UNCHANGED <<file, ansi, pc, step, attempt, frame, deduped, checked, loaded, reprocessed>>
  BY DEF SendCastFailures
<1>2. frame = [i \in Lines |-> Filled(i)] /\ DOMAIN frame = Lines
  BY <1>1 DEF IInv, FrameFollows
<1>3. /\ Lines' = Lines /\ \A i : Filled(i)' = Filled(i) /\ (CastCleanly(i)' <=> CastCleanly(i))
      /\ \A l, i : CastLetter(l, i)' <=> CastLetter(l, i)
  BY <1>1, FileStays
<1>4. Diverted' = Diverted /\ Survivors' = Survivors /\ Diverted \subseteq Lines
  BY <1>1, <1>2, FrameStays DEF Diverted
<1>5. ASSUME NEW i \in Diverted
      PROVE  /\ Letter(i, CastRow(frame[i]), "cast") \in LetterType
             /\ CastLetter(Letter(i, CastRow(frame[i]), "cast"), i)
             /\ \E j \in Lines : ~CastCleanly(j) /\ RowHash(Filled(j)) = RowHash(Filled(i))
  <2>1. i \in Lines /\ frame[i] = Filled(i)
    BY <1>2, <1>4
  <2>2. i \in Nat /\ CastRow(frame[i]) = Typed(i) /\ Typed(i) \in RowType
    BY <2>1, LineFacts DEF Typed, IInv
  <2>3. Letter(i, CastRow(frame[i]), "cast") \in LetterType
    BY <2>2 DEF Letter, LetterType, IInv, TypeOK
  <2>4. CastLetter(Letter(i, CastRow(frame[i]), "cast"), i)
    BY <2>2 DEF Letter, CastLetter
  <2>5. PICK j \in CastFailures : RowHash(frame[i]) = RowHash(frame[j])
    BY DEF Diverted
  <2>6. j \in Lines /\ frame[j] = Filled(j) /\ ~CastCleanly(j)
    BY <2>5, <1>2 DEF CastFailures, CastCleanly, Filled
  <2> QED
    BY <2>1, <2>3, <2>4, <2>5, <2>6
<1>6. \A l \in new : \E i \in Diverted : l = Letter(i, CastRow(frame[i]), "cast") /\ l.line = i
  BY DEF Letter
<1>7. \A i \in Diverted : \E l \in new : CastLetter(l, i)
  BY <1>5
<1> HIDE DEF new
<1>8. TypeOK'
  <2>1. \A l \in letters' : l \in LetterType /\ l.line \in Lines
    BY <1>1, <1>4, <1>5, <1>6 DEF IInv, TypeOK
  <2> QED
    BY <1>1, <1>3, <2>1 DEF IInv, TypeOK
<1>9. FrameFollows'
  BY <1>1, <1>2, <1>3 DEF FrameFollows
<1>10. LettersTell'
  <2>1. ASSUME NEW l \in letters', l.reason = "cast"
        PROVE  \E j \in Lines : ~CastCleanly(j) /\ RowHash(Filled(j)) = RowHash(Filled(l.line))
    BY <2>1, <1>1, <1>5, <1>6 DEF IInv, LettersTell
  <2>2. \A i \in Diverted : \E l \in letters' : CastLetter(l, i)
    BY <1>1, <1>7
  <2> QED
    BY <1>1, <1>3, <1>4, <2>1, <2>2 DEF LettersTell
<1>11. DedupFollows'
  BY <1>1 DEF IInv, DedupFollows, Succeeded
<1> QED
  BY <1>8, <1>9, <1>10, <1>11 DEF IInv

LEMMA CastReturnsInv ==
  ASSUME IInv, CastReturns
  PROVE  IInv'
<1>1. /\ pc = "transform" /\ step = 2 /\ step' = 3 /\ attempt' = 1 /\ sent' = FALSE
      /\ (CastFailures = {} \/ sent)
      /\ frame' = [i \in DOMAIN frame \ Diverted |-> CastRow(frame[i])]
      /\ UNCHANGED <<file, ansi, pc, deduped, letters, checked, loaded, reprocessed>>
  BY DEF CastReturns, NextTransform
<1>2. frame = [i \in Lines |-> Filled(i)] /\ DOMAIN frame = Lines
  BY <1>1 DEF IInv, FrameFollows
<1>3. /\ Lines' = Lines
      /\ \A i : /\ Filled(i)' = Filled(i) /\ Typed(i)' = Typed(i)
                /\ (CastCleanly(i)' <=> CastCleanly(i))
      /\ \A l, i : CastLetter(l, i)' <=> CastLetter(l, i)
  BY <1>1, FileStays
<1>4. DOMAIN frame' = Lines \ Diverted /\ \A i \in Lines \ Diverted : frame'[i] = Typed(i)
  BY <1>1, <1>2 DEF Typed
<1>5. \A i \in Lines \ Diverted : CastCleanly(i)
  BY <1>2 DEF Diverted, CastFailures, CastCleanly, Filled
<1>6. \A i \in Diverted : \E l \in letters : CastLetter(l, i)
  <2>1. CASE CastFailures = {}
    BY <2>1 DEF Diverted
  <2>2. CASE sent
    BY <2>2, <1>1 DEF IInv, LettersTell
  <2> QED
    BY <2>1, <2>2, <1>1
<1>8. checked = {} /\ loaded = {}
  BY <1>1 DEF IInv, DedupFollows
<1>9. TypeOK'
  <2>1. \A i \in DOMAIN frame' : frame'[i] \in RowType
    BY <1>4, LineFacts DEF IInv
  <2>2. 1 \in 1 .. MaxAttempts /\ \A l \in letters : l \in LetterType /\ l.line \in Lines
    BY ModesAssumption DEF IInv, TypeOK
  <2>4. sent' \in BOOLEAN /\ step' \in 1 .. 3
    <3>1. sent' \in BOOLEAN
      BY <1>1, Zenon
    <3>2. step' \in 1 .. 3
      BY <1>1
    <3> QED
      BY <3>1, <3>2
  <2> QED
    BY <1>1, <1>3, <1>4, <1>8, <2>1, <2>2, <2>4, TypesStay DEF IInv
<1>10. FrameFollows'
  BY <1>1, <1>3, <1>4, <1>5, <1>6 DEF FrameFollows
<1>11. LettersTell'
  BY <1>1, <1>3 DEF IInv, LettersTell
<1>12. DedupFollows'
  BY <1>1 DEF IInv, DedupFollows, Succeeded
<1> QED
  BY <1>9, <1>10, <1>11, <1>12 DEF IInv

\* A step that adds letters other than TypeCast's to the frame as it is.
LEMMA LettersInv ==
  ASSUME IInv, pc = "transform", UNCHANGED <<file, ansi, step, frame, deduped, reprocessed>>,
         UNCHANGED <<checked, loaded>>,
         attempt' \in 1 .. MaxAttempts, sent' \in BOOLEAN, pc' \in {"transform", "failed"},
         letters \subseteq letters',
         \A l \in letters' \ letters : l \in LetterType /\ l.line \in Lines /\ l.reason # "cast",
         sent' => \/ sent
                  \/ step = 3 /\ \E S \in Survivors : \A i \in DOMAIN frame \ S :
                                    \E l \in letters' : l.line = i
  PROVE  IInv'
<1>1. /\ Lines' = Lines
      /\ \A i : /\ Filled(i)' = Filled(i) /\ Typed(i)' = Typed(i)
                /\ (CastCleanly(i)' <=> CastCleanly(i))
      /\ \A l, i : CastLetter(l, i)' <=> CastLetter(l, i)
  BY FileStays
<1>2. /\ \A i : (\E l \in letters : CastLetter(l, i)) => \E l \in letters' : CastLetter(l, i)'
      /\ Dead \subseteq Dead'
      /\ \A l \in letters' : l \in LetterType /\ l.line \in Lines
  BY LettersAdded DEF IInv
<1>3. \A l \in letters' : l.reason = "cast" =>
         (\E j \in Lines : ~CastCleanly(j) /\ RowHash(Filled(j)) = RowHash(Filled(l.line)))'
  BY LettersAdded DEF IInv, LettersTell
<1>4. Diverted' = Diverted /\ Survivors' = Survivors
  BY FrameStays
<1>5. checked = {} /\ loaded = {}
  BY DEF IInv, DedupFollows
<1>6. TypeOK'
  <2>1. \A l \in DOMAIN reprocessed' : l \in letters' /\ reprocessed'[l] \in RowType
    BY DEF IInv, TypeOK
  <2>2. DOMAIN frame' \subseteq Lines' /\ \A i \in DOMAIN frame' : frame'[i] \in RowType
    BY <1>1 DEF IInv, TypeOK
  <2>3. checked' \subseteq DOMAIN frame' /\ loaded' \subseteq DOMAIN frame'
    BY <1>5
  <2>4. file' \in Files /\ ansi' \in BOOLEAN /\ step' \in 1 .. 3 /\ deduped' \in BOOLEAN
    BY DEF IInv, TypeOK
  <2>5. \A l \in letters' : l \in LetterType /\ l.line \in Lines'
    BY <1>1, <1>2
  <2> QED
    BY <2>1, <2>2, <2>3, <2>4, <2>5 DEF TypeOK
<1>7. FrameFollows'
  <2>1. step = 1 => frame' = [i \in Lines' |-> file'.lines[i]]
    BY <1>1 DEF IInv, FrameFollows
  <2>2. step = 2 => frame' = [i \in Lines' |-> Filled(i)']
    BY <1>1 DEF IInv, FrameFollows
  <2>3. step = 3 => \A i \in DOMAIN frame' : frame'[i] = Typed(i)' /\ CastCleanly(i)'
    BY <1>1 DEF IInv, FrameFollows
  <2>4. step = 3 => \A i \in Lines' \ DOMAIN frame' : \E l \in letters' : CastLetter(l, i)'
    BY <1>1, <1>2 DEF IInv, FrameFollows
  <2> QED
    BY <2>1, <2>2, <2>3, <2>4 DEF FrameFollows
<1>8. LettersTell'
  <2>1. step = 2 /\ sent' => \A i \in Diverted : \E l \in letters' : CastLetter(l, i)'
    BY <1>2 DEF IInv, LettersTell
  <2>2. step = 3 /\ sent' => \E S \in Survivors : DOMAIN frame \ S \subseteq Dead'
    <3>1. CASE sent
      BY <3>1, <1>2 DEF IInv, LettersTell
    <3>2. CASE \E S \in Survivors : \A i \in DOMAIN frame \ S : \E l \in letters' : l.line = i
      BY <3>2 DEF Dead
    <3> QED
      BY <3>1, <3>2
  <2> QED
    BY <1>3, <1>4, <2>1, <2>2 DEF LettersTell
<1>9. DedupFollows'
  BY <1>5 DEF IInv, DedupFollows, Succeeded
<1> QED
  BY <1>6, <1>7, <1>8, <1>9 DEF IInv

\* A letter of a line of the frame, with the row it has there.
LEMMA LetterTyped ==
  ASSUME TypeOK, NEW i \in DOMAIN frame, NEW reason \in {"cast", "duplicate", "batch"}
  PROVE  /\ Letter(i, frame[i], reason) \in LetterType /\ Letter(i, frame[i], reason).line \in Lines
         /\ Letter(i, frame[i], reason).line = i /\ Letter(i, frame[i], reason).reason = reason
<1>1. i \in Lines /\ i \in Nat /\ frame[i] \in RowType
  BY LineFacts DEF TypeOK
<1> QED
  BY <1>1 DEF Letter, LetterType, TypeOK

LEMMA SendDuplicatesInv ==
  ASSUME IInv, SendDuplicates
  PROVE  IInv'
<1>1. /\ pc = "transform" /\ step = 3
      /\ UNCHANGED <<file, ansi, pc, step, attempt, frame, deduped, checked, loaded, reprocessed>>
  BY DEF SendDuplicates
<1>2. sent' \in BOOLEAN
  BY Zenon DEF SendDuplicates
<1>3. PICK S \in Survivors :
         letters' = letters \union {Letter(i, frame[i], "duplicate") : i \in DOMAIN frame \ S}
  BY DEF SendDuplicates
<1>4. \A l \in letters' \ letters : l \in LetterType /\ l.line \in Lines /\ l.reason # "cast"
  BY <1>3, LetterTyped DEF IInv
<1>5. \A i \in DOMAIN frame \ S : \E l \in letters' : l.line = i
  BY <1>3, LetterTyped DEF IInv
<1>6. attempt' \in 1 .. MaxAttempts /\ pc' \in {"transform", "failed"} /\ letters \subseteq letters'
  BY <1>1, <1>3 DEF IInv, TypeOK
<1> QED
  BY <1>1, <1>2, <1>4, <1>5, <1>6, LettersInv

LEMMA AttemptFailsInv ==
  ASSUME IInv, AttemptFails
  PROVE  IInv'
<1>1. /\ pc = "transform"
      /\ UNCHANGED <<file, ansi, step, frame, deduped, checked, loaded, reprocessed>>
  BY DEF AttemptFails
<1>2. sent' \in BOOLEAN /\ (sent' => sent)
  <2>1. sent \in BOOLEAN
    BY DEF IInv, TypeOK
  <2> QED
    BY <2>1, Zenon DEF AttemptFails
<1>3. /\ letters \subseteq letters'
      /\ \A l \in letters' \ letters : l \in LetterType /\ l.line \in Lines /\ l.reason # "cast"
  BY LetterTyped DEF AttemptFails, IInv
<1>4. attempt' \in 1 .. MaxAttempts /\ pc' \in {"transform", "failed"}
  BY ModesAssumption DEF AttemptFails, IInv, TypeOK
<1> QED
  BY <1>1, <1>2, <1>3, <1>4, LettersInv

\* A step behind Dedup's frame, which it leaves alone with its letters.
LEMMA BehindInv ==
  ASSUME IInv, UNCHANGED <<file, ansi, work, letters>> \/
               (UNCHANGED <<file, ansi, step, attempt, sent, frame, letters>> /\ deduped' = Rankable),
         pc' \in {"checked", "loaded", "reprocessed"},
         checked' \subseteq DOMAIN frame, loaded' \subseteq DOMAIN frame,
         \A l \in DOMAIN reprocessed' : l \in letters /\ reprocessed'[l] \in RowType,
         DedupFollows'
  PROVE  IInv'
<1>1. UNCHANGED <<file, ansi, step, attempt, sent, frame, letters>>
      /\ (deduped' = deduped \/ deduped' = Rankable)
  BY DEF work
<1>2. /\ Lines' = Lines
      /\ \A i : /\ Filled(i)' = Filled(i) /\ Typed(i)' = Typed(i)
                /\ (CastCleanly(i)' <=> CastCleanly(i))
      /\ \A l, i : CastLetter(l, i)' <=> CastLetter(l, i)
  BY <1>1, FileStays
<1>3. Diverted' = Diverted /\ Survivors' = Survivors /\ Dead' = Dead
  BY <1>1, FrameStays DEF Dead
<1>4. deduped' \in BOOLEAN
  <2>1. deduped \in BOOLEAN /\ Rankable \in BOOLEAN
    BY DEF IInv, TypeOK, Rankable
  <2> QED
    BY <1>1, <2>1, Zenon
<1>5. TypeOK'
  <2>1. ansi' \in BOOLEAN /\ sent' \in BOOLEAN
    BY <1>1 DEF IInv, TypeOK
  <2> QED
    BY <1>1, <1>2, <1>4, <2>1 DEF IInv, TypeOK
<1>6. FrameFollows'
  BY <1>1, <1>2 DEF IInv, FrameFollows
<1>7. LettersTell'
  BY <1>1, <1>2, <1>3 DEF IInv, LettersTell
<1> QED
  BY <1>5, <1>6, <1>7 DEF IInv

LEMMA DedupReturnsInv ==
  ASSUME IInv, DedupReturns
  PROVE  IInv'
<1>1. /\ pc = "transform" /\ step = 3 /\ (Rankable /\ DOMAIN frame \notin Survivors => sent)
      /\ deduped' = Rankable /\ pc' = "checked"
      /\ checked' \in (IF Rankable THEN Survivors ELSE {DOMAIN frame})
      /\ UNCHANGED <<file, ansi, step, attempt, sent, frame, letters, loaded, reprocessed>>
  BY DEF DedupReturns
<1>2. (Rankable' <=> Rankable) /\ Survivors' = Survivors
  BY <1>1, FileStays, FrameStays
<1>3. Evaluations' = IF Rankable THEN Survivors ELSE {DOMAIN frame}
  BY <1>1, <1>2 DEF Evaluations
<1>4. checked' \subseteq DOMAIN frame /\ loaded' = {}
  BY <1>1 DEF Survivors, IInv, DedupFollows
<1>5. deduped' = Rankable'
  BY <1>1, FileStays DEF Rankable
<1>6. DedupFollows'
  BY <1>1, <1>2, <1>3, <1>4, <1>5 DEF DedupFollows, Succeeded
<1>7. \A l \in DOMAIN reprocessed' : l \in letters /\ reprocessed'[l] \in RowType
  BY <1>1 DEF IInv, TypeOK
<1> QED
  BY <1>1, <1>4, <1>6, <1>7, BehindInv

LEMMA LoadRowsInv ==
  ASSUME IInv, LoadRows
  PROVE  IInv'
<1>1. /\ pc = "checked" /\ loaded' \in Evaluations /\ pc' = "loaded"
      /\ UNCHANGED <<file, ansi, work, letters, checked, reprocessed>>
      /\ UNCHANGED <<step, sent, frame, deduped>>
  BY DEF LoadRows, work
<1>2. Rankable' = Rankable /\ Survivors' = Survivors /\ Evaluations' = Evaluations
  BY <1>1, FrameStays DEF Rankable
<1>3. loaded' \subseteq DOMAIN frame
  BY <1>1 DEF Evaluations, Survivors
<1>4. DedupFollows'
  BY <1>1, <1>2 DEF IInv, DedupFollows, Succeeded
<1>5. checked' \subseteq DOMAIN frame /\ \A l \in DOMAIN reprocessed' : l \in letters /\ reprocessed'[l] \in RowType
  BY <1>1 DEF IInv, TypeOK
<1> QED
  BY <1>1, <1>3, <1>4, <1>5, BehindInv

LEMMA ReprocessInv ==
  ASSUME IInv, Reprocess
  PROVE  IInv'
<1>1. /\ pc \in {"loaded", "failed"} /\ pc' = "reprocessed"
      /\ reprocessed' = [l \in letters |-> CastRow(FillRow(l.row))]
      /\ UNCHANGED <<file, ansi, work, letters, checked, loaded>>
      /\ UNCHANGED <<step, sent, frame, deduped>>
  BY DEF Reprocess, ReadBack, work
<1>2. /\ Rankable' = Rankable /\ Survivors' = Survivors /\ Evaluations' = Evaluations
      /\ \A row : FillRow(row)' = FillRow(row)
  BY <1>1, FileStays, FrameStays DEF Rankable
<1>3. DedupFollows'
  BY <1>1, <1>2 DEF IInv, DedupFollows, Succeeded
<1>4. \A l \in letters : CastRow(FillRow(l.row)) \in RowType
  <2>1. \A l \in letters : l.row \in RowType
    BY DEF IInv, TypeOK, LetterType
  <2> QED
    BY <2>1, RowFacts
<1>5. \A l \in DOMAIN reprocessed' : l \in letters /\ reprocessed'[l] \in RowType
  BY <1>1, <1>4
<1>6. checked' \subseteq DOMAIN frame /\ loaded' \subseteq DOMAIN frame
  BY <1>1 DEF IInv, TypeOK
<1> QED
  BY <1>1, <1>3, <1>5, <1>6, BehindInv

LEMMA NextInv == IInv /\ [Next]_vars => IInv'
<1> SUFFICES ASSUME IInv, [Next]_vars PROVE IInv'
  OBVIOUS
<1>1. CASE FillNulls
  BY <1>1, FillNullsInv
<1>2. CASE SendCastFailures
  BY <1>2, SendCastFailuresInv
<1>3. CASE CastReturns
  BY <1>3, CastReturnsInv
<1>4. CASE SendDuplicates
  BY <1>4, SendDuplicatesInv
<1>5. CASE DedupReturns
  BY <1>5, DedupReturnsInv
<1>6. CASE AttemptFails
  BY <1>6, AttemptFailsInv
<1>7. CASE LoadRows
  BY <1>7, LoadRowsInv
<1>8. CASE Reprocess
  BY <1>8, ReprocessInv
<1>9. CASE UNCHANGED vars
  <2>1. UNCHANGED <<file, ansi, pc, step, attempt, sent, frame, deduped, letters, checked, loaded,
                    reprocessed>>
    BY <1>9 DEF vars, work
  <2>2. /\ Lines' = Lines /\ Rankable' = Rankable
        /\ \A i : /\ Filled(i)' = Filled(i) /\ Typed(i)' = Typed(i)
                  /\ (CastCleanly(i)' <=> CastCleanly(i))
        /\ \A l, i : CastLetter(l, i)' <=> CastLetter(l, i)
        /\ \A row : FillRow(row)' = FillRow(row)
    BY <2>1, FileStays DEF Rankable
  <2>3. Diverted' = Diverted /\ Survivors' = Survivors /\ Evaluations' = Evaluations /\ Dead' = Dead
    BY <2>1, FrameStays DEF Dead
  <2>4. TypeOK'
    BY <2>1, <2>2 DEF IInv, TypeOK
  <2>5. FrameFollows'
    BY <2>1, <2>2 DEF IInv, FrameFollows
  <2>6. LettersTell'
    BY <2>1, <2>2, <2>3 DEF IInv, LettersTell
  <2>7. DedupFollows'
    BY <2>1, <2>2, <2>3 DEF IInv, DedupFollows, Succeeded
  <2> QED
    BY <2>4, <2>5, <2>6, <2>7 DEF IInv
<1> QED
  BY <1>1, <1>2, <1>3, <1>4, <1>5, <1>6, <1>7, <1>8, <1>9 DEF Next

LEMMA InvHolds == Spec => []IInv
<1> QED
  BY InitInv, NextInv, PTL DEF Spec

-----------------------------------------------------------------------------
(* Theorems *)

\* Whatever two evaluations of the ranking choose, they choose lines of the same
\* trades and dates.
LEMMA EvaluationsAgree ==
  ASSUME TypeOK, NEW S \in Survivors, NEW i \in DOMAIN frame
  PROVE  \E j \in S : /\ j \in DOMAIN frame /\ SameKey(i, j) /\ RankOf(j) \in Nat
                      /\ \A m \in DOMAIN frame : SameKey(i, m) => RankOf(m) <= RankOf(j)
<1>1. /\ S \subseteq DOMAIN frame
      /\ \A m \in DOMAIN frame : \E j \in S : SameKey(m, j) /\ RankOf(j) >= RankOf(m)
      /\ \A m, j \in S : SameKey(m, j) => m = j
  BY DEF Survivors
<1>2. PICK j \in S : SameKey(i, j)
  BY <1>1
<1>3. \A m \in DOMAIN frame : RankOf(m) \in Nat
  <2>1. \A m \in DOMAIN frame : frame[m][OrderColumn] \in Values \union {Null}
    BY ColumnsAssumption DEF TypeOK, RowType
  <2> QED
    BY <2>1, ColumnsAssumption DEF RankOf
<1>4. ASSUME NEW m \in DOMAIN frame, SameKey(i, m) PROVE RankOf(m) <= RankOf(j)
  <2>1. PICK k \in S : SameKey(m, k) /\ RankOf(k) >= RankOf(m)
    BY <1>1
  <2>2. k = j
    BY <2>1, <1>1, <1>2, <1>4 DEF SameKey
  <2> QED
    BY <2>1, <2>2, <1>1, <1>3
<1> QED
  BY <1>1, <1>2, <1>3, <1>4

\* The variables of the stage keep their types.
THEOREM TypesRight == Spec => []TypeOK
<1>1. IInv => TypeOK
  BY DEF IInv
<1> QED
  BY <1>1, InvHolds, PTL

\* A line that neither the frame after Dedup nor the dead-letter tree has is a
\* duplicate of one of the same trade and date that the frame has.
THEOREM LinesStay == Spec => []NoLineVanishes
<1>1. IInv => NoLineVanishes
  <2> SUFFICES ASSUME IInv, Succeeded, NEW S \in Evaluations, NEW i \in Lines, i \notin S,
                      i \notin Dead
               PROVE  \E j \in S : SameKey(i, j) /\ RankOf(i) = RankOf(j)
    BY DEF NoLineVanishes
  <2>1. /\ step = 3 /\ deduped = Rankable
        /\ (Rankable /\ DOMAIN frame \notin Survivors => sent)
    BY DEF IInv, DedupFollows
  <2>2. i \in DOMAIN frame
    BY <2>1 DEF IInv, FrameFollows, CastLetter, Dead
  <2>3. deduped /\ S \in Survivors /\ Rankable
    BY <2>1, <2>2 DEF Evaluations
  <2>4. PICK j \in S : /\ j \in DOMAIN frame /\ SameKey(i, j) /\ RankOf(j) \in Nat
                       /\ \A m \in DOMAIN frame : SameKey(i, m) => RankOf(m) <= RankOf(j)
    BY <2>2, <2>3, EvaluationsAgree DEF IInv
  <2>5. CASE DOMAIN frame \in Survivors
    BY <2>2, <2>4, <2>5 DEF Survivors
  <2>6. CASE DOMAIN frame \notin Survivors
    <3>1. PICK T \in Survivors : DOMAIN frame \ T \subseteq Dead
      BY <2>1, <2>3, <2>6 DEF IInv, LettersTell
    <3>2. i \in T
      BY <3>1, <2>2
    <3>3. PICK k \in T : /\ k \in DOMAIN frame /\ SameKey(i, k) /\ RankOf(k) \in Nat
                         /\ \A m \in DOMAIN frame : SameKey(i, m) => RankOf(m) <= RankOf(k)
      BY <2>2, <3>1, EvaluationsAgree DEF IInv
    <3>4. k = i
      BY <3>2, <3>3 DEF Survivors
    <3>5. RankOf(j) <= RankOf(i) /\ RankOf(i) <= RankOf(j)
      BY <2>2, <2>4, <3>3, <3>4 DEF SameKey
    <3> QED
      BY <2>4, <3>3, <3>4, <3>5
  <2> QED
    BY <2>5, <2>6
<1> QED
  BY <1>1, InvHolds, PTL

\* What the load sees is one line of each trade, of the latest date, and of the
\* trades and dates that the post_clean rules saw.
THEOREM LatestLoaded == Spec => []LoadIsOfLatest
<1>1. ASSUME IInv, pc = "loaded", deduped PROVE loaded \in Survivors /\ checked \in Survivors
  BY <1>1 DEF IInv, DedupFollows, Succeeded, Evaluations
<1>2. IInv => LoadedAsChecked
  <2> SUFFICES ASSUME IInv, pc = "loaded", deduped
               PROVE  /\ \A i, j \in loaded : SameKey(i, j) => i = j
                      /\ {<<frame[i][KeyColumn], RankOf(i)>> : i \in loaded}
                           = {<<frame[i][KeyColumn], RankOf(i)>> : i \in checked}
    BY DEF LoadedAsChecked
  <2>1. loaded \in Survivors /\ checked \in Survivors
    BY <1>1
  <2>2. ASSUME NEW S \in Survivors, NEW T \in Survivors, NEW i \in S
        PROVE  \E j \in T : frame[i][KeyColumn] = frame[j][KeyColumn] /\ RankOf(i) = RankOf(j)
    <3>1. i \in DOMAIN frame
      BY DEF Survivors
    <3>2. PICK j \in T : /\ j \in DOMAIN frame /\ SameKey(i, j) /\ RankOf(j) \in Nat
                         /\ \A m \in DOMAIN frame : SameKey(i, m) => RankOf(m) <= RankOf(j)
      BY <3>1, EvaluationsAgree DEF IInv
    <3>3. PICK k \in S : /\ k \in DOMAIN frame /\ SameKey(i, k) /\ RankOf(k) \in Nat
                         /\ \A m \in DOMAIN frame : SameKey(i, m) => RankOf(m) <= RankOf(k)
      BY <3>1, EvaluationsAgree DEF IInv
    <3>4. k = i
      BY <3>3 DEF Survivors
    <3>5. RankOf(j) <= RankOf(i) /\ RankOf(i) <= RankOf(j)
      BY <3>1, <3>2, <3>3, <3>4 DEF SameKey
    <3>6. RankOf(i) = RankOf(j)
      BY <3>2, <3>3, <3>4, <3>5
    <3> QED
      BY <3>2, <3>6 DEF SameKey
  <2>3. \A i, j \in loaded : SameKey(i, j) => i = j
    BY <2>1 DEF Survivors
  <2>4. \A i \in loaded : \E j \in checked :
           frame[i][KeyColumn] = frame[j][KeyColumn] /\ RankOf(i) = RankOf(j)
    BY <2>1, <2>2
  <2>5. \A i \in checked : \E j \in loaded :
           frame[i][KeyColumn] = frame[j][KeyColumn] /\ RankOf(i) = RankOf(j)
    BY <2>1, <2>2
  <2>6. {<<frame[i][KeyColumn], RankOf(i)>> : i \in loaded}
          = {<<frame[i][KeyColumn], RankOf(i)>> : i \in checked}
    BY <2>4, <2>5
  <2> QED
    BY <2>3, <2>6
<1>3. IInv => LatestIsLoaded
  <2> SUFFICES ASSUME IInv, pc = "loaded", deduped, NEW i \in loaded, NEW j \in Lines,
                      \A l \in letters : l.reason = "cast" => l.line # j,
                      file.lines[j][KeyColumn] = file.lines[i][KeyColumn]
               PROVE  Rank[file.lines[j][OrderColumn]] <= Rank[file.lines[i][OrderColumn]]
    BY DEF LatestIsLoaded
  <2>1. loaded \in Survivors /\ step = 3
    BY <1>1 DEF IInv, DedupFollows, Succeeded
  <2>2. j \in DOMAIN frame
    BY <2>1 DEF IInv, FrameFollows, CastLetter
  <2>3. i \in DOMAIN frame /\ i \in Lines
    BY <2>1 DEF Survivors, IInv, TypeOK
  <2>4. \A k \in DOMAIN frame : /\ frame[k][KeyColumn] = file.lines[k][KeyColumn]
                                /\ frame[k][OrderColumn] = file.lines[k][OrderColumn]
    <3>1. \A k \in DOMAIN frame : k \in Lines /\ frame[k] = Typed(k) /\ CastCleanly(k)
      BY <2>1 DEF IInv, TypeOK, FrameFollows
    <3> QED
      BY <3>1, LineFacts DEF IInv
  <2>5. SameKey(i, j)
    BY <2>2, <2>3, <2>4 DEF SameKey
  <2>6. PICK k \in loaded : SameKey(i, k) /\ \A m \in DOMAIN frame : SameKey(i, m) => RankOf(m) <= RankOf(k)
    BY <2>1, <2>3, EvaluationsAgree DEF IInv
  <2>7. k = i
    BY <2>1, <2>6 DEF Survivors
  <2> QED
    BY <2>2, <2>3, <2>4, <2>5, <2>6, <2>7 DEF RankOf
<1>4. IInv => LoadIsOfLatest
  BY <1>2, <1>3 DEF LoadIsOfLatest
<1> QED
  BY <1>4, InvHolds, PTL

\* TypeCast takes out a line only for a value that does not cast, in it or in
\* a line that reads the same; and none that has one is loaded.
THEOREM DivertedRight == Spec => []DivertedForCause
<1>1. IInv => DivertedForCause
  <2> SUFFICES ASSUME IInv PROVE DivertedForCause
    OBVIOUS
  <2>1. \A l \in letters : l.reason = "cast" =>
          \E j \in Lines : /\ ~CastCleanly(j)
                           /\ RowHash(FillRow(file.lines[j])) = RowHash(FillRow(file.lines[l.line]))
    BY DEF IInv, LettersTell, Filled
  <2>2. \A i \in loaded : CastCleanly(i)
    BY DEF IInv, TypeOK, DedupFollows, FrameFollows
  <2> QED
    BY <2>1, <2>2 DEF DivertedForCause
<1> QED
  BY <1>1, InvHolds, PTL

\* After a load, each trade of the file is in it or in what reprocess returns.
THEOREM TradesRecoverable == Spec => []EveryTradeRecoverable
<1>1. IInv => EveryTradeRecoverable
  <2> SUFFICES ASSUME IInv, pc = "reprocessed", loaded # {}, NEW i \in Lines
               PROVE  \/ \E j \in loaded : frame[j][KeyColumn] = file.lines[i][KeyColumn]
                      \/ \E l \in DOMAIN reprocessed :
                            reprocessed[l][KeyColumn] = file.lines[i][KeyColumn]
    BY DEF EveryTradeRecoverable
  <2>1. /\ step = 3 /\ deduped = Rankable /\ loaded \in Evaluations
        /\ reprocessed = [l \in letters |-> CastRow(FillRow(l.row))]
    BY DEF IInv, DedupFollows
  <2>2. CASE i \in DOMAIN frame
    <3>1. frame[i][KeyColumn] = file.lines[i][KeyColumn]
      BY <2>1, <2>2, LineFacts DEF IInv, FrameFollows
    <3>2. \E j \in loaded : SameKey(i, j)
      BY <2>1, <2>2 DEF Evaluations, Survivors, SameKey
    <3> QED
      BY <3>1, <3>2 DEF SameKey
  <2>3. CASE i \notin DOMAIN frame
    <3>1. PICK l \in letters : CastLetter(l, i)
      BY <2>1, <2>3 DEF IInv, FrameFollows
    <3>2. l.row = Typed(i) /\ Typed(i) \in RowType /\ Typed(i)[KeyColumn] = file.lines[i][KeyColumn]
      BY <3>1, LineFacts DEF CastLetter, IInv
    <3>3. CastRow(FillRow(l.row))[KeyColumn] = file.lines[i][KeyColumn]
      BY <3>2, RowFacts
    <3> QED
      BY <2>1, <3>3
  <2> QED
    BY <2>2, <2>3
<1> QED
  BY <1>1, InvHolds, PTL
=============================================================================
