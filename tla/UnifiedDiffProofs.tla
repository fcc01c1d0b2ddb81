-------------------------- MODULE UnifiedDiffProofs --------------------------
(***************************************************************************)
(* For every set of paths and every bound: what the parser reports of a    *)
(* diff, beside what the diff says.  The properties compare finished       *)
(* records; what keeps them true is said of the file and the hunk in hand. *)
(***************************************************************************)
EXTENDS UnifiedDiff, SequenceTheorems, TLAPS

(* A record of the parser agrees with its section. *)
Agrees(s, r) ==
    /\ s.sure \subseteq s.added
    /\ s.sure \subseteq r.lines
    /\ s.sure = s.added /\ s.strayAdds = 0 => r.lines = s.added
    /\ r.additions + s.hiddenAdds = s.adds + s.strayAdds
    /\ r.deletions + s.hiddenDels = s.dels + s.strayDels

Reading == {"section", "header", "old", "new", "hunk"}

(* There is a file in hand, and only one, while a section is read, and a    *)
(* hunk only inside one.                                                    *)
InHand ==
    /\ at = "start" => sections = <<>> /\ files = <<>> /\ file = None
    /\ at \in Reading => Len(sections) = Len(files) + 1 /\ file # None
    /\ at = "end" => Len(sections) = Len(files) /\ file = None
    /\ at = "hunk" <=> hunk # None

(* The parser counts with the new file until an odd line, and no line has   *)
(* been added yet that comes after the one counted to.                      *)
InStep ==
    at \in Reading =>
        /\ \A l \in This.added : l < line
        /\ at # "hunk" => This.added = {}
        /\ at = "hunk" /\ ~This.odd => lineNo = line

Agreement == \A i \in DOMAIN sections : Agrees(sections[i], Reported(i))

DiffInv == TypeOK /\ InHand /\ InStep /\ Agreement

------------------------------------------------------------------------------
LEMMA FlushTyped ==
    ASSUME NEW f \in FileDiff, NEW h \in DiffHunk \cup {None}
    PROVE  WithHunk(f, h) \in FileDiff
BY NoneAssumption DEF WithHunk, FileDiff, DiffHunk

LEMMA NewFileTyped == NewFile \in FileDiff
BY DEF NewFile, FileDiff, Readable

LEMMA NoneIsNothing ==
    /\ \A f \in FileDiff : f # None
    /\ \A h \in DiffHunk : h # None
BY NoneAssumption

(* The section in hand is the last one. *)
LEMMA ThisIsLast ==
    ASSUME TypeOK, InHand, at \in Reading
    PROVE  /\ Len(sections) \in DOMAIN sections
           /\ This \in Section
           /\ file \in FileDiff
           /\ Reported(Len(sections)) = WithHunk(file, hunk)
           /\ Len(files) \in Nat
<1>1. Len(files) \in Nat /\ Len(sections) = Len(files) + 1
    BY DEF TypeOK, InHand
<1>2. Len(sections) \in DOMAIN sections
    BY <1>1 DEF TypeOK
<1>3. This \in Section
    BY <1>2 DEF This, TypeOK
<1> QED BY <1>1, <1>2, <1>3 DEF Reported, InHand, TypeOK

(* What a line does to the section and the file in hand touches no other. *)
LEMMA OnlyThis ==
    ASSUME TypeOK, InHand, Agreement, at \in Reading, NEW s \in Section, Means(s),
           files' = files, at' \in Reading, Agrees(s, WithHunk(file, hunk)')
    PROVE  /\ Agreement'
           /\ sections' \in Seq(Section)
           /\ Len(sections') = Len(sections)
           /\ This' = s
<1>1. /\ Len(sections) \in DOMAIN sections /\ Len(files) \in Nat
      /\ Len(sections) = Len(files) + 1
    BY ThisIsLast DEF InHand
<1>2. /\ sections' \in Seq(Section)
      /\ Len(sections') = Len(sections)
      /\ DOMAIN sections' = DOMAIN sections
      /\ sections'[Len(sections)] = s
      /\ \A i \in DOMAIN sections : i # Len(sections) => sections'[i] = sections[i]
    BY <1>1 DEF Means, TypeOK
<1>3. ASSUME NEW i \in DOMAIN sections PROVE Agrees(sections'[i], Reported(i)')
    <2>1. CASE i = Len(sections)
        <3>1. ~(i <= Len(files))
            BY <1>1, <2>1
        <3>2. Reported(i)' = WithHunk(file, hunk)'
            BY <3>1 DEF Reported
        <3> QED BY <1>2, <2>1, <3>2
    <2>2. CASE i # Len(sections)
        <3>1. i \in 1..Len(sections)
            BY DEF TypeOK
        <3>2. i <= Len(files)
            BY <1>1, <2>2, <3>1
        <3>3. Reported(i)' = Reported(i)
            BY <3>2 DEF Reported
        <3> QED BY <1>2, <2>2, <3>3 DEF Agreement
    <2> QED BY <2>1, <2>2
<1> QED BY <1>2, <1>3 DEF Agreement, This

(* Closing the file in hand puts every record in its place. *)
LEMMA Closing ==
    ASSUME TypeOK, InHand, at \in {"start"} \cup Reading,
           NEW f \in FileDiff \cup {None}, f = None <=> file = None,
           f # None => [f EXCEPT !.status = "unset"] = [file EXCEPT !.status = "unset"]
    PROVE  /\ Flushed(f, hunk) \in Seq(FileDiff)
           /\ Len(Flushed(f, hunk)) = Len(sections)
           /\ \A i \in DOMAIN sections :
                 /\ i \in DOMAIN Flushed(f, hunk)
                 /\ i <= Len(files) => Flushed(f, hunk)[i] = files[i]
                 /\ i > Len(files) => Flushed(f, hunk)[i] = WithHunk(f, hunk)
<1>1. DOMAIN sections = 1..Len(sections) /\ Len(sections) \in Nat /\ files \in Seq(FileDiff)
    BY DEF TypeOK
<1>2. CASE at = "start"
    BY <1>1, <1>2 DEF InHand, Flushed, Reading
<1>3. CASE at \in Reading
    <2>1. file # None /\ f \in FileDiff /\ Len(sections) = Len(files) + 1 /\ f # None
        BY <1>3 DEF InHand, TypeOK
    <2>2. WithHunk(f, hunk) \in FileDiff
        BY <2>1, FlushTyped DEF TypeOK
    <2>3. Flushed(f, hunk) = Append(files, WithHunk(f, hunk))
        BY <2>1 DEF Flushed
    <2> QED BY <1>1, <2>1, <2>2, <2>3
<1> QED BY <1>2, <1>3

LEMMA NewSectionKeeps ==
    ASSUME DiffInv, NEW k \in Kinds, NEW p \in Paths, NewSection(k, p)
    PROVE  DiffInv'
<1> DEFINE s == [kind |-> k, path |-> p, text |-> FALSE, added |-> {}, sure |-> {}, adds |-> 0,
                 dels |-> 0, hiddenAdds |-> 0, hiddenDels |-> 0, strayAdds |-> 0, strayDels |-> 0,
                 odd |-> FALSE]
<1>1. at \in {"start"} \cup Reading /\ TypeOK /\ InHand /\ Agreement
    BY DEF DiffInv, NewSection, Reading
<1>2. /\ files' \in Seq(FileDiff) /\ Len(files') = Len(sections)
      /\ \A i \in DOMAIN sections : files'[i] = Reported(i)
    <2>1. files' = Flushed(file, hunk)
        BY DEF NewSection
    <2> QED BY <1>1, <2>1, Closing DEF TypeOK, Reported
<1>3. s \in Section
    BY DEF Section
<1>4. /\ sections' \in Seq(Section) /\ Len(sections') = Len(sections) + 1
      /\ sections'[Len(sections')] = s
      /\ DOMAIN sections' = DOMAIN sections \cup {Len(sections')}
      /\ \A i \in DOMAIN sections : sections'[i] = sections[i] /\ i \in 1..Len(sections)
    <2>1. sections' = Append(sections, s) /\ sections \in Seq(Section)
        BY <1>1 DEF NewSection, TypeOK
    <2> HIDE DEF s
    <2> QED BY <1>3, <2>1
<1>5. /\ file' = NewFile /\ hunk' = None /\ at' = "section" /\ line' = 0 /\ body' = body
      /\ provider' = provider /\ lineNo' \in Nat
    BY <1>1 DEF NewSection, TypeOK
<1>6. TypeOK'
    BY <1>1, <1>2, <1>4, <1>5, NewFileTyped DEF TypeOK, Places
<1>7. InHand'
    BY <1>2, <1>4, <1>5, NewFileTyped, NoneIsNothing DEF InHand, Reading
<1>8. InStep'
    BY <1>4, <1>5 DEF InStep, This
<1>9. ASSUME NEW i \in DOMAIN sections' PROVE Agrees(sections'[i], Reported(i)')
    <2>1. CASE i \in DOMAIN sections
        <3>1. i <= Len(files') /\ sections'[i] = sections[i] /\ files'[i] = Reported(i)
            BY <1>2, <1>4, <2>1
        <3>2. Reported(i)' = Reported(i)
            BY <3>1 DEF Reported
        <3> QED BY <1>1, <2>1, <3>1, <3>2 DEF Agreement
    <2>2. CASE i = Len(sections')
        <3>1. Len(sections) \in Nat
            BY <1>1 DEF TypeOK
        <3>2. Reported(i)' = NewFile
            BY <1>2, <1>4, <1>5, <2>2, <3>1 DEF Reported, WithHunk
        <3>3. sections'[i] = s
            BY <1>4, <2>2
        <3> QED BY <3>2, <3>3 DEF Agrees, NewFile
    <2> QED BY <1>4, <2>1, <2>2
<1> QED BY <1>6, <1>7, <1>8, <1>9 DEF DiffInv, Agreement

(* A header line changes the names in the file in hand, and nothing else. *)
LEMMA HeaderKeeps ==
    ASSUME DiffInv, ExtendedHeader \/ OldPath \/ NewPath
    PROVE  DiffInv'
<1>1. /\ at \in Reading \ {"hunk"} /\ at' \in Reading \ {"hunk"} /\ at' \in Places
      /\ TypeOK /\ InHand /\ InStep /\ Agreement
    BY DEF DiffInv, ExtendedHeader, OldPath, NewPath, Reading, Places
<1>2. UNCHANGED <<provider, line, sections, files, hunk, lineNo, body>>
    BY DEF ExtendedHeader, OldPath, NewPath
<1>3. /\ file \in FileDiff /\ This \in Section
      /\ Reported(Len(sections)) = WithHunk(file, hunk)
    BY <1>1, ThisIsLast
<1>4. /\ file' \in FileDiff
      /\ file'.lines = file.lines /\ file'.additions = file.additions
      /\ file'.deletions = file.deletions
    <2>1. CASE ExtendedHeader
        BY <1>3, <2>1 DEF ExtendedHeader, FileDiff, Section, Kind
    <2>2. CASE OldPath
        <3>1. \A p \in Readable : ReadOld(p) =>
                 /\ file' \in FileDiff
                 /\ file'.lines = file.lines /\ file'.additions = file.additions
                 /\ file'.deletions = file.deletions
            BY <1>3 DEF ReadOld, FileDiff
        <3>2. Path \in Readable /\ Other \in Readable /\ NoPath \in Readable
            BY <1>3 DEF Section, Path, Readable
        <3> QED BY <2>2, <3>1, <3>2 DEF OldPath
    <2>3. CASE NewPath
        BY <1>3, <2>3 DEF NewPath, ReadNew, FileDiff, Section, Path, Readable
    <2> QED BY <2>1, <2>2, <2>3
<1>5. hunk = None
    BY <1>1 DEF InHand, TypeOK
<1>6. TypeOK' /\ InHand' /\ InStep'
    BY <1>1, <1>2, <1>4, <1>5, NoneIsNothing DEF TypeOK, InHand, InStep, This, Reading
<1>7. ASSUME NEW i \in DOMAIN sections PROVE Agrees(sections[i], Reported(i)')
    <2>1. CASE i <= Len(files)
        BY <1>1, <1>2, <2>1 DEF Reported, Agreement
    <2>2. CASE ~(i <= Len(files))
        <3>1. Reported(i) = file /\ Reported(i)' = file'
            BY <1>2, <1>5, <2>2 DEF Reported, WithHunk
        <3>2. Agrees(sections[i], file)
            BY <1>1, <3>1 DEF Agreement
        <3> QED BY <1>4, <3>1, <3>2 DEF Agrees
    <2> QED BY <2>1, <2>2
<1> QED BY <1>2, <1>6, <1>7 DEF DiffInv, Agreement

(* A new hunk hands the lines of the one before to the file and begins in   *)
(* step, whatever the one before has counted to.                            *)
LEMMA HunkHeaderKeeps ==
    ASSUME DiffInv, NEW n \in 0..MaxLine, HunkHeader(n)
    PROVE  DiffInv'
<1> DEFINE s == [This EXCEPT !.text = TRUE, !.odd = FALSE]
<1>1. /\ at \in Reading /\ at' = "hunk" /\ at' \in Reading
      /\ TypeOK /\ InHand /\ InStep /\ Agreement
    BY DEF DiffInv, HunkHeader, Reading
<1>2. /\ file \in FileDiff /\ This \in Section /\ Len(sections) \in DOMAIN sections
      /\ Reported(Len(sections)) = WithHunk(file, hunk)
    BY <1>1, ThisIsLast
<1>3. /\ files' = files /\ file' = WithHunk(file, hunk) /\ hunk' = NewHunk
      /\ lineNo' = n /\ line' = n /\ line <= n /\ n \in Nat /\ Means(s)
      /\ provider' = provider /\ body' = body
    BY DiffAssumption DEF HunkHeader
<1>4. /\ s \in Section /\ s.added = This.added /\ s.sure = This.sure /\ ~s.odd
      /\ s.adds = This.adds /\ s.dels = This.dels
      /\ s.hiddenAdds = This.hiddenAdds /\ s.hiddenDels = This.hiddenDels
      /\ s.strayAdds = This.strayAdds /\ s.strayDels = This.strayDels
    BY <1>2 DEF Section
<1>5. file' \in FileDiff /\ NewHunk \in DiffHunk
    BY <1>1, <1>2, <1>3, FlushTyped DEF TypeOK, NewHunk, DiffHunk
<1>6. WithHunk(file, hunk)' = file'
    <2>1. file'.lines \cup {} = file'.lines /\ [file' EXCEPT !.lines = file'.lines] = file'
        BY <1>5 DEF FileDiff
    <2> QED BY <1>3, <2>1 DEF WithHunk, NewHunk
<1>7. Agrees(This, WithHunk(file, hunk))
    BY <1>1, <1>2 DEF Agreement, This
<1> HIDE DEF s
<1>8. Agrees(s, WithHunk(file, hunk)')
    BY <1>3, <1>4, <1>6, <1>7 DEF Agrees
<1>9. /\ Agreement' /\ sections' \in Seq(Section) /\ Len(sections') = Len(sections)
      /\ This' = s
    BY <1>1, <1>3, <1>4, <1>8, OnlyThis
<1>10. TypeOK' /\ InHand'
    BY <1>1, <1>3, <1>5, <1>9, NoneIsNothing DEF TypeOK, InHand, Places, Reading
<1>11. InStep'
    <2>1. \A l \in This.added : l \in Nat /\ l < line
        BY <1>1, <1>2 DEF InStep, Section
    <2>2. line \in Nat
        BY <1>1 DEF TypeOK
    <2>3. \A l \in This.added : l < n
        BY <1>3, <2>1, <2>2
    <2> QED BY <1>1, <1>3, <1>4, <1>9, <2>3 DEF InStep
<1> QED BY <1>9, <1>10, <1>11 DEF DiffInv

(* What there is to show of a line inside a hunk. *)
LEMMA InHunkKeeps ==
    ASSUME DiffInv, InHunk, NEW s \in Section, Means(s),
           file' \in FileDiff, hunk' \in DiffHunk, line' \in Nat, lineNo' \in Nat,
           Agrees(s, WithHunk(file, hunk)'),
           \A l \in s.added : l < line',
           ~s.odd => lineNo' = line'
    PROVE  DiffInv'
<1>1. /\ at = "hunk" /\ at' = "hunk" /\ at' \in Reading /\ at \in Reading
      /\ files' = files /\ provider' = provider /\ body' \in Nat
      /\ TypeOK /\ InHand /\ Agreement
    BY DEF DiffInv, InHunk, Reading, TypeOK
<1>2. /\ Agreement' /\ sections' \in Seq(Section) /\ Len(sections') = Len(sections)
      /\ This' = s
    BY <1>1, OnlyThis
<1>3. TypeOK' /\ InHand'
    BY <1>1, <1>2, NoneIsNothing DEF TypeOK, InHand, Reading
<1>4. InStep'
    BY <1>1, <1>2 DEF InStep
<1> QED BY <1>2, <1>3, <1>4 DEF DiffInv

(* What holds inside a hunk before a line is read. *)
LEMMA InsideHunk ==
    ASSUME DiffInv, InHunk
    PROVE  /\ file \in FileDiff /\ hunk \in DiffHunk /\ This \in Section
           /\ Means(This) <=> sections' = sections
           /\ line \in Nat /\ lineNo \in Nat
           /\ Agrees(This, WithHunk(file, hunk))
           /\ WithHunk(file, hunk).lines = file.lines \cup hunk.added
           /\ WithHunk(file, hunk).additions = file.additions
           /\ WithHunk(file, hunk).deletions = file.deletions
           /\ \A l \in This.added : l < line
           /\ ~This.odd => lineNo = line
<1>1. /\ at = "hunk" /\ at \in Reading /\ TypeOK /\ InHand /\ InStep /\ Agreement
    BY DEF DiffInv, InHunk, Reading
<1>2. /\ file \in FileDiff /\ This \in Section /\ Len(sections) \in DOMAIN sections
      /\ Reported(Len(sections)) = WithHunk(file, hunk)
    BY <1>1, ThisIsLast
<1>3. hunk # None /\ hunk \in DiffHunk
    BY <1>1 DEF InHand, TypeOK
<1>4. Means(This) <=> sections' = sections
    BY <1>1, <1>2 DEF Means, This, TypeOK
<1>5. Agrees(This, WithHunk(file, hunk))
    BY <1>1, <1>2 DEF Agreement, This
<1>6. /\ WithHunk(file, hunk).lines = file.lines \cup hunk.added
      /\ WithHunk(file, hunk).additions = file.additions
      /\ WithHunk(file, hunk).deletions = file.deletions
    BY <1>2, <1>3 DEF WithHunk, FileDiff
<1> QED BY <1>1, <1>2, <1>3, <1>4, <1>5, <1>6 DEF InStep, TypeOK

LEMMA ContextKeeps == ASSUME DiffInv, Context PROVE DiffInv'
<1>1. InHunk /\ UNCHANGED <<sections, file, hunk>> /\ line' = line + 1 /\ lineNo' = lineNo + 1
    BY DEF Context
<1>2. WithHunk(file, hunk)' = WithHunk(file, hunk)
    BY <1>1 DEF WithHunk
<1>3. This \in Section /\ Means(This) /\ Agrees(This, WithHunk(file, hunk)')
    BY <1>1, <1>2, InsideHunk
<1>4. line' \in Nat /\ lineNo' \in Nat /\ (~This.odd => lineNo' = line')
    BY <1>1, InsideHunk
<1>5. \A l \in This.added : l < line'
    <2> TAKE l \in This.added
    <2>1. l \in Nat /\ l < line /\ line \in Nat
        BY <1>1, InsideHunk DEF Section
    <2> QED BY <1>1, <2>1
<1>6. file' \in FileDiff /\ hunk' \in DiffHunk
    BY <1>1, InsideHunk
<1> QED BY <1>1, <1>3, <1>4, <1>5, <1>6, InHunkKeeps

(* An added line makes the section say one line more. *)
LEMMA AddsSays ==
    ASSUME This \in Section, line \in Nat, NEW disguised \in BOOLEAN, Adds(disguised)
    PROVE  \E s \in Section :
              /\ Means(s)
              /\ s.added = This.added \cup {line} /\ s.adds = This.adds + 1
              /\ s.sure = IF disguised \/ This.odd THEN This.sure ELSE This.sure \cup {line}
              /\ s.hiddenAdds = IF disguised THEN This.hiddenAdds + 1 ELSE This.hiddenAdds
              /\ s.odd <=> This.odd \/ disguised
              /\ s.dels = This.dels /\ s.hiddenDels = This.hiddenDels
              /\ s.strayAdds = This.strayAdds /\ s.strayDels = This.strayDels
              /\ s.kind = This.kind /\ s.path = This.path /\ s.text = This.text
<1> DEFINE grown == This.added \cup {line}
           more  == This.adds + 1
           sure  == IF disguised \/ This.odd THEN This.sure ELSE This.sure \cup {line}
           kept  == IF disguised THEN This.hiddenAdds + 1 ELSE This.hiddenAdds
           odd   == This.odd \/ disguised
           s     == [This EXCEPT !.added = grown, !.adds = more, !.sure = sure,
                                 !.hiddenAdds = kept, !.odd = odd]
<1>1. Means(s)
    BY DEF Adds
<1>2. /\ grown \in SUBSET Nat /\ more \in Nat /\ sure \in SUBSET Nat
      /\ kept \in Nat
    BY DEF Section
<1>3. odd \in BOOLEAN
    BY DEF Section
<1> HIDE DEF grown, more, sure, kept, odd
<1>4. s \in Section
    BY <1>2, <1>3 DEF Section
<1>5. s.added = grown /\ s.adds = more /\ s.sure = sure /\ s.hiddenAdds = kept
    BY <1>2, <1>3 DEF Section
<1>6. s.odd = odd
    BY <1>2, <1>3 DEF Section
<1>7. /\ s.dels = This.dels /\ s.hiddenDels = This.hiddenDels
      /\ s.strayAdds = This.strayAdds /\ s.strayDels = This.strayDels
    BY DEF Section
<1>8. s.kind = This.kind /\ s.path = This.path
    BY DEF Section
<1>9. s.text = This.text
    BY DEF Section
<1> HIDE DEF s
<1>10. odd <=> This.odd \/ disguised
    BY DEF odd
<1> QED BY <1>1, <1>4, <1>5, <1>6, <1>7, <1>8, <1>9, <1>10 DEF grown, more, sure, kept

(* A disguised removed line makes it say one that hides. *)
LEMMA HiddenSays ==
    ASSUME This \in Section, NEW p \in Readable, RemovedDisguised(p)
    PROVE  \E s \in Section :
              /\ Means(s) /\ s.kind = This.kind /\ s.path = This.path /\ s.text = This.text
              /\ s.added = This.added /\ s.sure = This.sure /\ (s.odd <=> This.odd)
              /\ s.adds = This.adds /\ s.hiddenAdds = This.hiddenAdds
              /\ s.dels = This.dels + 1 /\ s.hiddenDels = This.hiddenDels + 1
              /\ s.hiddenDels # 0
              /\ s.strayAdds = This.strayAdds /\ s.strayDels = This.strayDels
<1> DEFINE dels   == This.dels + 1
           hidden == This.hiddenDels + 1
           s      == [This EXCEPT !.dels = dels, !.hiddenDels = hidden]
<1>1. Means(s)
    BY DEF RemovedDisguised
<1>2. dels \in Nat /\ hidden \in Nat /\ hidden # 0
    BY DEF Section
<1> HIDE DEF dels, hidden
<1>3. s \in Section
    BY <1>2 DEF Section
<1>4. s.dels = dels /\ s.hiddenDels = hidden
    BY <1>2 DEF Section
<1>5. s.kind = This.kind /\ s.path = This.path /\ s.added = This.added
    BY DEF Section
<1>6. s.sure = This.sure /\ s.adds = This.adds /\ s.hiddenAdds = This.hiddenAdds
    BY DEF Section
<1>7. s.text = This.text /\ s.strayAdds = This.strayAdds /\ s.strayDels = This.strayDels
    BY DEF Section
<1>8. s.odd = This.odd
    BY DEF Section
<1> HIDE DEF s
<1> QED BY <1>1, <1>2, <1>3, <1>4, <1>5, <1>6, <1>7, <1>8 DEF dels, hidden

LEMMA AddedKeeps == ASSUME DiffInv, Added PROVE DiffInv'
<1>1. /\ InHunk /\ Adds(FALSE) /\ line' = line + 1 /\ lineNo' = lineNo + 1
      /\ hunk' = [hunk EXCEPT !.added = @ \cup {lineNo}]
      /\ file' = [file EXCEPT !.additions = @ + 1]
    BY DEF Added, Adds
<1>2. /\ file \in FileDiff /\ hunk \in DiffHunk /\ This \in Section
      /\ line \in Nat /\ lineNo \in Nat
    BY <1>1, InsideHunk
<1>3. PICK s \in Section :
         /\ Means(s)
         /\ s.added = This.added \cup {line} /\ s.adds = This.adds + 1
         /\ s.sure = (IF This.odd THEN This.sure ELSE This.sure \cup {line})
         /\ s.hiddenAdds = This.hiddenAdds /\ s.dels = This.dels
         /\ s.hiddenDels = This.hiddenDels /\ (s.odd <=> This.odd)
         /\ s.strayAdds = This.strayAdds /\ s.strayDels = This.strayDels
    BY <1>1, <1>2, AddsSays
<1>4. /\ file' \in FileDiff /\ hunk' \in DiffHunk /\ hunk'.added = hunk.added \cup {lineNo}
      /\ file'.lines = file.lines /\ file'.additions = file.additions + 1
      /\ file'.deletions = file.deletions
    BY <1>1, <1>2 DEF FileDiff, DiffHunk
<1>5. /\ WithHunk(file, hunk)'.lines = file.lines \cup hunk.added \cup {lineNo}
      /\ WithHunk(file, hunk)'.additions = file.additions + 1
      /\ WithHunk(file, hunk)'.deletions = file.deletions
    <2>1. hunk' # None
        BY <1>4, NoneIsNothing
    <2> QED BY <1>4, <2>1 DEF WithHunk, FileDiff
<1>6. /\ This.sure \subseteq This.added
      /\ This.sure \subseteq file.lines \cup hunk.added
      /\ This.sure = This.added /\ This.strayAdds = 0
            => file.lines \cup hunk.added = This.added
      /\ file.additions + This.hiddenAdds = This.adds + This.strayAdds
      /\ file.deletions + This.hiddenDels = This.dels + This.strayDels
      /\ \A l \in This.added : l < line
      /\ ~This.odd => lineNo = line
    BY <1>1, InsideHunk DEF Agrees
<1>7. line \notin This.added
    BY <1>2, <1>6
<1>8. /\ s.sure \subseteq s.added
      /\ s.sure \subseteq WithHunk(file, hunk)'.lines
    BY <1>3, <1>5, <1>6
<1>9. s.sure = s.added /\ s.strayAdds = 0 => WithHunk(file, hunk)'.lines = s.added
    <2> HAVE s.sure = s.added /\ s.strayAdds = 0
    <2>1. ~This.odd
        BY <1>3, <1>6, <1>7
    <2>2. This.sure = This.added
        BY <1>3, <1>6, <1>7, <2>1
    <2> QED BY <1>3, <1>5, <1>6, <2>1, <2>2
<1>10. /\ WithHunk(file, hunk)'.additions + s.hiddenAdds = s.adds + s.strayAdds
       /\ WithHunk(file, hunk)'.deletions + s.hiddenDels = s.dels + s.strayDels
    <2>1. /\ file.additions \in Nat /\ This.hiddenAdds \in Nat /\ This.adds \in Nat
          /\ This.strayAdds \in Nat
        BY <1>2 DEF FileDiff, Section
    <2> QED BY <1>3, <1>5, <1>6, <2>1
<1>11. Agrees(s, WithHunk(file, hunk)')
    BY <1>8, <1>9, <1>10 DEF Agrees
<1>12. /\ \A l \in s.added : l < line'
       /\ ~s.odd => lineNo' = line'
       /\ line' \in Nat /\ lineNo' \in Nat
    <2>1. \A l \in This.added : l \in Nat
        BY <1>2 DEF Section
    <2> QED BY <1>1, <1>2, <1>3, <1>6, <2>1
<1> QED BY <1>1, <1>3, <1>4, <1>11, <1>12, InHunkKeeps

LEMMA AddedDisguisedKeeps ==
    ASSUME DiffInv, NEW p \in Readable, AddedDisguised(p)
    PROVE  DiffInv'
<1>1. /\ InHunk /\ Adds(TRUE) /\ line' = line + 1 /\ lineNo' = lineNo
      /\ hunk' = hunk /\ file' = [file EXCEPT !.path = p]
    BY DEF AddedDisguised, Adds, ReadNew
<1>2. /\ file \in FileDiff /\ hunk \in DiffHunk /\ This \in Section
      /\ line \in Nat /\ lineNo \in Nat
    BY <1>1, InsideHunk
<1>3. PICK s \in Section :
         /\ Means(s)
         /\ s.added = This.added \cup {line} /\ s.adds = This.adds + 1
         /\ s.sure = This.sure
         /\ s.hiddenAdds = This.hiddenAdds + 1 /\ s.dels = This.dels
         /\ s.hiddenDels = This.hiddenDels /\ s.odd
         /\ s.strayAdds = This.strayAdds /\ s.strayDels = This.strayDels
    BY <1>1, <1>2, AddsSays
<1>4. /\ file' \in FileDiff
      /\ file'.lines = file.lines /\ file'.additions = file.additions
      /\ file'.deletions = file.deletions
    BY <1>1, <1>2 DEF FileDiff
<1>5. /\ WithHunk(file, hunk)'.lines = file.lines \cup hunk.added
      /\ WithHunk(file, hunk)'.additions = file.additions
      /\ WithHunk(file, hunk)'.deletions = file.deletions
    <2>1. hunk' # None
        BY <1>1, <1>2, NoneIsNothing
    <2> QED BY <1>1, <1>4, <2>1 DEF WithHunk, FileDiff
<1>6. /\ This.sure \subseteq This.added
      /\ This.sure \subseteq file.lines \cup hunk.added
      /\ file.additions + This.hiddenAdds = This.adds + This.strayAdds
      /\ file.deletions + This.hiddenDels = This.dels + This.strayDels
      /\ \A l \in This.added : l < line
    BY <1>1, InsideHunk DEF Agrees
<1>7. line \notin s.sure /\ s.sure # s.added
    BY <1>2, <1>3, <1>6
<1>8. /\ WithHunk(file, hunk)'.additions + s.hiddenAdds = s.adds + s.strayAdds
      /\ WithHunk(file, hunk)'.deletions + s.hiddenDels = s.dels + s.strayDels
    <2>1. /\ file.additions \in Nat /\ This.hiddenAdds \in Nat /\ This.adds \in Nat
          /\ This.strayAdds \in Nat
        BY <1>2 DEF FileDiff, Section
    <2> QED BY <1>3, <1>5, <1>6, <2>1
<1>9. Agrees(s, WithHunk(file, hunk)')
    BY <1>3, <1>5, <1>6, <1>7, <1>8 DEF Agrees
<1>10. \A l \in s.added : l < line'
    <2>1. \A l \in This.added : l \in Nat
        BY <1>2 DEF Section
    <2> QED BY <1>1, <1>2, <1>3, <1>6, <2>1
<1> QED BY <1>1, <1>2, <1>3, <1>4, <1>9, <1>10, InHunkKeeps

(* A stray line that reads as added or removed makes the section say one    *)
(* such line more that is none of the file's, and leaves the rest of it.    *)
LEMMA StrayAddedSays ==
    ASSUME This \in Section, StrayAdded
    PROVE  \E s \in Section :
              /\ Means(s) /\ s.kind = This.kind /\ s.path = This.path /\ s.text = This.text
              /\ s.added = This.added /\ s.sure = This.sure /\ s.odd
              /\ s.adds = This.adds /\ s.hiddenAdds = This.hiddenAdds
              /\ s.dels = This.dels /\ s.hiddenDels = This.hiddenDels
              /\ s.strayAdds = This.strayAdds + 1 /\ s.strayDels = This.strayDels
<1> DEFINE more == This.strayAdds + 1
           s    == [This EXCEPT !.odd = TRUE, !.strayAdds = more]
<1>1. Means(s)
    BY DEF StrayAdded
<1>2. more \in Nat
    BY DEF Section
<1> HIDE DEF more
<1>3. s \in Section /\ s.strayAdds = more
    BY <1>2 DEF Section
<1>4. s.kind = This.kind /\ s.path = This.path /\ s.added = This.added /\ s.sure = This.sure
    BY DEF Section
<1>5. /\ s.adds = This.adds /\ s.hiddenAdds = This.hiddenAdds
      /\ s.dels = This.dels /\ s.hiddenDels = This.hiddenDels
      /\ s.strayDels = This.strayDels
    BY DEF Section
<1>6. s.text = This.text
    BY DEF Section
<1>7. s.odd
    BY DEF Section
<1> HIDE DEF s
<1> QED BY <1>1, <1>3, <1>4, <1>5, <1>6, <1>7 DEF more

LEMMA StrayRemovedSays ==
    ASSUME This \in Section, StrayRemoved
    PROVE  \E s \in Section :
              /\ Means(s) /\ s.kind = This.kind /\ s.path = This.path /\ s.text = This.text
              /\ s.added = This.added /\ s.sure = This.sure /\ s.odd
              /\ s.adds = This.adds /\ s.hiddenAdds = This.hiddenAdds
              /\ s.dels = This.dels /\ s.hiddenDels = This.hiddenDels
              /\ s.strayAdds = This.strayAdds /\ s.strayDels = This.strayDels + 1
<1> DEFINE more == This.strayDels + 1
           s    == [This EXCEPT !.odd = TRUE, !.strayDels = more]
<1>1. Means(s)
    BY DEF StrayRemoved
<1>2. more \in Nat
    BY DEF Section
<1> HIDE DEF more
<1>3. s \in Section /\ s.strayDels = more
    BY <1>2 DEF Section
<1>4. s.kind = This.kind /\ s.path = This.path /\ s.added = This.added /\ s.sure = This.sure
    BY DEF Section
<1>5. /\ s.adds = This.adds /\ s.hiddenAdds = This.hiddenAdds
      /\ s.dels = This.dels /\ s.hiddenDels = This.hiddenDels
      /\ s.strayAdds = This.strayAdds
    BY DEF Section
<1>6. s.text = This.text
    BY DEF Section
<1>7. s.odd
    BY DEF Section
<1> HIDE DEF s
<1> QED BY <1>1, <1>3, <1>4, <1>5, <1>6, <1>7 DEF more

(* A removed line counts, or hides; a stray one does neither, or counts as  *)
(* one.                                                                     *)
LEMMA RestKeeps ==
    ASSUME DiffInv, Removed \/ Stray \/ StrayRemoved \/ (\E p \in Readable : RemovedDisguised(p))
    PROVE  DiffInv'
<1>1. InHunk /\ line' = line /\ hunk' = hunk
    BY DEF Removed, RemovedDisguised, Stray, StrayRemoved
<1>2. /\ file \in FileDiff /\ hunk \in DiffHunk /\ This \in Section
      /\ line \in Nat /\ lineNo \in Nat /\ hunk' # None
    BY <1>1, InsideHunk, NoneIsNothing
<1>3. PICK s \in Section :
         /\ Means(s) /\ file' \in FileDiff /\ lineNo' \in Nat
         /\ s.added = This.added /\ s.sure = This.sure
         /\ s.adds = This.adds /\ s.hiddenAdds = This.hiddenAdds
         /\ file'.lines = file.lines /\ file'.additions = file.additions
         /\ s.strayAdds = This.strayAdds
         /\ file'.deletions + s.hiddenDels - (s.dels + s.strayDels)
              = file.deletions + This.hiddenDels - (This.dels + This.strayDels)
         /\ s.odd \/ ((s.odd <=> This.odd) /\ lineNo' = lineNo)
    <2>1. CASE Removed
        <3> DEFINE s == [This EXCEPT !.dels = @ + 1]
        <3>1. /\ s \in Section /\ s.added = This.added /\ s.sure = This.sure
              /\ s.adds = This.adds /\ s.hiddenAdds = This.hiddenAdds
              /\ s.hiddenDels = This.hiddenDels /\ s.dels = This.dels + 1
              /\ s.strayAdds = This.strayAdds /\ s.strayDels = This.strayDels
            BY <1>2 DEF Section
        <3>2. s.odd <=> This.odd
            BY <1>2 DEF Section
        <3>3. /\ file' \in FileDiff /\ file'.lines = file.lines
              /\ file'.additions = file.additions /\ file'.deletions = file.deletions + 1
            BY <1>2, <2>1 DEF Removed, FileDiff
        <3>4. Means(s) /\ lineNo' = lineNo
            BY <2>1 DEF Removed
        <3> HIDE DEF s
        <3>5. /\ This.dels \in Nat /\ This.hiddenDels \in Nat /\ file.deletions \in Nat
              /\ This.strayDels \in Nat
            BY <1>2 DEF Section, FileDiff
        <3>6. file'.deletions + s.hiddenDels - (s.dels + s.strayDels)
                = file.deletions + This.hiddenDels - (This.dels + This.strayDels)
            BY <3>1, <3>3, <3>5
        <3> QED BY <1>2, <3>1, <3>2, <3>3, <3>4, <3>6
    <2>2. CASE Stray
        <3> DEFINE s == [This EXCEPT !.odd = TRUE]
        <3>1. /\ s \in Section /\ s.added = This.added /\ s.sure = This.sure
              /\ s.adds = This.adds /\ s.hiddenAdds = This.hiddenAdds
              /\ s.hiddenDels = This.hiddenDels /\ s.dels = This.dels
              /\ s.strayAdds = This.strayAdds /\ s.strayDels = This.strayDels
            BY <1>2 DEF Section
        <3>2. s.odd
            BY <1>2 DEF Section
        <3>3. Means(s) /\ file' = file /\ lineNo' \in Nat
            BY <1>2, <2>2 DEF Stray
        <3> HIDE DEF s
        <3> QED BY <1>2, <3>1, <3>2, <3>3
    <2>3. CASE \E p \in Readable : RemovedDisguised(p)
        <3>0. PICK p \in Readable : RemovedDisguised(p)
            BY <2>3
        <3>1. PICK s \in Section :
              /\ Means(s)
              /\ s.added = This.added /\ s.sure = This.sure /\ (s.odd <=> This.odd)
              /\ s.adds = This.adds /\ s.hiddenAdds = This.hiddenAdds
              /\ s.dels = This.dels + 1 /\ s.hiddenDels = This.hiddenDels + 1
              /\ s.strayAdds = This.strayAdds /\ s.strayDels = This.strayDels
            BY <1>2, <3>0, HiddenSays
        <3>3. /\ file' \in FileDiff /\ file'.lines = file.lines
              /\ file'.additions = file.additions /\ file'.deletions = file.deletions
            BY <1>2, <3>0 DEF RemovedDisguised, ReadOld, FileDiff
        <3>4. lineNo' = lineNo
            BY <3>0 DEF RemovedDisguised
        <3>5. /\ This.dels \in Nat /\ This.hiddenDels \in Nat /\ file.deletions \in Nat
              /\ This.strayDels \in Nat
            BY <1>2 DEF Section, FileDiff
        <3>6. file'.deletions + s.hiddenDels - (s.dels + s.strayDels)
                = file.deletions + This.hiddenDels - (This.dels + This.strayDels)
            BY <3>1, <3>3, <3>5
        <3> QED BY <1>2, <3>1, <3>3, <3>4, <3>6
    <2>4. CASE StrayRemoved
        <3>1. PICK s \in Section :
              /\ Means(s) /\ s.odd
              /\ s.added = This.added /\ s.sure = This.sure
              /\ s.adds = This.adds /\ s.hiddenAdds = This.hiddenAdds
              /\ s.hiddenDels = This.hiddenDels /\ s.dels = This.dels
              /\ s.strayAdds = This.strayAdds /\ s.strayDels = This.strayDels + 1
            BY <1>2, <2>4, StrayRemovedSays
        <3>3. /\ file' \in FileDiff /\ file'.lines = file.lines
              /\ file'.additions = file.additions /\ file'.deletions = file.deletions + 1
            BY <1>2, <2>4 DEF StrayRemoved, FileDiff
        <3>4. lineNo' \in Nat
            BY <1>2, <2>4 DEF StrayRemoved
        <3>5. /\ This.dels \in Nat /\ This.hiddenDels \in Nat /\ file.deletions \in Nat
              /\ This.strayDels \in Nat
            BY <1>2 DEF Section, FileDiff
        <3>6. file'.deletions + s.hiddenDels - (s.dels + s.strayDels)
                = file.deletions + This.hiddenDels - (This.dels + This.strayDels)
            BY <3>1, <3>3, <3>5
        <3> QED BY <3>1, <3>3, <3>4, <3>6
    <2> QED BY <2>1, <2>2, <2>3, <2>4
<1>4. /\ WithHunk(file, hunk)'.lines = file.lines \cup hunk.added
      /\ WithHunk(file, hunk)'.additions = file.additions
      /\ WithHunk(file, hunk)'.deletions = file'.deletions
    BY <1>1, <1>2, <1>3 DEF WithHunk, FileDiff
<1>5. /\ This.sure \subseteq This.added
      /\ This.sure \subseteq file.lines \cup hunk.added
      /\ This.sure = This.added /\ This.strayAdds = 0
            => file.lines \cup hunk.added = This.added
      /\ file.additions + This.hiddenAdds = This.adds + This.strayAdds
      /\ file.deletions + This.hiddenDels = This.dels + This.strayDels
      /\ \A l \in This.added : l < line
      /\ ~This.odd => lineNo = line
    BY <1>1, InsideHunk DEF Agrees
<1>6. file'.deletions + s.hiddenDels = s.dels + s.strayDels
    <2>1. /\ file.deletions \in Nat /\ file'.deletions \in Nat /\ This.hiddenDels \in Nat
          /\ s.hiddenDels \in Nat /\ This.dels \in Nat /\ s.dels \in Nat
          /\ This.strayDels \in Nat /\ s.strayDels \in Nat
        BY <1>2, <1>3 DEF FileDiff, Section
    <2>2. file'.deletions + s.hiddenDels - (s.dels + s.strayDels)
            = file.deletions + This.hiddenDels - (This.dels + This.strayDels)
        BY <1>3
    <2>3. file.deletions + This.hiddenDels = This.dels + This.strayDels
        BY <1>5
    <2> QED BY <2>1, <2>2, <2>3
<1>7. Agrees(s, WithHunk(file, hunk)')
    BY <1>3, <1>4, <1>5, <1>6 DEF Agrees
<1>8. ~s.odd => lineNo' = line'
    BY <1>1, <1>3, <1>5
<1> QED BY <1>1, <1>2, <1>3, <1>5, <1>7, <1>8, InHunkKeeps

LEMMA StrayAddedKeeps == ASSUME DiffInv, StrayAdded PROVE DiffInv'
<1>1. /\ InHunk /\ line' = line /\ lineNo' = lineNo + 1
      /\ hunk' = [hunk EXCEPT !.added = @ \cup {lineNo}]
      /\ file' = [file EXCEPT !.additions = @ + 1]
    BY DEF StrayAdded
<1>2. /\ file \in FileDiff /\ hunk \in DiffHunk /\ This \in Section
      /\ line \in Nat /\ lineNo \in Nat
    BY <1>1, InsideHunk
<1>3. PICK s \in Section :
         /\ Means(s) /\ s.added = This.added /\ s.sure = This.sure /\ s.odd
         /\ s.adds = This.adds /\ s.hiddenAdds = This.hiddenAdds
         /\ s.dels = This.dels /\ s.hiddenDels = This.hiddenDels
         /\ s.strayAdds = This.strayAdds + 1 /\ s.strayDels = This.strayDels
    BY <1>2, StrayAddedSays
<1>4. /\ file' \in FileDiff /\ hunk' \in DiffHunk /\ hunk'.added = hunk.added \cup {lineNo}
      /\ file'.lines = file.lines /\ file'.additions = file.additions + 1
      /\ file'.deletions = file.deletions
    BY <1>1, <1>2 DEF FileDiff, DiffHunk
<1>5. /\ WithHunk(file, hunk)'.lines = file.lines \cup hunk.added \cup {lineNo}
      /\ WithHunk(file, hunk)'.additions = file.additions + 1
      /\ WithHunk(file, hunk)'.deletions = file.deletions
    <2>1. hunk' # None
        BY <1>4, NoneIsNothing
    <2> QED BY <1>4, <2>1 DEF WithHunk, FileDiff
<1>6. /\ This.sure \subseteq This.added
      /\ This.sure \subseteq file.lines \cup hunk.added
      /\ file.additions + This.hiddenAdds = This.adds + This.strayAdds
      /\ file.deletions + This.hiddenDels = This.dels + This.strayDels
      /\ \A l \in This.added : l < line
    BY <1>1, InsideHunk DEF Agrees
<1>7. /\ file.additions \in Nat /\ This.hiddenAdds \in Nat /\ This.adds \in Nat
      /\ This.strayAdds \in Nat
    BY <1>2 DEF FileDiff, Section
<1>8. /\ s.strayAdds # 0
      /\ WithHunk(file, hunk)'.additions + s.hiddenAdds = s.adds + s.strayAdds
    BY <1>3, <1>5, <1>6, <1>7
<1>9. Agrees(s, WithHunk(file, hunk)')
    BY <1>3, <1>5, <1>6, <1>8 DEF Agrees
<1>10. /\ \A l \in s.added : l < line'
       /\ line' \in Nat /\ lineNo' \in Nat
    BY <1>1, <1>2, <1>3, <1>6
<1> QED BY <1>1, <1>3, <1>4, <1>9, <1>10, InHunkKeeps

(* One that reads as a hunk's header hands the lines so far to the file.    *)
LEMMA StrayHunkHeaderKeeps ==
    ASSUME DiffInv, NEW n \in Nat, StrayHunkHeader(n)
    PROVE  DiffInv'
<1> DEFINE s == [This EXCEPT !.odd = TRUE]
<1>1. /\ InHunk /\ line' = line /\ lineNo' = n /\ hunk' = NewHunk
      /\ file' = WithHunk(file, hunk) /\ Means(s)
    BY DEF StrayHunkHeader
<1>2. /\ file \in FileDiff /\ hunk \in DiffHunk /\ This \in Section /\ line \in Nat
    BY <1>1, InsideHunk
<1>3. /\ s \in Section /\ s.added = This.added /\ s.sure = This.sure
      /\ s.adds = This.adds /\ s.hiddenAdds = This.hiddenAdds
      /\ s.hiddenDels = This.hiddenDels /\ s.dels = This.dels
      /\ s.strayAdds = This.strayAdds /\ s.strayDels = This.strayDels
    BY <1>2 DEF Section
<1>4. s.odd
    BY <1>2 DEF Section
<1> HIDE DEF s
<1>5. file' \in FileDiff /\ NewHunk \in DiffHunk
    BY <1>1, <1>2, FlushTyped DEF NewHunk, DiffHunk
<1>6. WithHunk(file, hunk)' = WithHunk(file, hunk)
    <2>1. file'.lines \cup {} = file'.lines /\ [file' EXCEPT !.lines = file'.lines] = file'
        BY <1>5 DEF FileDiff
    <2> QED BY <1>1, <2>1 DEF WithHunk, NewHunk
<1>7. Agrees(s, WithHunk(file, hunk)')
    <2>1. Agrees(This, WithHunk(file, hunk))
        BY <1>1, InsideHunk
    <2> QED BY <1>3, <1>6, <2>1 DEF Agrees
<1>8. \A l \in s.added : l < line'
    BY <1>1, <1>3, InsideHunk
<1> QED BY <1>1, <1>2, <1>3, <1>4, <1>5, <1>7, <1>8, InHunkKeeps

(* The end closes the last file; its status is no part of what is compared. *)
LEMMA FinishKeeps == ASSUME DiffInv, Finish PROVE DiffInv'
<1> DEFINE f == IF file # None /\ file.status = "unset"
                THEN [file EXCEPT !.status = "modified"] ELSE file
<1>1. /\ at \in {"start"} \cup Reading /\ at' = "end"
      /\ TypeOK /\ InHand /\ Agreement
      /\ files' = Flushed(f, hunk) /\ file' = None /\ hunk' = None
      /\ UNCHANGED <<provider, line, sections, lineNo, body>>
    BY DEF DiffInv, Finish, Reading
<1>2. /\ f \in FileDiff \cup {None} /\ (f = None <=> file = None)
      /\ f # None => [f EXCEPT !.status = "unset"] = [file EXCEPT !.status = "unset"]
      /\ f # None => /\ f.lines = file.lines /\ f.additions = file.additions
                     /\ f.deletions = file.deletions
    <2>1. CASE file = None
        BY <2>1
    <2>2. CASE file # None
        <3>1. file \in FileDiff
            BY <1>1, <2>2 DEF TypeOK
        <3>2. [file EXCEPT !.status = "modified"] \in FileDiff
            BY <3>1 DEF FileDiff, Kinds
        <3>3. [[file EXCEPT !.status = "modified"] EXCEPT !.status = "unset"]
                = [file EXCEPT !.status = "unset"]
            BY <3>1 DEF FileDiff
        <3> QED BY <2>2, <3>1, <3>2, <3>3, NoneIsNothing DEF FileDiff
    <2> QED BY <2>1, <2>2
<1> HIDE DEF f
<1>3. /\ files' \in Seq(FileDiff) /\ Len(files') = Len(sections)
      /\ \A i \in DOMAIN sections :
            /\ i \in DOMAIN files'
            /\ i <= Len(files) => files'[i] = files[i]
            /\ i > Len(files) => files'[i] = WithHunk(f, hunk)
    BY <1>1, <1>2, Closing
<1>4. TypeOK' /\ InHand' /\ InStep'
    BY <1>1, <1>3 DEF TypeOK, InHand, InStep, Places, Reading
<1>5. ASSUME NEW i \in DOMAIN sections PROVE Agrees(sections[i], Reported(i)')
    <2>1. i \in DOMAIN files' /\ i \in 1..Len(sections) /\ i <= Len(files')
        BY <1>1, <1>3 DEF TypeOK
    <2>2. Reported(i)' = files'[i]
        BY <2>1 DEF Reported
    <2>3. CASE i <= Len(files)
        BY <1>1, <1>3, <2>2, <2>3 DEF Agreement, Reported
    <2>4. CASE ~(i <= Len(files))
        <3>1. at \in Reading /\ Len(files) \in Nat /\ i > Len(files)
            BY <1>1, <2>1, <2>4 DEF InHand, TypeOK, Reading
        <3>2. file \in FileDiff /\ file # None
            BY <1>1, <3>1, ThisIsLast, NoneIsNothing
        <3>3. files'[i] = WithHunk(f, hunk) /\ Reported(i) = WithHunk(file, hunk)
            BY <1>3, <2>4, <3>1 DEF Reported
        <3>4. f \in FileDiff /\ f # None
            BY <1>2, <3>2
        <3>5. /\ WithHunk(f, hunk).lines = WithHunk(file, hunk).lines
              /\ WithHunk(f, hunk).additions = WithHunk(file, hunk).additions
              /\ WithHunk(f, hunk).deletions = WithHunk(file, hunk).deletions
            BY <1>2, <3>2, <3>4 DEF WithHunk, FileDiff
        <3>6. Agrees(sections[i], WithHunk(file, hunk))
            BY <1>1, <3>3 DEF Agreement
        <3> QED BY <2>2, <3>3, <3>5, <3>6 DEF Agrees
    <2> QED BY <2>3, <2>4
<1> QED BY <1>1, <1>4, <1>5 DEF DiffInv, Agreement

LEMMA InitKept == Init => DiffInv
<1> SUFFICES ASSUME Init PROVE DiffInv
    OBVIOUS
<1>1. TypeOK
    BY DEF Init, TypeOK, Places
<1>2. InHand /\ InStep /\ Agreement
    BY DEF Init, InHand, InStep, Agreement, Reading
<1> QED BY <1>1, <1>2 DEF DiffInv

LEMMA NextKept == DiffInv /\ [Next]_vars => DiffInv'
<1> SUFFICES ASSUME DiffInv, [Next]_vars PROVE DiffInv'
    OBVIOUS
<1>1. CASE UNCHANGED vars
    BY <1>1 DEF vars, parser, DiffInv, TypeOK, InHand, InStep, This, Agreement, Reported, WithHunk
<1>2. ASSUME NEW n \in {lineNo} \cup 0..MaxLine, StrayHunkHeader(n) PROVE DiffInv'
    <2>1. n \in Nat
        BY DiffAssumption DEF DiffInv, TypeOK
    <2> QED BY <1>2, <2>1, StrayHunkHeaderKeeps
<1> QED BY <1>1, NewSectionKeeps, HeaderKeeps, HunkHeaderKeeps, ContextKeeps, AddedKeeps,
           AddedDisguisedKeeps, RestKeeps, StrayAddedKeeps, <1>2, FinishKeeps
        DEF Next, Finished

LEMMA Kept == Spec => []DiffInv
BY InitKept, NextKept, PTL DEF Spec

------------------------------------------------------------------------------
(* Types. *)
THEOREM TypeCorrect == Spec => []TypeOK
BY Kept, PTL DEF DiffInv

(* For any number of files, hunks and lines: the line numbers of a hunk are *)
(* right up to its first disguised or stray line, and no error goes beyond  *)
(* the hunk it is made in.                                                  *)
THEOREM ChangedLinesAreTrueHolds == Spec => []ChangedLinesAreTrue
<1>1. DiffInv => ChangedLinesAreTrue
    BY DEF DiffInv, Agreement, Agrees, ChangedLinesAreTrue
<1> QED BY <1>1, Kept, PTL

(* Each file of a diff is reported once, with its own changes.  *)
THEOREM ChangesCountedHolds == Spec => []ChangesCounted
<1>1. DiffInv => ChangesCounted
    <2> SUFFICES ASSUME DiffInv PROVE ChangesCounted
        OBVIOUS
    <2>1. Len(sections) = Len(files) + (IF file = None THEN 0 ELSE 1)
        BY DEF DiffInv, TypeOK, Places, InHand, Reading
    <2> QED BY <2>1 DEF DiffInv, Agreement, Agrees, ChangesCounted
<1> QED BY <1>1, Kept, PTL

------------------------------------------------------------------------------
(* The names: what is read of them of a file with text, unless a disguised  *)
(* line is taken for a header.                                              *)
NewName(s) == IF s.kind = "deleted" /\ provider = "git" THEN NoPath ELSE s.path

Named(s, r) ==
    /\ s.hiddenAdds = 0 => r.path = NewName(s)
    /\ s.hiddenDels = 0 /\ s.kind = "deleted" => r.old = s.path

NamedIfRead(s, r) == IF s.text THEN Named(s, r) ELSE r.path = NoPath /\ r.old = NoPath

NamedSoFar ==
    /\ at \in {"section", "header"} => ~This.text /\ file.path = NoPath /\ file.old = NoPath
    /\ at = "old" => (Kind = "deleted" => file.old = Path)
    /\ at = "new" => Named(This, file)
    /\ at = "hunk" => This.text /\ Named(This, file)

Distinct == \A i, j \in DOMAIN sections : sections[i].path = sections[j].path => i = j

NameInv ==
    /\ Distinct
    /\ \A i \in DOMAIN sections : sections[i].kind = "deleted" => sections[i].added = {}
    /\ \A i \in DOMAIN files : NamedIfRead(sections[i], files[i])
    /\ at \in Reading => NamedSoFar

(* Replacing the section in hand by one of the same file. *)
LEMMA SameNames ==
    ASSUME DiffInv, NameInv, at \in Reading, at' \in Reading, NEW s \in Section, Means(s),
           files' = files, provider' = provider, s.path = This.path, s.kind = This.kind,
           s.kind = "deleted" => s.added = {}, (This' = s) => NamedSoFar'
    PROVE  NameInv'
<1>1. TypeOK /\ InHand
    BY DEF DiffInv
<1>2. /\ Len(sections) \in DOMAIN sections /\ Len(files) \in Nat
      /\ Len(sections) = Len(files) + 1
    BY <1>1, ThisIsLast DEF InHand
<1>3. /\ Len(sections') = Len(sections)
      /\ DOMAIN sections' = DOMAIN sections
      /\ sections'[Len(sections)] = s
      /\ \A i \in DOMAIN sections : i # Len(sections) => sections'[i] = sections[i]
    BY <1>1, <1>2 DEF Means, TypeOK
<1>4. \A i \in DOMAIN sections : /\ sections'[i].path = sections[i].path
                                 /\ sections'[i].kind = sections[i].kind
    BY <1>3 DEF This
<1>5. Distinct'
    BY <1>3, <1>4 DEF NameInv, Distinct
<1>6. \A i \in DOMAIN sections' : sections'[i].kind = "deleted" => sections'[i].added = {}
    BY <1>3 DEF NameInv
<1>7. ASSUME NEW i \in DOMAIN files PROVE NamedIfRead(sections[i], files[i])'
    <2>1. i \in 1..Len(files)
        BY <1>1 DEF TypeOK
    <2>2. i \in DOMAIN sections /\ i # Len(sections)
        BY <1>1, <1>2, <2>1 DEF TypeOK
    <2> QED BY <1>3, <2>2 DEF NameInv, NamedIfRead, Named, NewName
<1>8. This' = s
    BY <1>3 DEF This
<1> QED BY <1>5, <1>6, <1>7, <1>8 DEF NameInv

LEMMA NewSectionNames ==
    ASSUME DiffInv, NameInv, NEW k \in Kinds, NEW p \in Paths, NewSection(k, p)
    PROVE  NameInv'
<1> DEFINE s == [kind |-> k, path |-> p, text |-> FALSE, added |-> {}, sure |-> {}, adds |-> 0,
                 dels |-> 0, hiddenAdds |-> 0, hiddenDels |-> 0, strayAdds |-> 0, strayDels |-> 0,
                 odd |-> FALSE]
<1>1. at \in {"start"} \cup Reading /\ TypeOK /\ InHand
    BY DEF DiffInv, NewSection, Reading
<1>2. /\ files' \in Seq(FileDiff) /\ Len(files') = Len(sections)
      /\ \A i \in DOMAIN sections : files'[i] = Reported(i)
    <2>1. files' = Flushed(file, hunk)
        BY DEF NewSection
    <2> QED BY <1>1, <2>1, Closing DEF TypeOK, Reported
<1>3. s \in Section /\ s.path = p /\ s.added = {} /\ ~s.text
    BY DEF Section
<1>4. /\ Len(sections') = Len(sections) + 1
      /\ sections'[Len(sections')] = s
      /\ DOMAIN sections' = DOMAIN sections \cup {Len(sections')}
      /\ DOMAIN sections = 1..Len(sections) /\ Len(sections) \in Nat
      /\ \A i \in DOMAIN sections : sections'[i] = sections[i] /\ sections[i].path # p
    <2>1. sections' = Append(sections, s) /\ sections \in Seq(Section)
        BY <1>1 DEF NewSection, TypeOK
    <2>2. \A i \in DOMAIN sections : sections[i].path # p
        BY DEF NewSection
    <2> HIDE DEF s
    <2> QED BY <1>3, <2>1, <2>2
<1>5. file' = NewFile /\ at' = "section" /\ provider' = provider
    BY DEF NewSection
<1> HIDE DEF s
<1>6. Distinct'
    BY <1>3, <1>4 DEF NameInv, Distinct
<1>7. \A i \in DOMAIN sections' : sections'[i].kind = "deleted" => sections'[i].added = {}
    BY <1>3, <1>4 DEF NameInv
<1>8. ASSUME NEW i \in DOMAIN files' PROVE NamedIfRead(sections[i], files[i])'
    <2>1. i \in DOMAIN sections /\ sections'[i] = sections[i] /\ files'[i] = Reported(i)
        BY <1>2, <1>4
    <2>2. CASE i <= Len(files)
        <3>1. i \in DOMAIN files /\ Reported(i) = files[i]
            BY <1>1, <1>4, <2>1, <2>2 DEF Reported, TypeOK
        <3> QED BY <1>5, <2>1, <3>1 DEF NameInv, NamedIfRead, Named, NewName
    <2>3. CASE ~(i <= Len(files))
        <3>1. at \in Reading
            <4>1. sections # <<>>
                BY <1>4, <2>1
            <4> QED BY <1>1, <4>1 DEF InHand
        <3>2. i = Len(sections) /\ Reported(i) = WithHunk(file, hunk) /\ file \in FileDiff
            BY <1>1, <1>4, <2>1, <2>3, <3>1, ThisIsLast DEF InHand
        <3>3. /\ WithHunk(file, hunk).path = file.path
              /\ WithHunk(file, hunk).old = file.old
            BY <3>2 DEF WithHunk, FileDiff
        <3>4. at = "header" \/ at = "hunk"
            BY <3>1 DEF NewSection, Reading
        <3>5. NamedIfRead(This, file)
            BY <3>1, <3>4 DEF NameInv, NamedSoFar, NamedIfRead
        <3> QED BY <1>5, <2>1, <3>2, <3>3, <3>5 DEF This, NamedIfRead, Named, NewName
    <2> QED BY <2>2, <2>3
<1>9. NamedSoFar'
    BY <1>3, <1>4, <1>5 DEF NamedSoFar, This, NewFile
<1> QED BY <1>6, <1>7, <1>8, <1>9 DEF NameInv

LEMMA HeaderNames ==
    ASSUME DiffInv, NameInv, ExtendedHeader \/ OldPath \/ NewPath
    PROVE  NameInv'
<1>1. /\ at \in Reading \ {"hunk"} /\ at' \in Reading \ {"hunk"} /\ TypeOK /\ InHand
      /\ NamedSoFar
    BY DEF DiffInv, NameInv, ExtendedHeader, OldPath, NewPath, Reading
<1>2. UNCHANGED <<provider, line, sections, files, hunk, lineNo, body>>
    BY DEF ExtendedHeader, OldPath, NewPath
<1>3. file \in FileDiff /\ This \in Section
    BY <1>1, ThisIsLast
<1>4. This' = This
    BY <1>2 DEF This
<1>5. NamedSoFar'
    <2>1. CASE ExtendedHeader
        BY <1>1, <1>3, <1>4, <2>1 DEF ExtendedHeader, NamedSoFar, FileDiff
    <2>2. CASE OldPath
        <3>1. Path # NoPath
            BY <1>3, DiffAssumption DEF Path, Section
        <3>2. /\ at' = "old"
              /\ ReadOld(IF Kind = "added" /\ provider = "git" THEN NoPath
                         ELSE IF Kind = "renamed" THEN Other ELSE Path)
            BY <2>2 DEF OldPath
        <3>3. Kind = "deleted" => file' = [file EXCEPT !.old = Path]
            BY <3>1, <3>2 DEF ReadOld
        <3>4. Kind = "deleted" => file'.old = Path
            BY <1>3, <3>3 DEF FileDiff
        <3> QED BY <1>4, <3>2, <3>4 DEF NamedSoFar, Kind, Path
    <2>3. CASE NewPath
        <3>1. /\ at = "old" /\ at' = "new"
              /\ file' = [file EXCEPT !.path = NewName(This)]
            BY <2>3 DEF NewPath, ReadNew, NewName, Kind, Path
        <3>2. file'.path = NewName(This) /\ file'.old = file.old
            BY <1>3, <3>1 DEF FileDiff
        <3> QED BY <1>1, <1>2, <1>4, <3>1, <3>2 DEF NamedSoFar, Named, NewName, Kind, Path
    <2> QED BY <2>1, <2>2, <2>3
<1>6. NameInv => NameInv'
    BY <1>1, <1>2, <1>5 DEF NameInv, Distinct, NamedIfRead, Named, NewName
<1> QED BY <1>6

LEMMA HunkHeaderNames ==
    ASSUME DiffInv, NameInv, NEW n \in 0..MaxLine, HunkHeader(n)
    PROVE  NameInv'
<1> DEFINE s == [This EXCEPT !.text = TRUE, !.odd = FALSE]
<1>1. /\ at \in Reading /\ at' = "hunk" /\ at' \in Reading /\ TypeOK /\ InHand /\ NamedSoFar
      /\ at \in {"new", "hunk"} /\ files' = files /\ provider' = provider
      /\ Means(s) /\ file' = WithHunk(file, hunk)
    BY DEF DiffInv, NameInv, HunkHeader, Reading
<1>2. file \in FileDiff /\ This \in Section /\ This = sections[Len(sections)]
      /\ Len(sections) \in DOMAIN sections
    BY <1>1, ThisIsLast DEF This
<1>3. /\ s \in Section /\ s.path = This.path /\ s.kind = This.kind /\ s.added = This.added
      /\ s.hiddenAdds = This.hiddenAdds /\ s.hiddenDels = This.hiddenDels
    BY <1>2 DEF Section
<1>4. s.text
    BY <1>2 DEF Section
<1>5. file'.path = file.path /\ file'.old = file.old
    BY <1>1, <1>2 DEF WithHunk, FileDiff
<1> HIDE DEF s
<1>6. Named(This, file)
    BY <1>1 DEF NamedSoFar
<1>7. This' = s => NamedSoFar'
    BY <1>1, <1>3, <1>4, <1>5, <1>6 DEF NamedSoFar, Named, NewName
<1>8. s.kind = "deleted" => s.added = {}
    BY <1>2, <1>3 DEF NameInv
<1> QED BY <1>1, <1>3, <1>7, <1>8, SameNames

(* A line of a hunk leaves the names alone, unless it is disguised. *)
LEMMA LineNames ==
    ASSUME DiffInv, NameInv, InHunk,
           Context \/ Added \/ Removed \/ Stray \/ StrayAdded \/ StrayRemoved
             \/ (\E n \in Nat : StrayHunkHeader(n))
             \/ (\E p \in Readable : AddedDisguised(p) \/ RemovedDisguised(p))
    PROVE  NameInv'
<1>1. /\ at = "hunk" /\ at' = "hunk" /\ at \in Reading /\ at' \in Reading
      /\ files' = files /\ provider' = provider /\ TypeOK /\ InHand /\ NamedSoFar
    BY DEF DiffInv, NameInv, InHunk, Reading
<1>2. /\ file \in FileDiff /\ This \in Section /\ line \in Nat
      /\ Means(This) <=> sections' = sections
      /\ This = sections[Len(sections)] /\ Len(sections) \in DOMAIN sections
    BY <1>1, InsideHunk, ThisIsLast DEF This
<1> DEFINE Follows(s) ==
              /\ Means(s)
              /\ s.kind = This.kind /\ s.path = This.path /\ s.text = This.text
              /\ This.kind = "deleted" => s.added = This.added
              /\ s.hiddenAdds = 0 => This.hiddenAdds = 0 /\ file'.path = file.path
              /\ s.hiddenDels = 0 => This.hiddenDels = 0 /\ file'.old = file.old
<1>3. PICK s \in Section : Follows(s)
    <2>1. CASE Context
        BY <1>2, <2>1 DEF Context
    <2>2. CASE Removed
        <3> DEFINE s == [This EXCEPT !.dels = @ + 1]
        <3>1. s \in Section /\ Means(s) /\ s.kind = This.kind /\ s.path = This.path
            BY <1>2, <2>2 DEF Section, Removed
        <3>2. /\ s.added = This.added /\ s.hiddenAdds = This.hiddenAdds
              /\ s.hiddenDels = This.hiddenDels
            BY <1>2 DEF Section
        <3>3. s.text = This.text
            BY <1>2 DEF Section
        <3>4. file'.path = file.path /\ file'.old = file.old
            BY <1>2, <2>2 DEF Removed, FileDiff
        <3> HIDE DEF s
        <3> QED BY <3>1, <3>2, <3>3, <3>4
    <2>3. CASE Stray
        <3> DEFINE s == [This EXCEPT !.odd = TRUE]
        <3>1. s \in Section /\ Means(s) /\ s.kind = This.kind /\ s.path = This.path
            BY <1>2, <2>3 DEF Section, Stray
        <3>2. /\ s.added = This.added /\ s.hiddenAdds = This.hiddenAdds
              /\ s.hiddenDels = This.hiddenDels
            BY <1>2 DEF Section
        <3>3. s.text = This.text
            BY <1>2 DEF Section
        <3>4. file' = file
            BY <2>3 DEF Stray
        <3> HIDE DEF s
        <3> QED BY <3>1, <3>2, <3>3, <3>4
    <2>4. CASE Added
        <3>1. Adds(FALSE) /\ This.kind # "deleted"
            BY <2>4 DEF Added, Adds, Kind
        <3>2. file'.path = file.path /\ file'.old = file.old
            BY <1>2, <2>4 DEF Added, FileDiff
        <3>3. PICK s \in Section :
                 /\ Means(s) /\ s.kind = This.kind /\ s.path = This.path /\ s.text = This.text
                 /\ s.hiddenAdds = This.hiddenAdds /\ s.hiddenDels = This.hiddenDels
            BY <1>2, <3>1, AddsSays
        <3> QED BY <3>1, <3>2, <3>3
    <2>5. CASE \E p \in Readable : AddedDisguised(p)
        <3>0. PICK p \in Readable : AddedDisguised(p)
            BY <2>5
        <3>1. Adds(TRUE) /\ This.kind # "deleted"
            BY <3>0 DEF AddedDisguised, Adds, Kind
        <3>2. file'.old = file.old
            BY <1>2, <3>0 DEF AddedDisguised, ReadNew, FileDiff
        <3>3. PICK s \in Section :
                 /\ Means(s) /\ s.kind = This.kind /\ s.path = This.path /\ s.text = This.text
                 /\ s.hiddenAdds = This.hiddenAdds + 1 /\ s.hiddenDels = This.hiddenDels
            BY <1>2, <3>1, AddsSays
        <3>4. This.hiddenAdds + 1 # 0
            BY <1>2 DEF Section
        <3> QED BY <3>1, <3>2, <3>3, <3>4
    <2>6. CASE \E p \in Readable : RemovedDisguised(p)
        <3>0. PICK p \in Readable : RemovedDisguised(p)
            BY <2>6
        <3>1. \E s \in Section :
                 /\ Means(s) /\ s.kind = This.kind /\ s.path = This.path /\ s.text = This.text
                 /\ s.hiddenAdds = This.hiddenAdds /\ s.hiddenDels # 0 /\ s.added = This.added
            BY <1>2, <3>0, HiddenSays
        <3>2. file'.path = file.path
            BY <1>2, <3>0 DEF RemovedDisguised, ReadOld, FileDiff
        <3> QED BY <3>1, <3>2
    <2>7. CASE StrayAdded
        <3>1. file'.path = file.path /\ file'.old = file.old
            BY <1>2, <2>7 DEF StrayAdded, FileDiff
        <3>2. PICK s \in Section :
                 /\ Means(s) /\ s.kind = This.kind /\ s.path = This.path /\ s.text = This.text
                 /\ s.hiddenAdds = This.hiddenAdds /\ s.hiddenDels = This.hiddenDels
                 /\ s.added = This.added
            BY <1>2, <2>7, StrayAddedSays
        <3> QED BY <3>1, <3>2
    <2>8. CASE StrayRemoved
        <3>1. file'.path = file.path /\ file'.old = file.old
            BY <1>2, <2>8 DEF StrayRemoved, FileDiff
        <3>2. PICK s \in Section :
                 /\ Means(s) /\ s.kind = This.kind /\ s.path = This.path /\ s.text = This.text
                 /\ s.hiddenAdds = This.hiddenAdds /\ s.hiddenDels = This.hiddenDels
                 /\ s.added = This.added
            BY <1>2, <2>8, StrayRemovedSays
        <3> QED BY <3>1, <3>2
    <2>9. CASE \E n \in Nat : StrayHunkHeader(n)
        <3> DEFINE s == [This EXCEPT !.odd = TRUE]
        <3>0. Means(s) /\ file' = WithHunk(file, hunk)
            BY <2>9 DEF StrayHunkHeader
        <3>1. s \in Section /\ s.kind = This.kind /\ s.path = This.path
            BY <1>2 DEF Section
        <3>2. /\ s.added = This.added /\ s.hiddenAdds = This.hiddenAdds
              /\ s.hiddenDels = This.hiddenDels
            BY <1>2 DEF Section
        <3>3. s.text = This.text
            BY <1>2 DEF Section
        <3>4. file'.path = file.path /\ file'.old = file.old
            BY <1>2, <3>0 DEF WithHunk, FileDiff
        <3> HIDE DEF s
        <3> QED BY <3>0, <3>1, <3>2, <3>3, <3>4
    <2> QED BY <2>1, <2>2, <2>3, <2>4, <2>5, <2>6, <2>7, <2>8, <2>9
<1>4. This.text /\ Named(This, file)
    BY <1>1 DEF NamedSoFar
<1>5. This' = s => NamedSoFar'
    BY <1>1, <1>3, <1>4 DEF NamedSoFar, Named, NewName
<1>6. s.kind = "deleted" => s.added = {}
    BY <1>2, <1>3 DEF NameInv
<1> QED BY <1>1, <1>3, <1>5, <1>6, SameNames

LEMMA FinishNames == ASSUME DiffInv, NameInv, Finish PROVE NameInv'
<1> DEFINE f == IF file # None /\ file.status = "unset"
                THEN [file EXCEPT !.status = "modified"] ELSE file
<1>1. /\ at \in {"start", "header", "hunk"} /\ at \in {"start"} \cup Reading /\ at' = "end"
      /\ TypeOK /\ InHand
      /\ files' = Flushed(f, hunk) /\ sections' = sections /\ provider' = provider
    BY DEF DiffInv, Finish, Reading
<1>2. /\ f \in FileDiff \cup {None} /\ (f = None <=> file = None)
      /\ f # None => [f EXCEPT !.status = "unset"] = [file EXCEPT !.status = "unset"]
      /\ f # None => f.path = file.path /\ f.old = file.old
    <2>1. CASE file = None
        BY <2>1
    <2>2. CASE file # None
        <3>1. file \in FileDiff
            BY <1>1, <2>2 DEF TypeOK
        <3>2. [file EXCEPT !.status = "modified"] \in FileDiff
            BY <3>1 DEF FileDiff, Kinds
        <3>3. [[file EXCEPT !.status = "modified"] EXCEPT !.status = "unset"]
                = [file EXCEPT !.status = "unset"]
            BY <3>1 DEF FileDiff
        <3> QED BY <2>2, <3>1, <3>2, <3>3, NoneIsNothing DEF FileDiff
    <2> QED BY <2>1, <2>2
<1> HIDE DEF f
<1>3. /\ files' \in Seq(FileDiff) /\ Len(files') = Len(sections)
      /\ DOMAIN sections = 1..Len(sections) /\ DOMAIN files' = DOMAIN sections
      /\ \A i \in DOMAIN sections :
            /\ i <= Len(files) => files'[i] = files[i]
            /\ i > Len(files) => files'[i] = WithHunk(f, hunk)
    BY <1>1, <1>2, Closing DEF TypeOK
<1>4. ASSUME NEW i \in DOMAIN files' PROVE NamedIfRead(sections[i], files[i])'
    <2>1. i \in DOMAIN sections
        BY <1>3
    <2>2. CASE i <= Len(files)
        <3>1. i \in DOMAIN files
            BY <1>1, <1>3, <2>1, <2>2 DEF TypeOK
        <3> QED BY <1>1, <1>3, <2>1, <2>2, <3>1 DEF NameInv, NamedIfRead, Named, NewName
    <2>3. CASE ~(i <= Len(files))
        <3>1. at \in Reading
            <4>1. sections # <<>>
                BY <1>3, <2>1
            <4> QED BY <1>1, <4>1 DEF InHand
        <3>2. /\ i = Len(sections) /\ file \in FileDiff /\ file # None /\ i > Len(files)
            BY <1>1, <1>3, <2>1, <2>3, <3>1, ThisIsLast, NoneIsNothing DEF InHand
        <3>3. f \in FileDiff /\ f.path = file.path /\ f.old = file.old
            BY <1>2, <3>2
        <3>4. /\ WithHunk(f, hunk).path = file.path
              /\ WithHunk(f, hunk).old = file.old
            BY <3>3 DEF WithHunk, FileDiff
        <3>5. NamedIfRead(This, file)
            <4>1. at = "header" \/ at = "hunk"
                BY <1>1, <3>1 DEF Reading
            <4> QED BY <3>1, <4>1 DEF NameInv, NamedSoFar, NamedIfRead
        <3>6. files'[i] = WithHunk(f, hunk)
            BY <1>3, <2>1, <3>2
        <3> QED BY <1>1, <3>2, <3>4, <3>5, <3>6 DEF This, NamedIfRead, Named, NewName
    <2> QED BY <2>2, <2>3
<1>5. Distinct' /\ (\A i \in DOMAIN sections' :
                        sections'[i].kind = "deleted" => sections'[i].added = {})
    BY <1>1 DEF NameInv, Distinct
<1> QED BY <1>1, <1>4, <1>5 DEF NameInv, Reading

LEMMA NamesKept == DiffInv /\ NameInv /\ [Next]_vars => NameInv'
<1> SUFFICES ASSUME DiffInv, NameInv, [Next]_vars PROVE NameInv'
    OBVIOUS
<1>1. CASE UNCHANGED vars
    BY <1>1 DEF vars, parser, NameInv, NamedSoFar, Distinct, NamedIfRead, Named, NewName,
                This, Kind, Path
<1>2. Context \/ Added \/ Removed \/ Stray \/ StrayAdded \/ StrayRemoved
        \/ (\E n \in Nat : StrayHunkHeader(n))
        \/ (\E p \in Readable : AddedDisguised(p) \/ RemovedDisguised(p)) => NameInv'
    <2>1. ASSUME Context \/ Added \/ Removed \/ Stray \/ StrayAdded \/ StrayRemoved
                    \/ (\E n \in Nat : StrayHunkHeader(n))
          PROVE  InHunk
        BY <2>1 DEF Context, Added, Adds, Removed, Stray, StrayAdded, StrayRemoved, StrayHunkHeader
    <2>2. ASSUME NEW p \in Readable, AddedDisguised(p) \/ RemovedDisguised(p) PROVE InHunk
        BY <2>2 DEF AddedDisguised, Adds, RemovedDisguised
    <2> QED BY <2>1, <2>2, LineNames
<1>3. {lineNo} \cup 0..MaxLine \subseteq Nat
    BY DiffAssumption DEF DiffInv, TypeOK
<1> QED BY <1>1, <1>2, <1>3, NewSectionNames, HeaderNames, HunkHeaderNames, FinishNames
        DEF Next, Finished

(* What the records of a finished diff are named and list. *)
LEMMA Finally ==
    ASSUME DiffInv, NameInv, at = "end", NoneDisguised
    PROVE  /\ DOMAIN files = DOMAIN sections
           /\ \A i \in DOMAIN sections :
                 /\ sections[i].path \in Paths
                 /\ sections[i].text => /\ files[i].path = NewName(sections[i])
                                        /\ Listed(files[i]) = sections[i].path
                 /\ ~sections[i].text => files[i].path = NoPath /\ Listed(files[i]) = NoPath
                 /\ sections[i].sure \subseteq files[i].lines
                 /\ sections[i].sure = sections[i].added /\ sections[i].strayAdds = 0
                       => files[i].lines = sections[i].added
                 /\ sections[i].sure \subseteq sections[i].added
<1>1. TypeOK /\ Len(sections) = Len(files)
    BY DEF DiffInv, InHand
<1>2. DOMAIN files = DOMAIN sections /\ \A i \in DOMAIN sections : i <= Len(files)
    BY <1>1 DEF TypeOK
<1>3. ASSUME NEW i \in DOMAIN sections
      PROVE  /\ sections[i].path \in Paths /\ sections[i].path # NoPath
             /\ NamedIfRead(sections[i], files[i])
             /\ sections[i].hiddenAdds = 0 /\ sections[i].hiddenDels = 0
    <2>1. sections[i] \in Section
        BY <1>1 DEF TypeOK
    <2>2. sections[i].path \in Paths /\ sections[i].path # NoPath
        BY <2>1, DiffAssumption DEF Section
    <2>3. NamedIfRead(sections[i], files[i])
        BY <1>2 DEF NameInv
    <2> QED BY <2>2, <2>3 DEF NoneDisguised
<1>4. ASSUME NEW i \in DOMAIN sections PROVE Agrees(sections[i], files[i])
    BY <1>2 DEF DiffInv, Agreement, Reported
<1>5. ASSUME NEW i \in DOMAIN sections, sections[i].text
      PROVE  files[i].path = NewName(sections[i]) /\ Listed(files[i]) = sections[i].path
    <2>1. Named(sections[i], files[i])
        BY <1>3, <1>5 DEF NamedIfRead
    <2> QED BY <1>3, <2>1 DEF Named, NewName, Listed
<1>6. ASSUME NEW i \in DOMAIN sections, ~sections[i].text
      PROVE  files[i].path = NoPath /\ Listed(files[i]) = NoPath
    BY <1>3, <1>6 DEF NamedIfRead, Listed
<1> QED BY <1>2, <1>3, <1>4, <1>5, <1>6 DEF Agrees

(* A finding is weighed by what the diff says of its line, if no line of    *)
(* the diff is disguised: for any number of files, hunks and lines.         *)
THEOREM RelevanceTrueHolds == Spec => []RelevanceTrue
<1>1. Init => NameInv
    BY DEF Init, NameInv, Distinct, Reading
<1>2. ASSUME DiffInv, NameInv PROVE RelevanceTrue
    <2> SUFFICES ASSUME at = "end", NoneDisguised
                 PROVE  /\ \A i \in DOMAIN sections : sections[i].text =>
                              /\ \A l \in sections[i].sure :
                                    Relevance(sections[i].path, l) = "direct"
                              /\ sections[i].sure = sections[i].added
                                    /\ sections[i].strayAdds = 0 =>
                                    \A l \in 0..line \ sections[i].added :
                                       Relevance(sections[i].path, l) = "related"
                        /\ \A p \in Paths : (\A i \in DOMAIN sections : sections[i].path # p)
                              => \A l \in 0..line : Relevance(p, l) = "unrelated"
        BY DEF RelevanceTrue
    <2> USE <1>2
    <2>1. ASSUME NEW i \in DOMAIN sections, sections[i].text
          PROVE  /\ sections[i].path \in ChangedFiles
                 /\ sections[i].sure \subseteq LinesOf(sections[i].path)
                 /\ sections[i].sure = sections[i].added /\ sections[i].strayAdds = 0 =>
                        LinesOf(sections[i].path) \subseteq sections[i].added
        <3> DEFINE p == sections[i].path
        <3>1. p \in ChangedFiles
            BY <2>1, Finally, DiffAssumption DEF ChangedFiles
        <3>2. ASSUME NEW j \in DOMAIN files, files[j].path = p PROVE j = i
            <4>1. j \in DOMAIN sections /\ p # NoPath
                BY <2>1, Finally, DiffAssumption
            <4>2. sections[j].text /\ files[j].path = NewName(sections[j])
                BY <3>2, <4>1, Finally
            <4>3. sections[j].path = p
                BY <3>2, <4>1, <4>2 DEF NewName
            <4> QED BY <4>1, <4>3 DEF NameInv, Distinct
        <3>3. CASE NewName(sections[i]) = p
            <4>1. files[i].path = p /\ i \in DOMAIN files
                BY <2>1, <3>3, Finally
            <4>2. {j \in DOMAIN files : files[j].path = p
                        /\ \A k \in DOMAIN files : k > j => files[k].path # p} = {i}
                <5>1. ~(i > i)
                    BY <4>1 DEF DiffInv, TypeOK
                <5> QED BY <3>2, <4>1, <5>1
            <4>3. LinesOf(p) = files[i].lines
                BY <4>2 DEF LinesOf
            <4> QED BY <2>1, <3>1, <4>3, Finally
        <3>4. CASE NewName(sections[i]) # p
            <4>1. sections[i].kind = "deleted" /\ sections[i].added = {}
                BY <2>1, <3>4 DEF NewName, NameInv
            <4>2. LinesOf(p) = {}
                <5>1. \A j \in DOMAIN files : files[j].path # p
                    BY <2>1, <3>2, <3>4, Finally
                <5> QED BY <5>1 DEF LinesOf
            <4> QED BY <2>1, <3>1, <4>1, <4>2, Finally
        <3> QED BY <3>3, <3>4
    <2>2. ASSUME NEW i \in DOMAIN sections, sections[i].text, NEW l \in sections[i].sure
          PROVE  Relevance(sections[i].path, l) = "direct"
        BY <2>1, <2>2 DEF Relevance
    <2>3. ASSUME NEW i \in DOMAIN sections, sections[i].text, sections[i].sure = sections[i].added,
                 sections[i].strayAdds = 0, NEW l \in 0..line \ sections[i].added
          PROVE  Relevance(sections[i].path, l) = "related"
        BY <2>1, <2>3 DEF Relevance
    <2>4. ASSUME NEW p \in Paths, \A i \in DOMAIN sections : sections[i].path # p, NEW l \in 0..line
          PROVE  Relevance(p, l) = "unrelated"
        <3>1. p \notin ChangedFiles
            BY <2>4, Finally, DiffAssumption DEF ChangedFiles
        <3> QED BY <3>1 DEF Relevance
    <2> QED BY <2>2, <2>3, <2>4
<1>3. DiffInv /\ NameInv /\ [Next]_vars => (DiffInv /\ NameInv)'
    BY NextKept, NamesKept
<1> QED BY <1>1, <1>2, <1>3, InitKept, PTL DEF Spec
==============================================================================
