----------------------------- MODULE UnifiedDiff -----------------------------
(***************************************************************************)
(* What the agents are told of a pull request's diff: the parser of        *)
(* core/git_provider.py and the lookup of core/diff_analyzer.py, beside    *)
(* what the diff says.  The text comes line by line, as git writes it      *)
(* (Gitea and GitHub pass that on) or as gitlab_client.py puts it together *)
(* from GitLab's JSON.  A step is one line of the text: it goes into       *)
(* sections, what is true, and into files, file and hunk, what is read.    *)
(*                                                                         *)
(* The parser tells lines apart by how they begin.  A removed line whose   *)
(* own text begins with "-- " reads as a header, an added one with "++ "   *)
(* too: these are disguised.  A stray line is no line of the file: git's   *)
(* "\ No newline at end of file", which reads as context, or what          *)
(* splitlines cut off at a form feed, which reads as it begins.            *)
(***************************************************************************)
EXTENDS Naturals, Sequences, FiniteSets

CONSTANTS
    Paths,        \* of the files that the pull request touches
    Providers,    \* whose text is read: "git", "gitlab"
    NoPath,       \* the empty string
    None,         \* Python's None: no file, no hunk
    Other,        \* what a disguised line holds in the place of a path
    MaxLine,      \* bound on the line a hunk may begin at
    MaxBody       \* bound on the lines inside hunks

ASSUME DiffAssumption ==
    /\ Providers \subseteq {"git", "gitlab"}
    /\ NoPath \notin Paths /\ Other \notin Paths /\ NoPath # Other
    /\ MaxLine \in Nat
    /\ MaxBody \in Nat

VARIABLES
    provider,
    at,                         \* what the last line was
    line,                       \* number of the next line in the new file
    sections,                   \* the diff so far, one entry per file
    files, file, hunk, lineNo,  \* parse_unified_diff: its result and locals
    body                        \* lines inside hunks so far (bound)

parser == <<files, file, hunk, lineNo>>
vars   == <<provider, at, line, sections, parser, body>>

Kinds    == {"modified", "added", "deleted", "renamed"}
Places   == {"start", "section", "header", "old", "new", "hunk", "end"}
Readable == Paths \cup {Other, NoPath}

(* What a section of the diff says: the lines it adds, those of them that   *)
(* nothing disguised or stray precedes in their hunk, and the counts; and   *)
(* the stray lines that read as added or removed.                           *)
Section == [kind : Kinds, path : Paths, text : BOOLEAN,
            added : SUBSET Nat, sure : SUBSET Nat, adds : Nat, dels : Nat,
            hiddenAdds : Nat, hiddenDels : Nat, strayAdds : Nat, strayDels : Nat,
            odd : BOOLEAN]

(* FileDiff and DiffHunk, without the fields that nobody reads.  There is   *)
(* no file before the first header and no hunk before the first "@@".       *)
FileDiff == [path : Readable, old : Readable, status : Kinds \cup {"unset"},
             lines : SUBSET Nat, additions : Nat, deletions : Nat]
NewFile  == [path |-> NoPath, old |-> NoPath, status |-> "unset",
             lines |-> {}, additions |-> 0, deletions |-> 0]
DiffHunk == [added : SUBSET Nat]
NewHunk  == [added |-> {}]

ASSUME NoneAssumption == None \notin FileDiff \cup DiffHunk

TypeOK ==
    /\ provider \in Providers /\ at \in Places /\ line \in Nat
    /\ sections \in Seq(Section)
    /\ files \in Seq(FileDiff) /\ file \in FileDiff \cup {None}
    /\ hunk \in DiffHunk \cup {None}
    /\ lineNo \in Nat /\ body \in Nat

Init ==
    /\ provider \in Providers
    /\ at = "start" /\ line = 0 /\ sections = <<>>
    /\ files = <<>> /\ file = None /\ hunk = None /\ lineNo = 0
    /\ body = 0

------------------------------------------------------------------------------
(* The current hunk goes to its file, and the file to the result. *)
WithHunk(f, h) == IF h = None THEN f ELSE [f EXCEPT !.lines = @ \cup h.added]
Flushed(f, h)  == IF f = None THEN files ELSE Append(files, WithHunk(f, h))

(* Mutant: a new file header drops the file before. *)
NewSectionDropsFile(k, p) ==
    /\ at \in {"start", "hunk"} \/ (at = "header" /\ provider = "git")
    /\ \A i \in DOMAIN sections : sections[i].path # p
    /\ sections' = Append(sections,
          [kind |-> k, path |-> p, text |-> FALSE, added |-> {}, sure |-> {}, adds |-> 0,
           dels |-> 0, hiddenAdds |-> 0, hiddenDels |-> 0, strayAdds |-> 0, strayDels |-> 0,
           odd |-> FALSE])
    /\ files' = files
    /\ file' = NewFile /\ hunk' = None
    /\ lineNo' = IF provider = "gitlab" /\ hunk # None THEN lineNo + 1 ELSE lineNo
    /\ at' = "section" /\ line' = 0
    /\ UNCHANGED <<provider, body>>

(* "diff --git".  GitLab leaves out files without text, and join puts an    *)
(* empty line, which reads as context, between two of them.                 *)
NewSection(k, p) ==
    /\ at \in {"start", "hunk"} \/ (at = "header" /\ provider = "git")
    /\ \A i \in DOMAIN sections : sections[i].path # p
    /\ sections' = Append(sections,
          [kind |-> k, path |-> p, text |-> FALSE, added |-> {}, sure |-> {}, adds |-> 0,
           dels |-> 0, hiddenAdds |-> 0, hiddenDels |-> 0, strayAdds |-> 0, strayDels |-> 0,
           odd |-> FALSE])
    /\ files' = Flushed(file, hunk)
    /\ file' = NewFile /\ hunk' = None
    /\ lineNo' = IF provider = "gitlab" /\ hunk # None THEN lineNo + 1 ELSE lineNo
    /\ at' = "section" /\ line' = 0
    /\ UNCHANGED <<provider, body>>

(* What the diff says of the file it has come to. *)
This     == sections[Len(sections)]
Kind     == This.kind
Path     == This.path
Means(s) == sections' = [sections EXCEPT ![Len(sections)] = s]

(* "new file", "deleted file", "rename"; a modified file has no such line.  *)
ExtendedHeader ==
    /\ at = "section" /\ at' = "header"
    /\ file' = IF Kind = "modified" THEN file ELSE [file EXCEPT !.status = Kind]
    /\ UNCHANGED <<provider, line, sections, files, hunk, lineNo, body>>

(* "--- ": an empty path is not taken, here or from a disguised line. *)
ReadOld(p) == file' = IF p = NoPath THEN file ELSE [file EXCEPT !.old = p]
(* "+++ ": whatever follows is taken. *)
ReadNew(p) == file' = [file EXCEPT !.path = p]

(* git writes /dev/null for the side that does not exist, gitlab_client     *)
(* the path on both.  A renamed file's old path is none of this diff's.     *)
OldPath ==
    /\ at = "header" /\ at' = "old"
    /\ ReadOld(IF Kind = "added" /\ provider = "git" THEN NoPath
               ELSE IF Kind = "renamed" THEN Other ELSE Path)
    /\ UNCHANGED <<provider, line, sections, files, hunk, lineNo, body>>

NewPath ==
    /\ at = "old" /\ at' = "new"
    /\ ReadNew(IF Kind = "deleted" /\ provider = "git" THEN NoPath ELSE Path)
    /\ UNCHANGED <<provider, line, sections, files, hunk, lineNo, body>>

(* "@@ -i,j +n,m @@": hunks come in order; an added and a deleted file have *)
(* one only.  n is 0 when nothing of the file is left.                      *)
FirstLines == CASE Kind = "added"   -> {1}
                [] Kind = "deleted" -> {0}
                [] OTHER            -> 0..MaxLine

(* Mutant: lines are counted from zero. *)
HunkHeaderZeroBased(n) ==
    /\ at = "new" \/ (at = "hunk" /\ line # 0 /\ Kind \notin {"added", "deleted"})
    /\ n \in FirstLines /\ n >= line
    /\ at' = "hunk" /\ line' = n
    /\ Means([This EXCEPT !.text = TRUE, !.odd = FALSE])
    /\ file' = WithHunk(file, hunk)
    /\ hunk' = NewHunk /\ lineNo' = n - 1
    /\ UNCHANGED <<provider, files, body>>

(* Mutant: the counter runs on from the hunk before. *)
HunkHeaderRunsOn(n) ==
    /\ at = "new" \/ (at = "hunk" /\ line # 0 /\ Kind \notin {"added", "deleted"})
    /\ n \in FirstLines /\ n >= line
    /\ at' = "hunk" /\ line' = n
    /\ Means([This EXCEPT !.text = TRUE, !.odd = FALSE])
    /\ file' = WithHunk(file, hunk)
    /\ hunk' = NewHunk /\ lineNo' = IF hunk = None THEN n ELSE lineNo
    /\ UNCHANGED <<provider, files, body>>

HunkHeader(n) ==
    /\ at = "new" \/ (at = "hunk" /\ line # 0 /\ Kind \notin {"added", "deleted"})
    /\ n \in FirstLines /\ n >= line
    /\ at' = "hunk" /\ line' = n
    /\ Means([This EXCEPT !.text = TRUE, !.odd = FALSE])
    /\ file' = WithHunk(file, hunk)
    /\ hunk' = NewHunk /\ lineNo' = n
    /\ UNCHANGED <<provider, files, body>>

------------------------------------------------------------------------------
(* The lines of a hunk. *)

InHunk == at = "hunk" /\ body < MaxBody /\ body' = body + 1 /\ UNCHANGED <<provider, at, files>>

Context ==
    /\ InHunk /\ line # 0 /\ Kind \notin {"added", "deleted"}
    /\ line' = line + 1 /\ lineNo' = lineNo + 1
    /\ UNCHANGED <<sections, file, hunk>>

Adds(disguised) ==
    /\ InHunk /\ line # 0 /\ Kind # "deleted"
    /\ Means([This EXCEPT !.added = @ \cup {line}, !.adds = @ + 1,
                          !.sure = IF disguised \/ This.odd THEN @ ELSE @ \cup {line},
                          !.hiddenAdds = IF disguised THEN @ + 1 ELSE @,
                          !.odd = @ \/ disguised])
    /\ line' = line + 1

Added ==
    /\ Adds(FALSE)
    /\ hunk' = [hunk EXCEPT !.added = @ \cup {lineNo}]
    /\ file' = [file EXCEPT !.additions = @ + 1]
    /\ lineNo' = lineNo + 1

AddedDisguised(p) == Adds(TRUE) /\ ReadNew(p) /\ UNCHANGED <<hunk, lineNo>>

Removed ==
    /\ InHunk /\ Kind # "added"
    /\ Means([This EXCEPT !.dels = @ + 1])
    /\ file' = [file EXCEPT !.deletions = @ + 1]
    /\ UNCHANGED <<line, hunk, lineNo>>

RemovedDisguised(p) ==
    /\ InHunk /\ Kind # "added"
    /\ Means([This EXCEPT !.dels = @ + 1, !.hiddenDels = @ + 1])
    /\ ReadOld(p)
    /\ UNCHANGED <<line, hunk, lineNo>>

Stray ==
    /\ InHunk
    /\ Means([This EXCEPT !.odd = TRUE])
    /\ lineNo' = lineNo + 1
    /\ UNCHANGED <<line, file, hunk>>

(* What is cut off a line may begin with "+", "-" or "@@", the last with a  *)
(* number to count from or without; what begins like the header of a file   *)
(* is left out.                                                             *)
StrayAdded ==
    /\ InHunk
    /\ Means([This EXCEPT !.odd = TRUE, !.strayAdds = @ + 1])
    /\ hunk' = [hunk EXCEPT !.added = @ \cup {lineNo}]
    /\ file' = [file EXCEPT !.additions = @ + 1]
    /\ lineNo' = lineNo + 1
    /\ UNCHANGED line

StrayRemoved ==
    /\ InHunk
    /\ Means([This EXCEPT !.odd = TRUE, !.strayDels = @ + 1])
    /\ file' = [file EXCEPT !.deletions = @ + 1]
    /\ UNCHANGED <<line, hunk, lineNo>>

StrayHunkHeader(n) ==
    /\ InHunk
    /\ Means([This EXCEPT !.odd = TRUE])
    /\ file' = WithHunk(file, hunk)
    /\ hunk' = NewHunk /\ lineNo' = n
    /\ UNCHANGED line

(* The end of the text: only the last file's status is filled in. *)
Finish ==
    /\ at \in {"start", "hunk"} \/ (at = "header" /\ provider = "git")
    /\ at' = "end"
    /\ files' = Flushed(IF file # None /\ file.status = "unset"
                        THEN [file EXCEPT !.status = "modified"] ELSE file, hunk)
    /\ file' = None /\ hunk' = None
    /\ UNCHANGED <<provider, line, sections, lineNo, body>>

Finished == at = "end" /\ UNCHANGED vars

Next ==
    \/ \E k \in Kinds, p \in Paths : NewSection(k, p)
    \/ ExtendedHeader \/ OldPath \/ NewPath
    \/ \E n \in 0..MaxLine : HunkHeader(n)
    \/ Context \/ Added \/ Removed
    \/ Stray \/ StrayAdded \/ StrayRemoved
    \/ \E n \in {lineNo} \cup 0..MaxLine : StrayHunkHeader(n)
    \/ \E p \in Readable : AddedDisguised(p) \/ RemovedDisguised(p)
    \/ Finish
    \/ Finished

Spec == Init /\ [][Next]_vars

------------------------------------------------------------------------------
(* What diff_analyzer makes of the result. *)

(* Mutant: a renamed file is listed under the name it had. *)
ListedByOld(f) == IF f.old # NoPath THEN f.old ELSE f.path

(* summarise_diff: a file is listed under its new path, or else its old one. *)
Listed(f) == IF f.path # NoPath THEN f.path ELSE f.old
ChangedFiles == {Listed(files[i]) : i \in DOMAIN files} \ {NoPath}

(* _changed_lines_by_file is a dict: of equal keys the last one stays. *)
LinesOf(p) == UNION {files[i].lines : i \in {j \in DOMAIN files :
                  files[j].path = p /\ \A k \in DOMAIN files : k > j => files[k].path # p}}

(* annotate_findings_with_diff, of a finding that names a file and a line. *)
Relevance(p, l) == CASE p \notin ChangedFiles -> "unrelated"
                     [] p \in ChangedFiles /\ l \in LinesOf(p) -> "direct"
                     [] OTHER -> "related"

------------------------------------------------------------------------------
(* The record of the i-th section, also of the one that is being read. *)
Reported(i) == IF i <= Len(files) THEN files[i] ELSE WithHunk(file, hunk)

(* "New-file line numbers that were added or modified" (FileDiff's          *)
(* changed_line_numbers): the lines a hunk adds before its first disguised  *)
(* or stray line are reported, whatever went wrong in hunks and files       *)
(* before; and a file whose lines are all of this kind has no others, but   *)
(* for the stray ones that read as added.                                   *)
ChangedLinesAreTrue ==
    \A i \in DOMAIN sections :
        /\ sections[i].sure \subseteq Reported(i).lines
        /\ sections[i].sure = sections[i].added /\ sections[i].strayAdds = 0
              => Reported(i).lines = sections[i].added

(* Every file of the diff is in the result once and in its place, and of    *)
(* its changes only the disguised ones are not counted, and nothing besides *)
(* them but stray lines: nothing is counted for a neighbour or twice.       *)
ChangesCounted ==
    /\ Len(sections) = Len(files) + (IF file = None THEN 0 ELSE 1)
    /\ \A i \in DOMAIN sections :
          /\ Reported(i).additions + sections[i].hiddenAdds
                = sections[i].adds + sections[i].strayAdds
          /\ Reported(i).deletions + sections[i].hiddenDels
                = sections[i].dels + sections[i].strayDels

NoneDisguised == \A i \in DOMAIN sections :
                    sections[i].hiddenAdds = 0 /\ sections[i].hiddenDels = 0

(* A finding is "direct" on a line the pull request adds, "related" on      *)
(* another line of a file it changes the text of, "unrelated" elsewhere, as *)
(* long as no line of the diff is disguised and no stray one reads as       *)
(* added in that file.                                                      *)
RelevanceTrue ==
    at = "end" /\ NoneDisguised =>
        /\ \A i \in DOMAIN sections : sections[i].text =>
              LET s == sections[i] IN
              /\ \A l \in s.sure : Relevance(s.path, l) = "direct"
              /\ s.sure = s.added /\ s.strayAdds = 0 =>
                    \A l \in 0..line \ s.added : Relevance(s.path, l) = "related"
        /\ \A p \in Paths : (\A i \in DOMAIN sections : sections[i].path # p)
              => \A l \in 0..line : Relevance(p, l) = "unrelated"
==============================================================================
