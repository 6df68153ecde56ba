------------------------------- MODULE Diffs -------------------------------
(***************************************************************************)
(* What the service reads out of a unified diff: review/locations.ts,      *)
(* review/excluded-paths.ts and review/rules/empty-diff.ts.                *)
(*                                                                         *)
(* A diff is a sequence of lines, and a change one of edits of files.      *)
(* Render is git: the diff of a change.  Of a line of text the program     *)
(* tells apart its mark (the first character), the words without their     *)
(* spacing, and the file that it names if the line, with its mark, reads   *)
(* as a header "--- path" or "+++ path": the real headers do, and so does  *)
(* a removed line "-- x" or an added line "++ x".                          *)
(***************************************************************************)
EXTENDS Integers, SequencesExt, FiniteSetsExt

CONSTANT
  Declared          \* the paths that match settings.excludedPathPatterns

DevNull == "/dev/null"
NoPath == "none"

---------------------------------------------------------------------------
(* git *)

TextLines == [mark : {" ", "+", "-", "note"}, words : STRING, names : STRING]
HunkLines == [mark : {"hunk"}, left : Int, right : Int]

(* The headers of a file, as the lines they are: a removed and an added    *)
(* one.                                                                    *)
FileLine(mark, path) == [mark |-> mark, words |-> path, names |-> path]

(* An edit: the paths of the pre-image and the post-image, whether git     *)
(* takes the file for binary, and the lines of its hunks, each hunk after  *)
(* the line that says where it starts.  "note" is git's remark that a file *)
(* does not end in a newline; it is a line of neither image.               *)
Edit(old, new, lines) == [old |-> old, new |-> new, binary |-> FALSE, lines |-> lines]
BinaryEdit(old, new) == [Edit(old, new, <<>>) EXCEPT !.binary = TRUE]

PathOf(edit) == IF edit.new = DevNull THEN edit.old ELSE edit.new

RenderEdit(edit) ==
  IF edit.binary
  THEN << [mark |-> "header", path |-> PathOf(edit)],
          [mark |-> "binary", old |-> edit.old, new |-> edit.new] >>
  ELSE << [mark |-> "header", path |-> PathOf(edit)],
          FileLine("-", edit.old), FileLine("+", edit.new) >> \o edit.lines

ChangeMark(side) == IF side = "RIGHT" THEN "+" ELSE "-"
StartOf(hunk, side) == IF side = "RIGHT" THEN hunk.right ELSE hunk.left

(* The number of line i in the image of a side: it comes after the lines   *)
(* of that image that its hunk has before it.                              *)
HunkOf(edit, i) == Max({h \in 1..i : edit.lines[h].mark = "hunk"})
LineNumber(edit, i, side) ==
  StartOf(edit.lines[HunkOf(edit, i)], side)
    + Cardinality({j \in (HunkOf(edit, i) + 1)..(i - 1) :
                     edit.lines[j].mark \in {" ", ChangeMark(side)}})

(* A hunk starts after the lines of the hunks before it, and git remarks   *)
(* on the end of a file only in the last one.                              *)
HunksInOrder(edit) ==
  \A h \in DOMAIN edit.lines : \A i \in 1..(h - 1) : edit.lines[h].mark = "hunk" =>
    /\ edit.lines[i].mark # "note"
    /\ \A side \in {"LEFT", "RIGHT"} : edit.lines[i].mark \in {" ", ChangeMark(side)} =>
         LineNumber(edit, i, side) < StartOf(edit.lines[h], side)

(* The changes considered: each file has one edit, a deletion adds         *)
(* nothing, and the edit of a text file has hunks.  Edits without text     *)
(* (a rename, a mode, an empty file) and a file that becomes a symbolic    *)
(* link, which has two edits, are left out.                                *)
Diffable(change) ==
  /\ change \in Seq([old : STRING \ {NoPath}, new : STRING \ {NoPath}, binary : BOOLEAN,
                     lines : Seq(TextLines \cup HunkLines)])
  /\ \A k, j \in DOMAIN change : PathOf(change[k]) = PathOf(change[j]) => k = j
  /\ \A k \in DOMAIN change :
       /\ change[k].new = DevNull =>
            \A i \in DOMAIN change[k].lines : change[k].lines[i].mark # "+"
       /\ ~ change[k].binary => change[k].lines # <<>> /\ change[k].lines[1].mark = "hunk"
       /\ HunksInOrder(change[k])

Render(change) == FoldLeft(LAMBDA diff, edit : diff \o RenderEdit(edit), <<>>, change)

---------------------------------------------------------------------------
(* locations.ts *)

(* What the scan carries from line to line: the files found so far, the    *)
(* file it is in, a pre-image path that waits for its post-image, and the  *)
(* next line numbers.                                                      *)
Scan == [files |-> <<>>, current |-> NoPath, pending |-> NoPath, left |-> 0, right |-> 0]
Untouched == [left |-> {}, right |-> {}]

(* A file that is listed already keeps its lines. *)
Listed(files, path) ==
  [p \in DOMAIN files \cup {path} |-> IF p \in DOMAIN files THEN files[p] ELSE Untouched]

OpenFile(scan, path) ==
  [scan EXCEPT !.files = Listed(@, path), !.current = path, !.pending = NoPath]

Added(scan) ==
  [scan EXCEPT !.files[scan.current].right = @ \cup {scan.right}, !.right = @ + 1]
Removed(scan) ==
  [scan EXCEPT !.files[scan.current].left = @ \cup {scan.left}, !.left = @ + 1]

OldFile(line) == line.mark = "-" /\ line.names # NoPath
NewFile(line) == line.mark = "+" /\ line.names # NoPath

ScanLine(scan, line) ==
  CASE line.mark = "header" -> scan
    [] OldFile(line) -> [scan EXCEPT !.pending = line.names]
    [] NewFile(line) ->
         OpenFile(scan, IF line.names = DevNull /\ scan.pending # NoPath
                        THEN scan.pending ELSE line.names)
    [] line.mark = "hunk" -> [scan EXCEPT !.left = line.left, !.right = line.right]
    [] OTHER ->
         IF scan.current = NoPath THEN scan
         ELSE CASE line.mark = "+" -> Added(scan)
                [] line.mark = "-" -> Removed(scan)
                [] OTHER -> [scan EXCEPT !.left = @ + 1, !.right = @ + 1]

(* Slip: a removed line moves the post-image on as well. *)
IndexDiffInStep(diff) ==
  FoldLeft(LAMBDA scan, line : IF line.mark = "-" /\ ~ OldFile(line) /\ scan.current # NoPath
                               THEN [Removed(scan) EXCEPT !.right = @ + 1]
                               ELSE ScanLine(scan, line), Scan, diff).files

IndexDiff(diff) == FoldLeft(ScanLine, Scan, diff).files

ChangedPaths(index) == DOMAIN index

IsAddressable(index, location) ==
  /\ location.path \in DOMAIN index
  /\ IF location.side = "RIGHT" THEN location.line \in index[location.path].right
                                ELSE location.line \in index[location.path].left

PullRequestLevel == [path |-> NoPath, line |-> 0, side |-> "RIGHT"]

ResolveLocation(index, location, excluded) ==
  IF location.path \in excluded \/ ~ IsAddressable(index, location)
  THEN PullRequestLevel ELSE location

ChangedLineCount(index, excluded) ==
  MapThenSumSet(LAMBDA path : Cardinality(index[path].left) + Cardinality(index[path].right),
                DOMAIN index \ excluded)

---------------------------------------------------------------------------
(* excluded-paths.ts *)

(* git's own report, under the post-image path except for a deletion *)
BinaryPathsFromDiff(diff) ==
  {IF line.new = DevNull THEN line.old ELSE line.new :
     line \in {l \in ToSet(diff) : l.mark = "binary"}}

ResolveExcludedPaths(changed, binary) ==
  {[path |-> p, source |-> IF p \in binary THEN "vcs-binary" ELSE "declared-pattern"] :
     p \in {q \in changed \cup binary : q \in binary \cup Declared}}

ExcludedPaths(diff) ==
  {entry.path : entry \in ResolveExcludedPaths(ChangedPaths(IndexDiff(diff)),
                                               BinaryPathsFromDiff(diff))}

---------------------------------------------------------------------------
(* empty-diff.ts *)

Occurrences(diff, mark, words) ==
  Cardinality({i \in DOMAIN diff :
                 diff[i].mark = mark /\ diff[i].names = NoPath /\ diff[i].words = words})

(* Without their spacing, the added and the removed lines are the same     *)
(* lines, in whatever order; what reads as a header is skipped.  (The code *)
(* skips any "---" and "+++"; text with those and no space after them is   *)
(* left out.)                                                              *)
HasSubstantiveChange(diff) ==
  \E line \in {l \in ToSet(diff) : l.mark \in {"+", "-"} /\ l.names = NoPath} :
    Occurrences(diff, "+", line.words) # Occurrences(diff, "-", line.words)
=============================================================================
