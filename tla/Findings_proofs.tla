-------------------------- MODULE Findings_proofs --------------------------
(***************************************************************************)
(* What the service reads out of a diff, against the change it is of: the  *)
(* lines a finding may be anchored to, and the size and the paths that the *)
(* deterministic rules judge.                                              *)
(***************************************************************************)
EXTENDS Service_proofs, FoldLemmas, SequenceTheorems

---------------------------------------------------------------------------
(* The diff of a change, edit by edit *)

Sides == {"LEFT", "RIGHT"}
Marks == {" ", "+", "-", "note"}
Lines == TextLines \cup HunkLines
Paths == STRING \ {NoPath}
Edits == [old : Paths, new : Paths, binary : BOOLEAN, lines : Seq(Lines)]

(* The position of the greatest of a set of positions, as FoldLeft has it. *)
Greatest(n) == [X \in SUBSET (1..n) |-> Max(X)]

LEMMA LastIsGreatest ==
  ASSUME NEW n \in Nat, NEW X \in SUBSET (1..n), X # {}
  PROVE  Greatest(n)[X] = Max(X) /\ Max(X) \in X /\ \A i \in X : Max(X) >= i
<1>1. \E m \in X : \A i \in X : m >= i
  BY GreatestNumber
<1> QED
  BY <1>1 DEF Greatest, Max

LEMMA ChangeType ==
  ASSUME NEW change, Diffable(change)
  PROVE  /\ change \in Seq(Edits) /\ Len(change) \in Nat /\ DOMAIN change = 1..Len(change)
         /\ \A k \in 1..Len(change) : change[k] \in Edits
<1>1. change \in Seq(Edits)
  BY Zenon DEF Diffable, Edits, Lines, Paths
<1> QED
  BY <1>1

LEMMA RenderedEdit ==
  ASSUME NEW edit \in Edits
  PROVE  /\ RenderEdit(edit) \in Seq(ToSet(RenderEdit(edit)))
         /\ RenderEdit(edit)[1].mark = "header"
         /\ edit.binary => /\ Len(RenderEdit(edit)) = 2
                           /\ RenderEdit(edit)[2] =
                                [mark |-> "binary", old |-> edit.old, new |-> edit.new]
         /\ ~ edit.binary =>
              /\ Len(RenderEdit(edit)) = 3 + Len(edit.lines)
              /\ RenderEdit(edit)[2] = FileLine("-", edit.old)
              /\ RenderEdit(edit)[3] = FileLine("+", edit.new)
              /\ \A i \in 1..Len(edit.lines) : RenderEdit(edit)[3 + i] = edit.lines[i]
<1>1. edit.lines \in Seq(Lines) /\ Len(edit.lines) \in Nat
  BY DEF Edits
<1>2. CASE edit.binary
  BY <1>2 DEF RenderEdit, ToSet
<1>3. CASE ~ edit.binary
  <2> DEFINE top == << [mark |-> "header", path |-> PathOf(edit)],
                       FileLine("-", edit.old), FileLine("+", edit.new) >>
             U == {top[i] : i \in 1..3} \cup Lines
  <2>1. top \in Seq(U) /\ Len(top) = 3
    OBVIOUS
  <2>2. edit.lines \in Seq(U)
    BY <1>1
  <2>3. RenderEdit(edit) = top \o edit.lines
    BY <1>3 DEF RenderEdit
  <2> HIDE DEF top, U
  <2>4. /\ top \o edit.lines \in Seq(U) /\ Len(top \o edit.lines) = 3 + Len(edit.lines)
        /\ \A i \in 1..(3 + Len(edit.lines)) : (top \o edit.lines)[i] =
             IF i <= 3 THEN top[i] ELSE edit.lines[i - 3]
    <3>1. /\ top \o edit.lines \in Seq(U)
          /\ Len(top \o edit.lines) = Len(top) + Len(edit.lines)
          /\ \A i \in 1..(Len(top) + Len(edit.lines)) : (top \o edit.lines)[i] =
               IF i <= Len(top) THEN top[i] ELSE edit.lines[i - Len(top)]
      BY <2>1, <2>2, ConcatProperties, Zenon
    <3> QED
      BY <2>1, <3>1
  <2>5. ASSUME NEW i \in 1..Len(edit.lines) PROVE (top \o edit.lines)[3 + i] = edit.lines[i]
    <3>1. 3 + i \in 1..(3 + Len(edit.lines)) /\ ~ (3 + i <= 3) /\ (3 + i) - 3 = i
      BY <1>1
    <3> QED
      BY <2>4, <3>1
  <2>6. RenderEdit(edit) \in Seq(ToSet(RenderEdit(edit)))
    <3>1. RenderEdit(edit) \in Seq(U)
      BY <2>3, <2>4
    <3> DEFINE r == RenderEdit(edit)
    <3> HIDE DEF r
    <3>2. r \in Seq(U) => r \in Seq(ToSet(r))
      BY DEF ToSet
    <3> QED
      BY <3>1, <3>2 DEF r
  <2>7. /\ 1 \in 1..(3 + Len(edit.lines)) /\ 2 \in 1..(3 + Len(edit.lines))
        /\ 3 \in 1..(3 + Len(edit.lines))
    BY <1>1
  <2>8. /\ (top \o edit.lines)[1] = top[1] /\ (top \o edit.lines)[2] = top[2]
        /\ (top \o edit.lines)[3] = top[3]
    BY <2>4, <2>7
  <2>9. /\ top[1].mark = "header" /\ top[2] = FileLine("-", edit.old)
        /\ top[3] = FileLine("+", edit.new)
    BY DEF top
  <2> QED
    BY <1>3, <2>3, <2>4, <2>5, <2>6, <2>8, <2>9
<1> QED
  BY <1>2, <1>3

(* Every line of the edits of a change *)
LinesOf(change) == UNION {ToSet(RenderEdit(change[k])) : k \in DOMAIN change}

(* Rendering appends one edit after another: a[k] is the diff of the       *)
(* first k of them.                                                        *)
Appends(a, change) ==
  /\ \A k \in 0..Len(change) : a[k] \in Seq(LinesOf(change))
  /\ a[0] = <<>> /\ a[Len(change)] = Render(change)
  /\ \A k \in 1..Len(change) : a[k] = a[k - 1] \o RenderEdit(change[k])

LEMMA RenderAppends ==
  ASSUME NEW change, Diffable(change)
  PROVE  \E a : Appends(a, change)
<1> DEFINE n == Len(change)
           D == 1..n
           V == Seq(LinesOf(change))
           base == <<>>
           Body(iter) == [X \in SUBSET D |->
                            IF X = {} THEN <<>>
                            ELSE iter[X \ {Max(X)}] \o RenderEdit(change[Max(X)])]
           total == CHOOSE iter : iter = Body(iter)
           step == [k \in D |-> [v \in V |-> v \o RenderEdit(change[k])]]
           wide == [k \in D |-> [v \in V \cup {total[X] : X \in SUBSET D} |->
                                   v \o RenderEdit(change[k])]]
<1>1. n \in Nat /\ D = DOMAIN change /\ IsFiniteSet(D)
  BY ChangeType, FS_Interval
<1>2. Render(change) = total[D]
  BY <1>1 DEF Render, FoldLeft, MapThenFoldSet
<1>3. \A X \in SUBSET D : X # {} => /\ Greatest(n)[X] = Max(X) /\ Greatest(n)[X] \in X
                                    /\ \A i \in X : Greatest(n)[X] >= i
  BY <1>1, LastIsGreatest
<1>4. \A k \in D : RenderEdit(change[k]) \in V
  <2> TAKE k \in D
  <2>1. RenderEdit(change[k]) \in Seq(ToSet(RenderEdit(change[k])))
    BY ChangeType, RenderedEdit
  <2>2. ToSet(RenderEdit(change[k])) \subseteq LinesOf(change)
    BY <1>1 DEF LinesOf
  <2> QED
    BY <2>1, <2>2
<1>5. base \in V /\ step \in [D -> [V -> V]]
  <2>1. \A k \in D : \A v \in V : v \o RenderEdit(change[k]) \in V
    BY <1>4, ConcatProperties
  <2> QED
    BY <2>1
<1>6. PICK g \in [SUBSET D -> V] : IsFold(g, D, base, step, Greatest(n))
  <2> HIDE DEF D, V, step, base
  <2> QED
    BY <1>1, <1>3, <1>5, FoldExists
<1>7. g = Body(g)
  <2>1. \A X \in SUBSET D : X # {} =>
          step[Greatest(n)[X]][g[X \ {Greatest(n)[X]}]]
            = g[X \ {Max(X)}] \o RenderEdit(change[Max(X)])
    BY <1>3, <1>6
  <2> HIDE DEF step
  <2> QED
    BY <1>6, <2>1 DEF IsFold
<1> HIDE DEF Body
<1>8. total = Body(total)
  BY <1>7
<1> HIDE DEF total
<1>9. IsFold(total, D, base, wide, Greatest(n))
  <2>1. \A X \in SUBSET D : X # {} =>
          wide[Greatest(n)[X]][total[X \ {Greatest(n)[X]}]]
            = total[X \ {Max(X)}] \o RenderEdit(change[Max(X)])
    BY <1>3
  <2> HIDE DEF wide
  <2> QED
    BY <1>8, <2>1 DEF IsFold, Body
<1>10. \A k \in D : \A v \in V : wide[k][v] = v \o RenderEdit(change[k]) /\ wide[k][v] \in V
  BY <1>5
<1> HIDE DEF wide, base
<1>11. PICK a \in [0..n -> V] : IsScan(a, n, base, wide, total[1..n])
  <2>1. n \in Nat /\ base \in V /\ IsFold(total, 1..n, base, wide, Greatest(n))
    BY <1>1, <1>5, <1>9
  <2>2. \A k \in 1..n : \A v \in V : wide[k][v] \in V
    BY <1>10
  <2>3. \A X \in SUBSET (1..n) : X # {} =>
          Greatest(n)[X] \in X /\ \A i \in X : Greatest(n)[X] >= i
    BY <1>3
  <2> HIDE DEF V, n, D
  <2> QED
    BY <2>1, <2>2, <2>3, FoldOfSequence
<1>12. \A k \in 1..n : a[k] = a[k - 1] \o RenderEdit(change[k])
  <2> TAKE k \in 1..n
  <2>1. k - 1 \in 0..n
    BY <1>1
  <2>2. a[k - 1] \in V
    BY <1>11, <2>1
  <2> QED
    BY <1>10, <1>11, <2>2 DEF IsScan
<1>13. a[0] = <<>> /\ a[n] = Render(change)
  BY <1>2, <1>11 DEF base, IsScan
<1> QED
  BY <1>11, <1>12, <1>13 DEF Appends

(* Where the lines of each edit are in the diff: those of edit k follow    *)
(* the first at[k - 1].                                                    *)
Layout(at, change) ==
  /\ at[0] = 0 /\ at[Len(change)] = Len(Render(change))
  /\ Render(change) \in Seq(LinesOf(change))
  /\ \A k \in 0..Len(change) : at[k] \in 0..Len(Render(change))
  /\ \A k \in 1..Len(change) :
       /\ at[k] = at[k - 1] + Len(RenderEdit(change[k]))
       /\ \A i \in 1..Len(RenderEdit(change[k])) :
            Render(change)[at[k - 1] + i] = RenderEdit(change[k])[i]

LEMMA DiffLayout ==
  ASSUME NEW change, Diffable(change)
  PROVE  \E at : Layout(at, change)
<1> DEFINE n == Len(change)
           V == Seq(LinesOf(change))
<1>1. PICK a : Appends(a, change)
  BY RenderAppends
<1>2. n \in Nat
  BY ChangeType
<1>3. \A k \in 0..n : a[k] \in V /\ Len(a[k]) \in Nat
  BY <1>1 DEF Appends
<1>4. ASSUME NEW k \in 1..n
      PROVE  /\ Len(a[k]) = Len(a[k - 1]) + Len(RenderEdit(change[k]))
             /\ \A i \in 1..Len(a[k - 1]) : a[k][i] = a[k - 1][i]
             /\ \A i \in 1..Len(RenderEdit(change[k])) :
                  a[k][Len(a[k - 1]) + i] = RenderEdit(change[k])[i]
             /\ Len(RenderEdit(change[k])) \in Nat
             /\ k - 1 \in 0..n /\ k \in 0..n
  <2> DEFINE before == a[k - 1]
             edit == RenderEdit(change[k])
  <2>1. k - 1 \in 0..n /\ k \in 0..n
    BY <1>2
  <2>2. before \in V /\ edit \in V /\ a[k] = before \o edit
    <3>1. RenderEdit(change[k]) \in Seq(ToSet(RenderEdit(change[k])))
      BY ChangeType, RenderedEdit
    <3>2. ToSet(RenderEdit(change[k])) \subseteq LinesOf(change)
      BY ChangeType DEF LinesOf
    <3>3. edit \in V
      BY <3>1, <3>2
    <3>4. before \in V /\ a[k] = before \o edit
      BY <1>1, <2>1 DEF Appends
    <3> QED
      BY <3>3, <3>4
  <2> HIDE DEF before, edit, V
  <2>3. /\ Len(before \o edit) = Len(before) + Len(edit)
        /\ \A i \in 1..(Len(before) + Len(edit)) : (before \o edit)[i] =
             IF i <= Len(before) THEN before[i] ELSE edit[i - Len(before)]
        /\ Len(before) \in Nat /\ Len(edit) \in Nat
    BY <2>2, ConcatProperties DEF V
  <2>4. ASSUME NEW i \in 1..Len(edit) PROVE (before \o edit)[Len(before) + i] = edit[i]
    <3>1. /\ Len(before) + i \in 1..(Len(before) + Len(edit))
          /\ ~ (Len(before) + i <= Len(before)) /\ (Len(before) + i) - Len(before) = i
      BY <2>3
    <3> QED
      BY <2>3, <3>1
  <2>5. \A i \in 1..Len(before) : (before \o edit)[i] = before[i]
    BY <2>3
  <2> QED
    BY <2>1, <2>2, <2>3, <2>4, <2>5 DEF before, edit
<1> DEFINE Extends(j, k) == /\ Len(a[k]) <= Len(a[j])
                            /\ \A i \in 1..Len(a[k]) : a[j][i] = a[k][i]
           Good == {j \in Nat : j <= n => \A k \in 0..j : Extends(j, k)}
<1>5. 0 \in Good
  BY <1>2, <1>3
<1>6. ASSUME NEW j \in Nat, j \in Good PROVE j + 1 \in Good
  <2> SUFFICES ASSUME j + 1 <= n, NEW k \in 0..(j + 1) PROVE Extends(j + 1, k)
    OBVIOUS
  <2>1. j + 1 \in 1..n /\ (j + 1) - 1 = j /\ j \in 0..n /\ k \in 0..n /\ j + 1 \in 0..n
    BY <1>2
  <2>2. CASE k = j + 1
    BY <1>3, <2>1, <2>2
  <2>3. CASE k # j + 1
    <3>1. Extends(j, k)
      <4>1. k \in 0..j /\ j <= n
        BY <1>2, <2>3
      <4> QED
        BY <1>6, <4>1
    <3>2. Extends(j + 1, j)
      <4> DEFINE m == j + 1
      <4>1. m \in 1..n /\ m - 1 = j
        BY <2>1
      <4> HIDE DEF m
      <4>2. /\ Len(a[m]) = Len(a[j]) + Len(RenderEdit(change[m]))
            /\ \A i \in 1..Len(a[j]) : a[m][i] = a[j][i]
            /\ Len(RenderEdit(change[m])) \in Nat
        BY <1>4, <4>1
      <4>3. Len(a[j]) <= Len(a[m])
        <5>1. Len(a[j]) \in Nat
          BY <1>3, <2>1
        <5> DEFINE x == Len(a[j])
                   y == Len(RenderEdit(change[m]))
        <5>2. x \in Nat /\ y \in Nat /\ Len(a[m]) = x + y
          BY <4>2, <5>1
        <5> HIDE DEF x, y
        <5>3. x <= Len(a[m])
          BY <5>2
        <5> QED
          BY <5>3 DEF x
      <4> QED
        BY <4>2, <4>3 DEF m
    <3>3. Len(a[k]) \in Nat /\ Len(a[j]) \in Nat /\ Len(a[j + 1]) \in Nat
      BY <1>3, <2>1
    <3> QED
      BY <3>1, <3>2, <3>3
  <2> QED
    BY <2>2, <2>3
<1> HIDE DEF Extends
<1>7. \A k \in 0..n : Extends(n, k)
  <2>1. n \in Good
    BY <1>2, <1>5, <1>6, NumberInduction
  <2> QED
    BY <1>2, <2>1
<1> DEFINE at == [k \in 0..n |-> Len(a[k])]
<1>8. 0 \in 0..n /\ n \in 0..n /\ a[n] = Render(change) /\ a[0] = <<>>
  BY <1>1, <1>2 DEF Appends
<1>9. at[0] = 0 /\ at[n] = Len(Render(change)) /\ Render(change) \in V
  BY <1>3, <1>8
<1>10. ASSUME NEW k \in 0..n PROVE at[k] \in 0..Len(Render(change))
  <2>1. Len(a[k]) \in Nat /\ Len(a[n]) \in Nat /\ Len(a[k]) <= Len(a[n])
    BY <1>3, <1>7, <1>8 DEF Extends
  <2> QED
    BY <1>8, <2>1
<1>11. ASSUME NEW k \in 1..n
       PROVE  /\ at[k] = at[k - 1] + Len(RenderEdit(change[k]))
              /\ \A i \in 1..Len(RenderEdit(change[k])) :
                   Render(change)[at[k - 1] + i] = RenderEdit(change[k])[i]
  <2>1. at[k] = Len(a[k]) /\ at[k - 1] = Len(a[k - 1])
    BY <1>4
  <2>2. ASSUME NEW i \in 1..Len(RenderEdit(change[k]))
        PROVE  a[n][Len(a[k - 1]) + i] = RenderEdit(change[k])[i]
    <3>1. Len(a[k - 1]) + i \in 1..Len(a[k])
      <4>1. Len(a[k - 1]) \in Nat /\ Len(RenderEdit(change[k])) \in Nat
            /\ Len(a[k]) = Len(a[k - 1]) + Len(RenderEdit(change[k]))
        BY <1>3, <1>4
      <4> DEFINE x == Len(a[k - 1])
                 y == Len(RenderEdit(change[k]))
                 z == Len(a[k])
      <4>2. x \in Nat /\ y \in Nat /\ z = x + y /\ i \in 1..y
        BY <4>1
      <4> HIDE DEF x, y, z
      <4>3. x + i \in 1..z
        BY <4>2
      <4> QED
        BY <4>3 DEF x, z
    <3>2. a[n][Len(a[k - 1]) + i] = a[k][Len(a[k - 1]) + i]
      BY <1>4, <1>7, <3>1 DEF Extends
    <3> QED
      BY <1>4, <3>2
  <2> QED
    BY <1>4, <1>8, <2>1, <2>2
<1> HIDE DEF at
<1> QED
  BY <1>9, <1>10, <1>11 DEF Layout

---------------------------------------------------------------------------
(* The scan of a diff, line by line *)

DiffLine(line) ==
  \/ line.mark \in {"header", "binary"}
  \/ line.mark \in Marks /\ line.words \in STRING /\ line.names \in STRING
  \/ line.mark = "hunk" /\ line.left \in Int /\ line.right \in Int

LEMMA EditLineType ==
  ASSUME NEW line \in Lines
  PROVE  /\ DiffLine(line)
         /\ \/ line.mark \in Marks /\ line.words \in STRING /\ line.names \in STRING
            \/ line.mark = "hunk" /\ line.left \in Int /\ line.right \in Int
BY DEF Lines, TextLines, HunkLines, DiffLine, Marks

LEMMA LinesOfDiff ==
  ASSUME NEW change, Diffable(change), NEW line \in LinesOf(change)
  PROVE  DiffLine(line)
<1>1. PICK k \in 1..Len(change) : line \in ToSet(RenderEdit(change[k])) /\ change[k] \in Edits
  BY ChangeType DEF LinesOf
<1> DEFINE edit == change[k]
<1>2. edit \in Edits /\ edit.lines \in Seq(Lines)
  BY <1>1 DEF Edits
<1>3. PICK i \in DOMAIN RenderEdit(edit) : line = RenderEdit(edit)[i]
  BY <1>1 DEF ToSet
<1> HIDE DEF edit
<1>4. CASE edit.binary
  BY <1>3, <1>4 DEF RenderEdit, DiffLine
<1>5. CASE ~ edit.binary
  <2> DEFINE top == << [mark |-> "header", path |-> PathOf(edit)],
                       FileLine("-", edit.old), FileLine("+", edit.new) >>
             U == {top[j] : j \in 1..3} \cup Lines
  <2>1. top \in Seq(U) /\ edit.lines \in Seq(U)
    BY <1>2
  <2>2. \A l \in U : DiffLine(l)
    <3>1. \A l \in Lines : DiffLine(l)
      BY EditLineType
    <3>2. DiffLine(top[1]) /\ DiffLine(top[2]) /\ DiffLine(top[3])
      BY <1>2 DEF DiffLine, Edits, FileLine, Marks, Paths
    <3> HIDE DEF top
    <3>3. \A j \in 1..3 : j = 1 \/ j = 2 \/ j = 3
      OBVIOUS
    <3> QED
      BY <3>1, <3>2, <3>3
  <2>3. RenderEdit(edit) = top \o edit.lines
    BY <1>5 DEF RenderEdit
  <2> HIDE DEF top, U
  <2>4. top \o edit.lines \in Seq(U)
    BY <2>1, ConcatProperties
  <2>5. line \in U
    BY <1>3, <2>3, <2>4
  <2> QED
    BY <2>2, <2>5
<1> QED
  BY <1>4, <1>5

FileSets == [left : SUBSET Int, right : SUBSET Int]
Files == UNION {[D -> FileSets] : D \in SUBSET Paths}
ScanStates ==
  {scan \in [files : Files, current : Paths \cup {NoPath}, pending : Paths \cup {NoPath},
             left : Int, right : Int] :
     scan.current # NoPath => scan.current \in DOMAIN scan.files}

LEMMA FilesType ==
  ASSUME NEW files
  PROVE  files \in Files <=> files \in [DOMAIN files -> FileSets] /\ DOMAIN files \subseteq Paths
<1>1. ASSUME files \in Files
      PROVE  files \in [DOMAIN files -> FileSets] /\ DOMAIN files \subseteq Paths
  <2>1. PICK D \in SUBSET Paths : files \in [D -> FileSets]
    BY <1>1 DEF Files
  <2> QED
    BY <2>1
<1>2. ASSUME files \in [DOMAIN files -> FileSets], DOMAIN files \subseteq Paths
      PROVE  files \in Files
  BY <1>2 DEF Files
<1> QED
  BY <1>1, <1>2

LEMMA ListedType ==
  ASSUME NEW files \in Files, NEW path \in Paths
  PROVE  /\ Listed(files, path) \in Files /\ DOMAIN Listed(files, path) = DOMAIN files \cup {path}
         /\ \A p \in DOMAIN files : Listed(files, path)[p] = files[p]
         /\ path \notin DOMAIN files => Listed(files, path)[path] = Untouched
<1>1. files \in [DOMAIN files -> FileSets] /\ DOMAIN files \subseteq Paths
  BY FilesType
<1>2. Untouched \in FileSets
  BY DEF Untouched, FileSets
<1>3. /\ Listed(files, path) \in [DOMAIN files \cup {path} -> FileSets]
      /\ DOMAIN files \cup {path} \subseteq Paths
  BY <1>1, <1>2 DEF Listed
<1> QED
  BY <1>3, FilesType DEF Listed

(* A line goes into the set of one file. *)
LEMMA LineType ==
  ASSUME NEW files \in Files, NEW path \in DOMAIN files, NEW n \in Int
  PROVE  /\ [files EXCEPT ![path].left = @ \cup {n}] \in Files
         /\ [files EXCEPT ![path].right = @ \cup {n}] \in Files
<1>1. files \in [DOMAIN files -> FileSets] /\ DOMAIN files \subseteq Paths
  BY FilesType
<1>2. /\ [files EXCEPT ![path].left = @ \cup {n}] \in [DOMAIN files -> FileSets]
      /\ [files EXCEPT ![path].right = @ \cup {n}] \in [DOMAIN files -> FileSets]
  BY <1>1 DEF FileSets
<1> QED
  BY <1>1, <1>2, FilesType

State(files, current, pending, left, right) ==
  [files |-> files, current |-> current, pending |-> pending, left |-> left, right |-> right]

StateFields == {"files", "current", "pending", "left", "right"}

LEMMA StateIs ==
  ASSUME NEW scan, scan = [x \in StateFields |-> scan[x]]
  PROVE  scan = State(scan.files, scan.current, scan.pending, scan.left, scan.right)
<1> DEFINE b == State(scan.files, scan.current, scan.pending, scan.left, scan.right)
<1>1. b = [x \in StateFields |-> b[x]]
  BY DEF State, StateFields
<1>2. \A x \in StateFields : scan[x] = b[x]
  BY DEF State, StateFields
<1> HIDE DEF b
<1>3. [x \in StateFields |-> scan[x]] = [x \in StateFields |-> b[x]]
  BY <1>2
<1> QED
  BY <1>1, <1>3 DEF b

(* A line of text that the scan does not take for a header of a file *)
PlainText(line) == line.mark \in {"binary"} \cup Marks /\ ~ OldFile(line) /\ ~ NewFile(line)

(* What each kind of line does to what the scan carries. *)
LEMMA ScanLineEffect ==
  ASSUME NEW scan \in ScanStates, NEW line
  PROVE  /\ line.mark = "header" => ScanLine(scan, line) = scan
         /\ OldFile(line) =>
              ScanLine(scan, line) =
                State(scan.files, scan.current, line.names, scan.left, scan.right)
         /\ NewFile(line) =>
              LET path == IF line.names = DevNull /\ scan.pending # NoPath
                          THEN scan.pending ELSE line.names
              IN ScanLine(scan, line) =
                   State(Listed(scan.files, path), path, NoPath, scan.left, scan.right)
         /\ line.mark = "hunk" =>
              ScanLine(scan, line) =
                State(scan.files, scan.current, scan.pending, line.left, line.right)
         /\ PlainText(line) /\ scan.current = NoPath => ScanLine(scan, line) = scan
         /\ PlainText(line) /\ line.mark = "+" /\ scan.current # NoPath =>
              ScanLine(scan, line) =
                State([scan.files EXCEPT ![scan.current].right = @ \cup {scan.right}],
                      scan.current, scan.pending, scan.left, scan.right + 1)
         /\ PlainText(line) /\ line.mark = "-" /\ scan.current # NoPath =>
              ScanLine(scan, line) =
                State([scan.files EXCEPT ![scan.current].left = @ \cup {scan.left}],
                      scan.current, scan.pending, scan.left + 1, scan.right)
         /\ line.mark \in {" ", "note", "binary"} /\ scan.current # NoPath =>
              ScanLine(scan, line) =
                State(scan.files, scan.current, scan.pending, scan.left + 1, scan.right + 1)
<1>1. scan \in [files : Files, current : Paths \cup {NoPath}, pending : Paths \cup {NoPath},
                left : Int, right : Int]
  BY DEF ScanStates
<1>2. scan = State(scan.files, scan.current, scan.pending, scan.left, scan.right)
  BY <1>1 DEF State
<1>3. CASE line.mark \in {"header", "hunk"} \/ OldFile(line) \/ NewFile(line)
  <2>1. line.mark = "header" => ScanLine(scan, line) = scan
    BY DEF ScanLine, OldFile, NewFile
  <2>2. OldFile(line) => ScanLine(scan, line) = [scan EXCEPT !.pending = line.names]
    BY DEF ScanLine, OldFile, NewFile
  <2>3. NewFile(line) => ScanLine(scan, line) =
          OpenFile(scan, IF line.names = DevNull /\ scan.pending # NoPath
                         THEN scan.pending ELSE line.names)
    BY DEF ScanLine, OldFile, NewFile
  <2>4. line.mark = "hunk" =>
          ScanLine(scan, line) = [scan EXCEPT !.left = line.left, !.right = line.right]
    BY DEF ScanLine, OldFile, NewFile
  <2> QED
    BY <1>1, <1>3, <2>1, <2>2, <2>3, <2>4 DEF State, OpenFile, PlainText, Marks, OldFile, NewFile
<1>4. CASE PlainText(line)
  <2>1. line.mark \notin {"header", "hunk"} /\ ~ OldFile(line) /\ ~ NewFile(line)
    BY <1>4 DEF PlainText, Marks
  <2>2. scan.current = NoPath => ScanLine(scan, line) = scan
    BY <2>1 DEF ScanLine
  <2>3. line.mark = "+" /\ scan.current # NoPath => ScanLine(scan, line) = Added(scan)
    BY <2>1 DEF ScanLine
  <2>4. line.mark = "-" /\ scan.current # NoPath => ScanLine(scan, line) = Removed(scan)
    BY <2>1 DEF ScanLine
  <2>5. line.mark \in {" ", "note", "binary"} /\ scan.current # NoPath =>
          ScanLine(scan, line) = [scan EXCEPT !.left = @ + 1, !.right = @ + 1]
    BY <2>1 DEF ScanLine
  <2>6. Added(scan) = State([scan.files EXCEPT ![scan.current].right = @ \cup {scan.right}],
                            scan.current, scan.pending, scan.left, scan.right + 1)
    <3> DEFINE next == Added(scan)
    <3>1. next = [x \in StateFields |-> next[x]]
      BY <1>1 DEF Added, StateFields
    <3>2. /\ next.files = [scan.files EXCEPT ![scan.current].right = @ \cup {scan.right}]
          /\ next.current = scan.current /\ next.pending = scan.pending
          /\ next.left = scan.left /\ next.right = scan.right + 1
      BY <1>1 DEF Added
    <3> HIDE DEF next
    <3> QED
      BY <3>1, <3>2, StateIs DEF next
  <2>7. Removed(scan) = State([scan.files EXCEPT ![scan.current].left = @ \cup {scan.left}],
                              scan.current, scan.pending, scan.left + 1, scan.right)
    <3> DEFINE next == Removed(scan)
    <3>1. next = [x \in StateFields |-> next[x]]
      BY <1>1 DEF Removed, StateFields
    <3>2. /\ next.files = [scan.files EXCEPT ![scan.current].left = @ \cup {scan.left}]
          /\ next.current = scan.current /\ next.pending = scan.pending
          /\ next.left = scan.left + 1 /\ next.right = scan.right
      BY <1>1 DEF Removed
    <3> HIDE DEF next
    <3> QED
      BY <3>1, <3>2, StateIs DEF next
  <2>8. [scan EXCEPT !.left = @ + 1, !.right = @ + 1] =
          State(scan.files, scan.current, scan.pending, scan.left + 1, scan.right + 1)
    <3> DEFINE next == [scan EXCEPT !.left = @ + 1, !.right = @ + 1]
    <3>1. next = [x \in StateFields |-> next[x]]
      BY <1>1 DEF StateFields
    <3>2. /\ next.files = scan.files /\ next.current = scan.current
          /\ next.pending = scan.pending
          /\ next.left = scan.left + 1 /\ next.right = scan.right + 1
      BY <1>1
    <3> HIDE DEF next
    <3> QED
      BY <3>1, <3>2, StateIs DEF next
  <2> QED
    BY <2>1, <2>2, <2>3, <2>4, <2>5, <2>6, <2>7, <2>8
<1>5. CASE line.mark \notin {"binary", "header", "hunk"} \cup Marks
  BY <1>5 DEF PlainText, Marks, OldFile, NewFile
<1> QED
  BY <1>3, <1>4, <1>5 DEF PlainText, Marks

LEMMA StateType ==
  ASSUME NEW files \in Files, NEW current \in Paths \cup {NoPath},
         current # NoPath => current \in DOMAIN files,
         NEW pending \in Paths \cup {NoPath}, NEW left \in Int, NEW right \in Int
  PROVE  State(files, current, pending, left, right) \in ScanStates
BY DEF State, ScanStates

LEMMA ScanLineType ==
  ASSUME NEW scan \in ScanStates, NEW line, DiffLine(line)
  PROVE  ScanLine(scan, line) \in ScanStates
<1>1. /\ scan.files \in Files /\ scan.current \in Paths \cup {NoPath}
      /\ scan.pending \in Paths \cup {NoPath} /\ scan.left \in Int /\ scan.right \in Int
      /\ scan.current # NoPath => scan.current \in DOMAIN scan.files
      /\ scan.left + 1 \in Int /\ scan.right + 1 \in Int
  BY DEF ScanStates
<1>2. CASE line.mark = "header"
  BY <1>2, ScanLineEffect
<1>3. CASE OldFile(line)
  <2>1. line.names \in Paths
    BY <1>3 DEF DiffLine, Marks, OldFile, Paths
  <2>2. ScanLine(scan, line) = State(scan.files, scan.current, line.names, scan.left, scan.right)
    BY <1>3, ScanLineEffect
  <2> QED
    BY <1>1, <2>1, <2>2, StateType, ZenonT(40)
<1>4. CASE NewFile(line)
  <2> DEFINE path == IF line.names = DevNull /\ scan.pending # NoPath
                     THEN scan.pending ELSE line.names
  <2>1. path \in Paths
    BY <1>1, <1>4 DEF DiffLine, Marks, NewFile, Paths
  <2>2. ScanLine(scan, line) = State(Listed(scan.files, path), path, NoPath, scan.left, scan.right)
    BY <1>4, ScanLineEffect
  <2> HIDE DEF path
  <2>3. Listed(scan.files, path) \in Files /\ path \in DOMAIN Listed(scan.files, path)
    BY <1>1, <2>1, ListedType
  <2> QED
    BY <1>1, <2>1, <2>2, <2>3, StateType, ZenonT(40)
<1>5. CASE line.mark = "hunk"
  <2>1. line.left \in Int /\ line.right \in Int
    BY <1>5 DEF DiffLine, Marks
  <2>2. ScanLine(scan, line) =
          State(scan.files, scan.current, scan.pending, line.left, line.right)
    BY <1>5, ScanLineEffect
  <2> QED
    BY <1>1, <2>1, <2>2, StateType, ZenonT(40)
<1>6. CASE PlainText(line)
  <2>1. CASE scan.current = NoPath
    BY <1>6, <2>1, ScanLineEffect
  <2>2. CASE scan.current # NoPath
    <3>1. /\ [scan.files EXCEPT ![scan.current].right = @ \cup {scan.right}] \in Files
          /\ [scan.files EXCEPT ![scan.current].left = @ \cup {scan.left}] \in Files
      BY <1>1, <2>2, LineType
    <3>2. /\ DOMAIN [scan.files EXCEPT ![scan.current].right = @ \cup {scan.right}]
               = DOMAIN scan.files
          /\ DOMAIN [scan.files EXCEPT ![scan.current].left = @ \cup {scan.left}]
               = DOMAIN scan.files
      OBVIOUS
    <3>3. CASE line.mark = "+"
      <4>1. ScanLine(scan, line) =
              State([scan.files EXCEPT ![scan.current].right = @ \cup {scan.right}],
                    scan.current, scan.pending, scan.left, scan.right + 1)
        BY <1>6, <2>2, <3>3, ScanLineEffect
      <4> QED
        BY <1>1, <2>2, <3>1, <3>2, <4>1, StateType
    <3>4. CASE line.mark = "-"
      <4>1. ScanLine(scan, line) =
              State([scan.files EXCEPT ![scan.current].left = @ \cup {scan.left}],
                    scan.current, scan.pending, scan.left + 1, scan.right)
        BY <1>6, <2>2, <3>4, ScanLineEffect
      <4> DEFINE files == [scan.files EXCEPT ![scan.current].left = @ \cup {scan.left}]
                 left == scan.left + 1
      <4>2. /\ files \in Files /\ DOMAIN files = DOMAIN scan.files /\ left \in Int
            /\ ScanLine(scan, line) =
                 State(files, scan.current, scan.pending, left, scan.right)
        BY <1>1, <3>1, <3>2, <4>1
      <4> HIDE DEF files, left
      <4> QED
        BY <1>1, <2>2, <4>2, StateType
    <3>5. CASE line.mark \in {" ", "note", "binary"}
      <4>1. ScanLine(scan, line) =
              State(scan.files, scan.current, scan.pending, scan.left + 1, scan.right + 1)
        BY <2>2, <3>5, ScanLineEffect
      <4> QED
        BY <1>1, <2>2, <4>1, StateType
    <3> QED
      BY <1>6, <3>3, <3>4, <3>5 DEF PlainText, Marks
  <2> QED
    BY <2>1, <2>2
<1> QED
  BY <1>2, <1>3, <1>4, <1>5, <1>6 DEF DiffLine, PlainText

(* What the scan has found after each line *)
Scans(b, diff) ==
  /\ \A i \in 0..Len(diff) : b[i] \in ScanStates
  /\ b[0] = Scan /\ b[Len(diff)].files = IndexDiff(diff)
  /\ \A i \in 1..Len(diff) : b[i] = ScanLine(b[i - 1], diff[i])

LEMMA NothingScanned == Scan \in ScanStates /\ DOMAIN Scan.files = {}
<1> DEFINE files == <<>>
<1>1. files \in Files /\ DOMAIN files = {}
  <2>1. files \in [{} -> FileSets] /\ DOMAIN files = {}
    OBVIOUS
  <2> HIDE DEF files
  <2> QED
    BY <2>1, FilesType
<1>2. Scan = State(files, NoPath, NoPath, 0, 0)
  BY DEF Scan, State
<1>3. 0 \in Int
  OBVIOUS
<1> HIDE DEF files
<1>4. State(files, NoPath, NoPath, 0, 0) \in ScanStates
  BY <1>1, <1>3, StateType
<1>5. State(files, NoPath, NoPath, 0, 0).files = files
  BY DEF State
<1> QED
  BY <1>1, <1>2, <1>4, <1>5

LEMMA IndexScans ==
  ASSUME NEW U, NEW diff \in Seq(U), \A line \in U : DiffLine(line)
  PROVE  \E b : Scans(b, diff)
<1> DEFINE n == Len(diff)
           D == 1..n
           V == ScanStates
           base == Scan
           Body(iter) == [X \in SUBSET D |->
                            IF X = {} THEN Scan
                            ELSE ScanLine(iter[X \ {Max(X)}], diff[Max(X)])]
           total == CHOOSE iter : iter = Body(iter)
           step == [k \in D |-> [v \in V |-> ScanLine(v, diff[k])]]
           wide == [k \in D |-> [v \in V \cup {total[X] : X \in SUBSET D} |->
                                   ScanLine(v, diff[k])]]
<1>1. n \in Nat /\ D = DOMAIN diff /\ IsFiniteSet(D)
  BY FS_Interval
<1>2. IndexDiff(diff) = total[D].files
  BY <1>1 DEF IndexDiff, FoldLeft, MapThenFoldSet
<1>3. \A X \in SUBSET D : X # {} => /\ Greatest(n)[X] = Max(X) /\ Greatest(n)[X] \in X
                                    /\ \A i \in X : Greatest(n)[X] >= i
  BY <1>1, LastIsGreatest
<1>4. base \in V /\ step \in [D -> [V -> V]]
  <2>1. \A k \in D : DiffLine(diff[k])
    BY <1>1
  <2>2. \A k \in D : \A v \in V : ScanLine(v, diff[k]) \in V
    BY <2>1, ScanLineType
  <2> QED
    BY <2>2, NothingScanned
<1>5. PICK g \in [SUBSET D -> V] : IsFold(g, D, base, step, Greatest(n))
  <2> HIDE DEF D, V, step, base
  <2> QED
    BY <1>1, <1>3, <1>4, FoldExists
<1>6. g = Body(g)
  <2>1. \A X \in SUBSET D : X # {} =>
          step[Greatest(n)[X]][g[X \ {Greatest(n)[X]}]] = ScanLine(g[X \ {Max(X)}], diff[Max(X)])
    BY <1>3, <1>5
  <2> HIDE DEF step
  <2> QED
    BY <1>5, <2>1 DEF IsFold
<1> HIDE DEF Body
<1>7. total = Body(total)
  BY <1>6
<1> HIDE DEF total
<1>8. IsFold(total, D, base, wide, Greatest(n))
  <2>1. \A X \in SUBSET D : X # {} =>
          wide[Greatest(n)[X]][total[X \ {Greatest(n)[X]}]]
            = ScanLine(total[X \ {Max(X)}], diff[Max(X)])
    BY <1>3
  <2> HIDE DEF wide
  <2> QED
    BY <1>7, <2>1 DEF IsFold, Body
<1>9. \A k \in D : \A v \in V : wide[k][v] = ScanLine(v, diff[k]) /\ wide[k][v] \in V
  BY <1>4
<1> HIDE DEF wide, base
<1>10. PICK b \in [0..n -> V] : IsScan(b, n, base, wide, total[1..n])
  <2>1. n \in Nat /\ base \in V /\ IsFold(total, 1..n, base, wide, Greatest(n))
    BY <1>1, <1>4, <1>8
  <2>2. \A k \in 1..n : \A v \in V : wide[k][v] \in V
    BY <1>9
  <2>3. \A X \in SUBSET (1..n) : X # {} =>
          Greatest(n)[X] \in X /\ \A i \in X : Greatest(n)[X] >= i
    BY <1>3
  <2> HIDE DEF V, n, D
  <2> QED
    BY <2>1, <2>2, <2>3, FoldOfSequence
<1>11. \A k \in 1..n : b[k] = ScanLine(b[k - 1], diff[k])
  <2> TAKE k \in 1..n
  <2>1. k - 1 \in 0..n
    BY <1>1
  <2>2. b[k - 1] \in V
    BY <1>10, <2>1
  <2> QED
    BY <1>9, <1>10, <2>2 DEF IsScan
<1>12. b[0] = Scan /\ b[n].files = IndexDiff(diff)
  BY <1>2, <1>10 DEF base, IsScan
<1> QED
  BY <1>10, <1>11, <1>12 DEF Scans

---------------------------------------------------------------------------
(* The numbers the scan gives the lines of an edit *)

Hunked(edit) == edit.lines # <<>> /\ edit.lines[1].mark = "hunk"
NoNewFile(edit) == \A i \in DOMAIN edit.lines : ~ NewFile(edit.lines[i])

(* Which lines move the scan on in an image: git's remarks do, and what    *)
(* reads as a header does not.                                             *)
AdvancingMarks(side) == IF side = "RIGHT" THEN {" ", "+", "note"} ELSE {" ", "-", "note"}
MovesOn(line, side) == line.mark \in AdvancingMarks(side) /\ ~ OldFile(line)

(* The number the scan has for the next line after the first i, and the    *)
(* numbers it gives the lines it takes for changed.                        *)
Passed(edit, h, i, side) == {j \in (h + 1)..i : MovesOn(edit.lines[j], side)}
Following(edit, i, side) ==
  StartOf(edit.lines[HunkOf(edit, i)], side)
    + Cardinality(Passed(edit, HunkOf(edit, i), i, side))
NumberRead(edit, i, side) == Following(edit, i - 1, side)
Changed(edit, i, side) ==
  {j \in 1..i : edit.lines[j].mark = ChangeMark(side) /\ ~ OldFile(edit.lines[j])}
ReadUpTo(edit, i, side) == {NumberRead(edit, j, side) : j \in Changed(edit, i, side)}

(* The hunk a line is in is the last one that starts before it. *)
LEMMA HunkOfLine ==
  ASSUME NEW edit, Hunked(edit), NEW i \in Nat \ {0}
  PROVE  /\ HunkOf(edit, i) \in 1..i /\ edit.lines[HunkOf(edit, i)].mark = "hunk"
         /\ \A h \in (HunkOf(edit, i) + 1)..i : edit.lines[h].mark # "hunk"
<1> DEFINE X == {h \in 1..i : edit.lines[h].mark = "hunk"}
<1>1. X \in SUBSET (1..i) /\ 1 \in X
  BY DEF Hunked
<1> HIDE DEF X
<1>2. Max(X) \in X /\ \A h \in X : Max(X) >= h
  BY <1>1, LastIsGreatest
<1> DEFINE g == HunkOf(edit, i)
<1>3. g = Max(X)
  BY DEF HunkOf, X
<1> HIDE DEF g
<1>4. g \in X /\ \A h \in X : g >= h
  BY <1>2, <1>3
<1>5. g \in 1..i /\ edit.lines[g].mark = "hunk"
  BY <1>4 DEF X
<1>6. ASSUME NEW h \in (g + 1)..i PROVE edit.lines[h].mark # "hunk"
  <2>1. h \in 1..i /\ ~ (g >= h)
    BY <1>5
  <2> QED
    BY <1>4, <2>1 DEF X
<1> QED
  BY <1>5, <1>6 DEF g

LEMMA HunkOfNext ==
  ASSUME NEW edit, Hunked(edit), NEW i \in Nat \ {0}
  PROVE  /\ edit.lines[i].mark = "hunk" => HunkOf(edit, i) = i
         /\ edit.lines[i].mark # "hunk" =>
              i - 1 \in Nat \ {0} /\ HunkOf(edit, i) = HunkOf(edit, i - 1)
<1> DEFINE h == HunkOf(edit, i)
<1>1. /\ h \in 1..i /\ edit.lines[h].mark = "hunk"
      /\ \A j \in (h + 1)..i : edit.lines[j].mark # "hunk"
  BY HunkOfLine
<1> HIDE DEF h
<1>2. CASE edit.lines[i].mark = "hunk"
  <2>1. ~ i \in (h + 1)..i
    BY <1>1, <1>2
  <2> QED
    BY <1>1, <1>2, <2>1 DEF h
<1>3. CASE edit.lines[i].mark # "hunk"
  <2> DEFINE g == HunkOf(edit, i - 1)
  <2>1. i - 1 \in Nat \ {0}
    BY <1>3 DEF Hunked
  <2>2. /\ g \in 1..(i - 1) /\ edit.lines[g].mark = "hunk"
        /\ \A j \in (g + 1)..(i - 1) : edit.lines[j].mark # "hunk"
    BY <2>1, HunkOfLine
  <2> HIDE DEF g
  <2>3. h # i
    BY <1>1, <1>3
  <2>4. ~ h > g
    <3>1. ASSUME h > g PROVE FALSE
      <4>1. h \in (g + 1)..(i - 1)
        BY <1>1, <2>2, <2>3, <3>1
      <4> QED
        BY <1>1, <2>2, <4>1
    <3> QED
      BY <3>1
  <2>5. ~ g > h
    <3>1. ASSUME g > h PROVE FALSE
      <4>1. g \in (h + 1)..i
        BY <1>1, <2>2, <3>1
      <4> QED
        BY <1>1, <2>2, <4>1
    <3> QED
      BY <3>1
  <2>6. h = g
    BY <1>1, <2>2, <2>4, <2>5
  <2> QED
    BY <1>3, <2>1, <2>6 DEF h, g
<1> QED
  BY <1>2, <1>3

LEMMA PassedType ==
  ASSUME NEW edit, NEW h \in Nat, NEW i \in Nat, NEW side
  PROVE  /\ IsFiniteSet(Passed(edit, h, i, side)) /\ Cardinality(Passed(edit, h, i, side)) \in Nat
         /\ i <= h => Cardinality(Passed(edit, h, i, side)) = 0
<1>1. Passed(edit, h, i, side) \subseteq (h + 1)..i /\ IsFiniteSet((h + 1)..i)
  BY FS_Interval DEF Passed
<1>2. i <= h => Passed(edit, h, i, side) = {}
  BY DEF Passed
<1> QED
  BY <1>1, <1>2, FS_Subset, FS_CardinalityType, FS_EmptySet

LEMMA PassedGrows ==
  ASSUME NEW edit, NEW h \in Nat, NEW i \in Nat, h < i, NEW side
  PROVE  /\ MovesOn(edit.lines[i], side) =>
              Cardinality(Passed(edit, h, i, side)) = Cardinality(Passed(edit, h, i - 1, side)) + 1
         /\ ~ MovesOn(edit.lines[i], side) =>
              Cardinality(Passed(edit, h, i, side)) = Cardinality(Passed(edit, h, i - 1, side))
<1>1. /\ i - 1 \in Nat /\ i \notin (h + 1)..(i - 1)
      /\ \A j : j \in (h + 1)..i <=> j \in (h + 1)..(i - 1) \/ j = i
  OBVIOUS
<1>2. CASE MovesOn(edit.lines[i], side)
  <2>1. /\ Passed(edit, h, i, side) = Passed(edit, h, i - 1, side) \cup {i}
        /\ i \notin Passed(edit, h, i - 1, side)
    BY <1>1, <1>2 DEF Passed
  <2>2. IsFiniteSet(Passed(edit, h, i - 1, side))
    BY <1>1, PassedType
  <2> QED
    BY <1>2, <2>1, <2>2, FS_AddElement
<1>3. CASE ~ MovesOn(edit.lines[i], side)
  BY <1>1, <1>3 DEF Passed
<1> QED
  BY <1>2, <1>3

LEMMA StartType ==
  ASSUME NEW edit \in Edits, NEW h \in 1..Len(edit.lines), edit.lines[h].mark = "hunk",
         NEW side
  PROVE  StartOf(edit.lines[h], side) \in Int
<1>1. edit.lines[h] \in Lines
  BY DEF Edits
<1> QED
  BY <1>1, EditLineType DEF StartOf, Marks

LEMMA FollowingGrows ==
  ASSUME NEW edit \in Edits, Hunked(edit), NEW i \in 1..Len(edit.lines), NEW side
  PROVE  /\ Following(edit, i, side) \in Int
         /\ edit.lines[i].mark = "hunk" =>
              Following(edit, i, side) = StartOf(edit.lines[i], side)
         /\ edit.lines[i].mark # "hunk" =>
              /\ i - 1 \in Nat \ {0}
              /\ MovesOn(edit.lines[i], side) =>
                   Following(edit, i, side) = Following(edit, i - 1, side) + 1
              /\ ~ MovesOn(edit.lines[i], side) =>
                   Following(edit, i, side) = Following(edit, i - 1, side)
<1> DEFINE h == HunkOf(edit, i)
           a == StartOf(edit.lines[h], side)
<1>1. i \in Nat \ {0} /\ h \in 1..i /\ edit.lines[h].mark = "hunk" /\ Len(edit.lines) \in Nat
  BY HunkOfLine DEF Edits
<1>2. h \in Nat /\ h \in 1..Len(edit.lines)
  BY <1>1
<1> HIDE DEF h
<1>3. a \in Int
  BY <1>1, <1>2, StartType
<1>4. Following(edit, i, side) = a + Cardinality(Passed(edit, h, i, side))
  BY DEF Following, h
<1> HIDE DEF a
<1>5. Cardinality(Passed(edit, h, i, side)) \in Nat
  BY <1>1, <1>2, PassedType
<1>6. CASE edit.lines[i].mark = "hunk"
  <2>1. h = i
    BY <1>1, <1>6, HunkOfNext DEF h
  <2>2. Cardinality(Passed(edit, h, i, side)) = 0
    BY <1>1, <2>1, PassedType
  <2> QED
    BY <1>3, <1>4, <1>6, <2>1, <2>2 DEF a
<1>7. CASE edit.lines[i].mark # "hunk"
  <2>1. i - 1 \in Nat \ {0} /\ HunkOf(edit, i - 1) = h
    BY <1>1, <1>7, HunkOfNext DEF h
  <2>2. Following(edit, i - 1, side) = a + Cardinality(Passed(edit, h, i - 1, side))
    BY <2>1 DEF Following, a
  <2>3. h < i
    <3>1. h # i
      BY <1>1, <1>7
    <3> QED
      BY <1>1, <3>1
  <2>4. Cardinality(Passed(edit, h, i - 1, side)) \in Nat
    BY <1>2, <2>1, PassedType
  <2>5. /\ MovesOn(edit.lines[i], side) =>
             Cardinality(Passed(edit, h, i, side)) = Cardinality(Passed(edit, h, i - 1, side)) + 1
        /\ ~ MovesOn(edit.lines[i], side) =>
             Cardinality(Passed(edit, h, i, side)) = Cardinality(Passed(edit, h, i - 1, side))
    <3>1. i \in Nat
      BY <1>1
    <3> QED
      BY <1>2, <2>3, <3>1, PassedGrows
  <2> QED
    BY <1>3, <1>4, <1>5, <1>7, <2>1, <2>2, <2>4, <2>5
<1> QED
  BY <1>6, <1>7

LEMMA ReadGrows ==
  ASSUME NEW edit, NEW side, NEW i \in Nat \ {0}
  PROVE  /\ edit.lines[i].mark = ChangeMark(side) /\ ~ OldFile(edit.lines[i]) =>
              ReadUpTo(edit, i, side) =
                ReadUpTo(edit, i - 1, side) \cup {NumberRead(edit, i, side)}
         /\ ~ (edit.lines[i].mark = ChangeMark(side) /\ ~ OldFile(edit.lines[i])) =>
              ReadUpTo(edit, i, side) = ReadUpTo(edit, i - 1, side)
<1>1. \A j : j \in 1..i <=> j \in 1..(i - 1) \/ j = i
  OBVIOUS
<1>2. CASE edit.lines[i].mark = ChangeMark(side) /\ ~ OldFile(edit.lines[i])
  <2>1. Changed(edit, i, side) = Changed(edit, i - 1, side) \cup {i}
    BY <1>1, <1>2 DEF Changed
  <2> QED
    BY <1>2, <2>1 DEF ReadUpTo
<1>3. CASE ~ (edit.lines[i].mark = ChangeMark(side) /\ ~ OldFile(edit.lines[i]))
  <2>1. Changed(edit, i, side) = Changed(edit, i - 1, side)
    BY <1>1, <1>3 DEF Changed
  <2> QED
    BY <1>3, <2>1 DEF ReadUpTo
<1> QED
  BY <1>2, <1>3

(* How far the scan is after i lines of an edit, whose file it opened as   *)
(* start.                                                                  *)
Within(edit, i, start, scan) ==
  /\ scan \in ScanStates /\ scan.current = start.current
  /\ i > 0 => /\ scan.left = Following(edit, i, "LEFT")
              /\ scan.right = Following(edit, i, "RIGHT")
  /\ DOMAIN scan.files = DOMAIN start.files
  /\ \A p \in DOMAIN start.files \ {start.current} : scan.files[p] = start.files[p]
  /\ scan.files[start.current].left =
       start.files[start.current].left \cup ReadUpTo(edit, i, "LEFT")
  /\ scan.files[start.current].right =
       start.files[start.current].right \cup ReadUpTo(edit, i, "RIGHT")

LEMMA OneLineOfEdit ==
  ASSUME NEW edit \in Edits, Hunked(edit), NEW i \in 1..Len(edit.lines),
         ~ NewFile(edit.lines[i]),
         NEW start, start.current \in DOMAIN start.files, start.current # NoPath,
         NEW scan, Within(edit, i - 1, start, scan)
  PROVE  Within(edit, i, start, ScanLine(scan, edit.lines[i]))
<1> DEFINE line == edit.lines[i]
           c == start.current
           next == ScanLine(scan, line)
           removed == line.mark = "-" /\ ~ OldFile(line)
<1>1. /\ line \in Lines /\ i \in Nat \ {0} /\ ~ NewFile(line)
      /\ line.mark \in Marks \/ line.mark = "hunk"
      /\ DiffLine(line)
  <2>1. line \in Lines /\ i \in Nat \ {0} /\ ~ NewFile(line)
    BY DEF Edits
  <2> QED
    BY <2>1, EditLineType
<1>2. /\ scan \in ScanStates /\ scan.current = c
      /\ scan.files \in [DOMAIN scan.files -> FileSets] /\ c \in DOMAIN scan.files
      /\ DOMAIN scan.files = DOMAIN start.files
      /\ scan.left \in Int /\ scan.right \in Int
  <2>1. scan \in ScanStates /\ scan.files \in Files
    BY DEF Within, ScanStates
  <2> QED
    BY <2>1, FilesType DEF Within, ScanStates
<1>3. next \in ScanStates
  BY <1>1, <1>2, ScanLineType
<1> DEFINE fl == Following(edit, i, "LEFT")
           fr == Following(edit, i, "RIGHT")
<1>4. line.mark # "hunk" =>
        /\ NumberRead(edit, i, "LEFT") = scan.left /\ NumberRead(edit, i, "RIGHT") = scan.right
        /\ MovesOn(line, "LEFT") => fl = scan.left + 1
        /\ ~ MovesOn(line, "LEFT") => fl = scan.left
        /\ MovesOn(line, "RIGHT") => fr = scan.right + 1
        /\ ~ MovesOn(line, "RIGHT") => fr = scan.right
  <2> SUFFICES ASSUME line.mark # "hunk"
               PROVE  /\ NumberRead(edit, i, "LEFT") = scan.left
                      /\ NumberRead(edit, i, "RIGHT") = scan.right
                      /\ MovesOn(line, "LEFT") => fl = scan.left + 1
                      /\ ~ MovesOn(line, "LEFT") => fl = scan.left
                      /\ MovesOn(line, "RIGHT") => fr = scan.right + 1
                      /\ ~ MovesOn(line, "RIGHT") => fr = scan.right
    OBVIOUS
  <2>1. i - 1 \in Nat \ {0}
    BY FollowingGrows
  <2>2. /\ scan.left = Following(edit, i - 1, "LEFT")
        /\ scan.right = Following(edit, i - 1, "RIGHT")
    BY <2>1 DEF Within
  <2> QED
    BY <2>2, FollowingGrows DEF NumberRead
<1>5. line.mark = "hunk" => fl = line.left /\ fr = line.right
  BY FollowingGrows DEF StartOf
<1>7. /\ removed => ReadUpTo(edit, i, "LEFT") = ReadUpTo(edit, i - 1, "LEFT") \cup {scan.left}
      /\ ~ removed => ReadUpTo(edit, i, "LEFT") = ReadUpTo(edit, i - 1, "LEFT")
      /\ line.mark = "+" =>
           ReadUpTo(edit, i, "RIGHT") = ReadUpTo(edit, i - 1, "RIGHT") \cup {scan.right}
      /\ line.mark # "+" => ReadUpTo(edit, i, "RIGHT") = ReadUpTo(edit, i - 1, "RIGHT")
  <2>1. line.mark = "+" => ~ OldFile(line)
    BY DEF OldFile
  <2>2. ChangeMark("LEFT") = "-" /\ ChangeMark("RIGHT") = "+"
    BY DEF ChangeMark
  <2>3. /\ removed => line.mark # "hunk"
        /\ line.mark = "+" => line.mark # "hunk"
    OBVIOUS
  <2>4. /\ removed => ReadUpTo(edit, i, "LEFT") =
                        ReadUpTo(edit, i - 1, "LEFT") \cup {NumberRead(edit, i, "LEFT")}
        /\ ~ removed => ReadUpTo(edit, i, "LEFT") = ReadUpTo(edit, i - 1, "LEFT")
    BY <1>1, <2>2, ReadGrows
  <2>5. /\ line.mark = "+" => ReadUpTo(edit, i, "RIGHT") =
                        ReadUpTo(edit, i - 1, "RIGHT") \cup {NumberRead(edit, i, "RIGHT")}
        /\ line.mark # "+" => ReadUpTo(edit, i, "RIGHT") = ReadUpTo(edit, i - 1, "RIGHT")
    BY <1>1, <2>1, <2>2, ReadGrows
  <2> QED
    BY <1>4, <2>3, <2>4, <2>5
<1>8. /\ \A p \in DOMAIN start.files \ {c} : scan.files[p] = start.files[p]
      /\ scan.files[c].left = start.files[c].left \cup ReadUpTo(edit, i - 1, "LEFT")
      /\ scan.files[c].right = start.files[c].right \cup ReadUpTo(edit, i - 1, "RIGHT")
  BY DEF Within
<1>9. AdvancingMarks("LEFT") = {" ", "-", "note"} /\ AdvancingMarks("RIGHT") = {" ", "+", "note"}
  BY DEF AdvancingMarks
<1> HIDE DEF line, next, c, fl, fr, removed
<1> SUFFICES /\ next.current = c
             /\ next.left = fl /\ next.right = fr
             /\ DOMAIN next.files = DOMAIN scan.files
             /\ \A p \in DOMAIN scan.files \ {c} : next.files[p] = scan.files[p]
             /\ next.files[c].left =
                  scan.files[c].left \cup IF removed THEN {scan.left} ELSE {}
             /\ next.files[c].right =
                  scan.files[c].right \cup IF line.mark = "+" THEN {scan.right} ELSE {}
  <2>1. next.files[c].left = start.files[c].left \cup ReadUpTo(edit, i, "LEFT")
    BY <1>7, <1>8
  <2>2. next.files[c].right = start.files[c].right \cup ReadUpTo(edit, i, "RIGHT")
    BY <1>7, <1>8
  <2> QED
    BY <1>2, <1>3, <1>8, <2>1, <2>2 DEF Within, next, c, line, fl, fr
<1>10. scan.current # NoPath
  BY <1>2 DEF c
<1>11. CASE line.mark = "+"
  <2> DEFINE files == [scan.files EXCEPT ![c].right = @ \cup {scan.right}]
  <2>1. next = State(files, c, scan.pending, scan.left, scan.right + 1)
    <3>1. PlainText(line)
      BY <1>1, <1>11 DEF PlainText, OldFile
    <3>2. next = State([scan.files EXCEPT ![scan.current].right = @ \cup {scan.right}],
                       scan.current, scan.pending, scan.left, scan.right + 1)
      BY <1>2, <1>10, <1>11, <3>1, ScanLineEffect DEF next
    <3> QED
      BY <1>2, <3>2
  <2>2. /\ next.files = files /\ next.current = c
        /\ next.left = scan.left /\ next.right = scan.right + 1
    BY <2>1 DEF State
  <2>3. ~ MovesOn(line, "LEFT") /\ MovesOn(line, "RIGHT")
    BY <1>9, <1>11 DEF MovesOn, OldFile
  <2>4. /\ DOMAIN files = DOMAIN scan.files
        /\ \A p \in DOMAIN scan.files \ {c} : files[p] = scan.files[p]
        /\ files[c].left = scan.files[c].left
        /\ files[c].right = scan.files[c].right \cup {scan.right}
    BY <1>2 DEF FileSets
  <2>5. next.left = fl /\ next.right = fr
    BY <1>4, <1>11, <2>2, <2>3
  <2> QED
    BY <1>11, <2>2, <2>4, <2>5 DEF removed
<1>12. CASE removed
  <2> DEFINE files == [scan.files EXCEPT ![c].left = @ \cup {scan.left}]
  <2>1. next = State(files, c, scan.pending, scan.left + 1, scan.right)
    <3>1. PlainText(line) /\ line.mark = "-"
      BY <1>1, <1>12 DEF PlainText, removed, Marks
    <3>2. next = State([scan.files EXCEPT ![scan.current].left = @ \cup {scan.left}],
                       scan.current, scan.pending, scan.left + 1, scan.right)
      BY <1>2, <1>10, <3>1, ScanLineEffect DEF next
    <3> QED
      BY <1>2, <3>2
  <2>2. /\ next.files = files /\ next.current = c
        /\ next.left = scan.left + 1 /\ next.right = scan.right
    BY <2>1 DEF State
  <2>3. MovesOn(line, "LEFT") /\ ~ MovesOn(line, "RIGHT") /\ line.mark = "-"
    BY <1>9, <1>12 DEF MovesOn, removed
  <2>4. /\ DOMAIN files = DOMAIN scan.files
        /\ \A p \in DOMAIN scan.files \ {c} : files[p] = scan.files[p]
        /\ files[c].right = scan.files[c].right
        /\ files[c].left = scan.files[c].left \cup {scan.left}
    BY <1>2 DEF FileSets
  <2>5. next.left = fl /\ next.right = fr
    BY <1>4, <2>2, <2>3
  <2> QED
    BY <1>12, <2>2, <2>3, <2>4, <2>5
<1>13. CASE line.mark \in {" ", "note"}
  <2>1. next = State(scan.files, c, scan.pending, scan.left + 1, scan.right + 1)
    <3>1. next = State(scan.files, scan.current, scan.pending, scan.left + 1, scan.right + 1)
      BY <1>2, <1>10, <1>13, ScanLineEffect DEF next
    <3> QED
      BY <1>2, <3>1
  <2>2. /\ next.files = scan.files /\ next.current = c
        /\ next.left = scan.left + 1 /\ next.right = scan.right + 1
    BY <2>1 DEF State
  <2>3. MovesOn(line, "LEFT") /\ MovesOn(line, "RIGHT")
    BY <1>9, <1>13 DEF MovesOn, OldFile
  <2>4. next.left = fl /\ next.right = fr
    BY <1>4, <1>13, <2>2, <2>3
  <2> QED
    BY <1>13, <2>2, <2>4 DEF removed
<1>14. CASE line.mark = "hunk"
  <2>1. next = State(scan.files, scan.current, scan.pending, line.left, line.right)
    BY <1>2, <1>14, ScanLineEffect DEF next
  <2>2. /\ next.files = scan.files /\ next.current = c
        /\ next.left = line.left /\ next.right = line.right
    BY <1>2, <2>1 DEF State
  <2> QED
    BY <1>5, <1>14, <2>2 DEF removed
<1>15. CASE OldFile(line)
  <2>1. next = State(scan.files, scan.current, line.names, scan.left, scan.right)
    BY <1>2, <1>15, ScanLineEffect DEF next
  <2>2. /\ next.files = scan.files /\ next.current = c
        /\ next.left = scan.left /\ next.right = scan.right
    BY <1>2, <2>1 DEF State
  <2>3. ~ MovesOn(line, "LEFT") /\ ~ MovesOn(line, "RIGHT") /\ line.mark = "-"
    BY <1>15 DEF MovesOn, OldFile
  <2>4. next.left = fl /\ next.right = fr
    BY <1>4, <2>2, <2>3
  <2> QED
    BY <1>15, <2>2, <2>3, <2>4 DEF removed
<1> QED
  BY <1>1, <1>11, <1>12, <1>13, <1>14, <1>15 DEF Marks, removed

LEMMA WholeEdit ==
  ASSUME NEW edit \in Edits, Hunked(edit), NoNewFile(edit), NEW start, start \in ScanStates,
         start.current \in DOMAIN start.files, start.current # NoPath,
         NEW c, c[0] = start,
         \A i \in 1..Len(edit.lines) : c[i] = ScanLine(c[i - 1], edit.lines[i])
  PROVE  Within(edit, Len(edit.lines), start, c[Len(edit.lines)])
<1> DEFINE m == Len(edit.lines)
           Good == {i \in Nat : i <= m => Within(edit, i, start, c[i])}
<1>1. m \in Nat /\ DOMAIN edit.lines = 1..m
  BY DEF Edits
<1>2. 0 \in Good
  <2>1. ReadUpTo(edit, 0, "LEFT") = {} /\ ReadUpTo(edit, 0, "RIGHT") = {}
    BY DEF ReadUpTo, Changed
  <2>2. Within(edit, 0, start, start)
    BY <2>1 DEF Within
  <2> QED
    BY <2>2
<1>3. ASSUME NEW i \in Nat, i \in Good PROVE i + 1 \in Good
  <2> SUFFICES ASSUME i + 1 <= m PROVE Within(edit, i + 1, start, c[i + 1])
    OBVIOUS
  <2> DEFINE j == i + 1
  <2>1. j \in 1..m /\ j - 1 = i /\ i <= m
    BY <1>1
  <2>2. Within(edit, i, start, c[i])
    BY <1>3, <2>1
  <2> HIDE DEF j
  <2>3. Within(edit, j - 1, start, c[j - 1]) /\ c[j] = ScanLine(c[j - 1], edit.lines[j])
    BY <2>1, <2>2
  <2>4. ~ NewFile(edit.lines[j])
    BY <1>1, <2>1 DEF NoNewFile
  <2>5. Within(edit, j, start, c[j])
    BY <2>1, <2>3, <2>4, OneLineOfEdit
  <2> QED
    BY <2>5 DEF j
<1> HIDE DEF Good
<1>4. m \in Good
  BY <1>1, <1>2, <1>3, NumberInduction
<1> QED
  BY <1>1, <1>4 DEF Good

(* What the scan has found after the first k edits: the files that have a  *)
(* hunk, each with the lines of its own edit.                              *)
TextEdits(change, k) == {j \in 1..k : ~ change[j].binary}

EditsRead(change, k, scan) ==
  /\ scan \in ScanStates
  /\ DOMAIN scan.files = {PathOf(change[j]) : j \in TextEdits(change, k)}
  /\ \A j \in TextEdits(change, k) :
       /\ scan.files[PathOf(change[j])].left = ReadUpTo(change[j], Len(change[j].lines), "LEFT")
       /\ scan.files[PathOf(change[j])].right = ReadUpTo(change[j], Len(change[j].lines), "RIGHT")

(* A file of which the diff has no hunk is passed over. *)
LEMMA BinaryPassed ==
  ASSUME NEW s0 \in ScanStates, NEW l1, l1.mark = "header", NEW l2, l2.mark = "binary",
         NEW s1, s1 = ScanLine(s0, l1), NEW s2, s2 = ScanLine(s1, l2)
  PROVE  s2 \in ScanStates /\ s2.files = s0.files
<1>1. s1 = s0
  BY ScanLineEffect
<1>2. s2 \in ScanStates
  BY <1>1, ScanLineType DEF DiffLine
<1>3. CASE s0.current = NoPath
  <2>1. ScanLine(s0, l2) = s0
    BY <1>3, ScanLineEffect DEF PlainText, OldFile, NewFile
  <2> QED
    BY <1>1, <1>2, <2>1
<1>4. CASE s0.current # NoPath
  <2>1. ScanLine(s0, l2) = State(s0.files, s0.current, s0.pending, s0.left + 1, s0.right + 1)
    BY <1>4, ScanLineEffect
  <2> QED
    BY <1>1, <1>2, <2>1 DEF State
<1> QED
  BY <1>3, <1>4

LEMMA NewFileScanned ==
  ASSUME NEW scan \in ScanStates, NEW line, NewFile(line), NEW path,
         path = IF line.names = DevNull /\ scan.pending # NoPath THEN scan.pending ELSE line.names
  PROVE  ScanLine(scan, line) = State(Listed(scan.files, path), path, NoPath, scan.left, scan.right)
BY ScanLineEffect, ZenonT(40)

(* The headers of an edit open its file. *)
LEMMA FileOpened ==
  ASSUME NEW edit \in Edits, NEW s0 \in ScanStates,
         NEW l1, l1.mark = "header",
         NEW l2, l2 = FileLine("-", edit.old),
         NEW l3, l3 = FileLine("+", edit.new),
         NEW s1, s1 = ScanLine(s0, l1), NEW s2, s2 = ScanLine(s1, l2),
         NEW s3, s3 = ScanLine(s2, l3)
  PROVE  /\ s3 \in ScanStates /\ s3.files = Listed(s0.files, PathOf(edit))
         /\ s3.current = PathOf(edit)
<1>1. /\ PathOf(edit) \in Paths /\ edit.old \in Paths /\ edit.new \in Paths
      /\ edit.old # NoPath /\ edit.new # NoPath
  BY DEF Edits, PathOf, Paths
<1>2. /\ OldFile(l2) /\ l2.names = edit.old /\ DiffLine(l2)
      /\ NewFile(l3) /\ l3.names = edit.new /\ DiffLine(l3)
  BY <1>1 DEF DiffLine, FileLine, OldFile, NewFile, Marks, Paths
<1>3. s1 = s0
  BY ScanLineEffect
<1>4. s2 \in ScanStates
  BY <1>2, <1>3, ScanLineType
<1>5. s2.files = s0.files /\ s2.pending = edit.old
  <2>1. ScanLine(s0, l2) = State(s0.files, s0.current, l2.names, s0.left, s0.right)
    BY <1>2, ScanLineEffect
  <2> QED
    BY <1>2, <1>3, <2>1 DEF State
<1>6. s3 \in ScanStates
  BY <1>2, <1>4, ScanLineType
<1>7. s3.files = Listed(s0.files, PathOf(edit)) /\ s3.current = PathOf(edit)
  <2> DEFINE path == IF l3.names = DevNull /\ s2.pending # NoPath THEN s2.pending ELSE l3.names
  <2>1. path = PathOf(edit)
    BY <1>1, <1>2, <1>5 DEF PathOf
  <2>2. ScanLine(s2, l3) = State(Listed(s2.files, path), path, NoPath, s2.left, s2.right)
    BY <1>2, <1>4, NewFileScanned
  <2> QED
    BY <1>5, <2>1, <2>2 DEF State
<1> QED
  BY <1>6, <1>7

(* An edit with hunks adds its own file. *)
LEMMA TextRead ==
  ASSUME NEW edit \in Edits, ~ edit.binary, Hunked(edit), NoNewFile(edit),
         NEW c, c[0] \in ScanStates,
         PathOf(edit) \notin DOMAIN c[0].files,
         \A i \in 1..Len(RenderEdit(edit)) : c[i] = ScanLine(c[i - 1], RenderEdit(edit)[i]),
         NEW end, end = c[Len(RenderEdit(edit))]
  PROVE  /\ end \in ScanStates
         /\ DOMAIN end.files = DOMAIN c[0].files \cup {PathOf(edit)}
         /\ \A p \in DOMAIN c[0].files : end.files[p] = c[0].files[p]
         /\ end.files[PathOf(edit)].left = ReadUpTo(edit, Len(edit.lines), "LEFT")
         /\ end.files[PathOf(edit)].right = ReadUpTo(edit, Len(edit.lines), "RIGHT")
<1> DEFINE lines == RenderEdit(edit)
           path == PathOf(edit)
           m == Len(edit.lines)
<1>1. path \in Paths /\ m \in Nat
  <2>1. edit.lines \in Seq(Lines)
    BY DEF Edits
  <2> QED
    BY <2>1 DEF Edits, PathOf
<1>2. lines[1].mark = "header"
  BY RenderedEdit
<1>3. /\ Len(lines) = 3 + m
      /\ lines[2] = FileLine("-", edit.old)
      /\ lines[3] = FileLine("+", edit.new)
  BY RenderedEdit
<1>4. \A i \in 1..m : lines[3 + i] = edit.lines[i]
  BY RenderedEdit
<1>5. \A i \in 1..Len(lines) : c[i] = ScanLine(c[i - 1], lines[i])
  OBVIOUS
<1> HIDE DEF lines
<1> DEFINE s0 == c[0]
           start == c[3]
<1>6. /\ c[1] = ScanLine(s0, lines[1]) /\ c[2] = ScanLine(c[1], lines[2])
      /\ start = ScanLine(c[2], lines[3])
  <2>1. 1 \in 1..Len(lines) /\ 2 \in 1..Len(lines) /\ 3 \in 1..Len(lines)
    BY <1>1, <1>3
  <2>2. 1 - 1 = 0 /\ 2 - 1 = 1 /\ 3 - 1 = 2
    OBVIOUS
  <2> QED
    BY <1>5, <2>1, <2>2
<1>7. s0 \in ScanStates /\ s0.files \in Files /\ path \notin DOMAIN s0.files
  BY DEF ScanStates
<1> HIDE DEF m
<1>8. start \in ScanStates /\ start.files = Listed(s0.files, path) /\ start.current = path
  <2> HIDE DEF start, s0, path
  <2> DEFINE l1 == lines[1]
             l2 == lines[2]
             l3 == lines[3]
             s1 == c[1]
             s2 == c[2]
  <2>1. l1.mark = "header" /\ l2 = FileLine("-", edit.old) /\ l3 = FileLine("+", edit.new)
    BY <1>2, <1>3
  <2>2. s1 = ScanLine(s0, l1) /\ s2 = ScanLine(s1, l2) /\ start = ScanLine(s2, l3)
    BY <1>6
  <2> HIDE DEF l1, l2, l3, s1, s2
  <2> QED
    BY <1>7, <2>1, <2>2, FileOpened DEF path
<1> HIDE DEF s0, path
<1>9. /\ DOMAIN start.files = DOMAIN s0.files \cup {path}
      /\ \A p \in DOMAIN s0.files : start.files[p] = s0.files[p] /\ p # path
      /\ start.files[path] = Untouched
  <2> DEFINE files == s0.files
  <2>1. files \in Files /\ path \notin DOMAIN files /\ start.files = Listed(files, path)
    BY <1>7, <1>8
  <2> HIDE DEF start, files
  <2>2. /\ DOMAIN Listed(files, path) = DOMAIN files \cup {path}
        /\ \A p \in DOMAIN files : Listed(files, path)[p] = files[p]
        /\ Listed(files, path)[path] = Untouched
    BY <1>1, <2>1, ListedType
  <2> QED
    BY <2>1, <2>2 DEF files
<1> DEFINE d == [i \in 0..m |-> c[3 + i]]
<1>10. d[0] = start /\ d[m] = c[3 + m]
  BY <1>1
<1>11. ASSUME NEW i \in 1..m PROVE d[i] = ScanLine(d[i - 1], edit.lines[i])
  <2>1. /\ 3 + i \in 1..(3 + m) /\ (3 + i) - 1 = 3 + (i - 1)
        /\ i \in 0..m /\ i - 1 \in 0..m
    BY <1>1
  <2>2. c[3 + i] = ScanLine(c[(3 + i) - 1], lines[3 + i])
    BY <1>3, <1>5, <2>1
  <2> QED
    BY <1>4, <2>1, <2>2
<1> HIDE DEF d, start
<1>12. Within(edit, m, start, d[m])
  <2>1. start.current \in DOMAIN start.files /\ start.current # NoPath
    BY <1>1, <1>8, <1>9 DEF Paths
  <2>2. \A i \in 1..Len(edit.lines) : d[i] = ScanLine(d[i - 1], edit.lines[i])
    BY <1>11 DEF m
  <2> QED
    BY <1>8, <1>10, <2>1, <2>2, WholeEdit DEF m
<1>13. end = d[m]
  BY <1>3, <1>10 DEF lines
<1>14. Within(edit, m, start, end)
  BY <1>12, <1>13
<1>15. /\ end \in ScanStates
       /\ DOMAIN end.files = DOMAIN start.files
       /\ \A p \in DOMAIN start.files \ {path} : end.files[p] = start.files[p]
       /\ end.files[path].left = start.files[path].left \cup ReadUpTo(edit, m, "LEFT")
       /\ end.files[path].right = start.files[path].right \cup ReadUpTo(edit, m, "RIGHT")
  BY <1>8, <1>14 DEF Within
<1>16. /\ end.files[path].left = ReadUpTo(edit, m, "LEFT")
       /\ end.files[path].right = ReadUpTo(edit, m, "RIGHT")
  BY <1>9, <1>15 DEF Untouched
<1>17. \A p \in DOMAIN s0.files : end.files[p] = s0.files[p]
  BY <1>9, <1>15
<1> QED
  BY <1>9, <1>15, <1>16, <1>17 DEF s0, path, m

(* What Diffable and the legibility of the files say of one edit. *)
LEMMA TextEdit ==
  ASSUME NEW change, Diffable(change), NEW k \in DOMAIN change, ~ change[k].binary
  PROVE  Hunked(change[k]) /\ (FilesLegible(change) => NoNewFile(change[k]))
BY DEF Diffable, Hunked, FilesLegible, NoNewFile

LEMMA OneEdit ==
  ASSUME NEW change, Diffable(change), FilesLegible(change), NEW k \in 1..Len(change),
         NEW c, EditsRead(change, k - 1, c[0]),
         \A i \in 1..Len(RenderEdit(change[k])) :
           c[i] = ScanLine(c[i - 1], RenderEdit(change[k])[i])
  PROVE  EditsRead(change, k, c[Len(RenderEdit(change[k]))])
<1> DEFINE edit == change[k]
           path == PathOf(edit)
           m == Len(edit.lines)
           end == c[Len(RenderEdit(edit))]
<1>1. /\ edit \in Edits /\ k \in Nat \ {0}
      /\ \A j \in 1..k : j = k \/ j \in 1..(k - 1)
      /\ \A j \in 1..(k - 1) : j \in 1..k /\ j # k /\ j \in DOMAIN change
      /\ k \in DOMAIN change /\ k \in 1..k
  BY ChangeType
<1>2. c[0] \in ScanStates
  BY DEF EditsRead
<1>3. \A j \in 1..(k - 1) : PathOf(change[j]) # path
  BY <1>1 DEF Diffable
<1>4. \A i \in 1..Len(RenderEdit(edit)) : c[i] = ScanLine(c[i - 1], RenderEdit(edit)[i])
  OBVIOUS
<1>11. ~ edit.binary => Hunked(edit) /\ NoNewFile(edit)
  BY <1>1, TextEdit
<1> HIDE DEF edit, path, m
<1>5. CASE edit.binary
  <2>1. Len(RenderEdit(edit)) = 2 /\ RenderEdit(edit)[2].mark = "binary"
    <3>1. RenderEdit(edit)[2] = [mark |-> "binary", old |-> edit.old, new |-> edit.new]
      BY <1>1, <1>5, RenderedEdit
    <3>2. Len(RenderEdit(edit)) = 2
      BY <1>1, <1>5, RenderedEdit
    <3> QED
      BY <3>1, <3>2
  <2>2. RenderEdit(edit)[1].mark = "header"
    BY <1>1, RenderedEdit
  <2>3. c[1] = ScanLine(c[0], RenderEdit(edit)[1]) /\ c[2] = ScanLine(c[1], RenderEdit(edit)[2])
    <3>1. 1 \in 1..2 /\ 2 \in 1..2 /\ 1 - 1 = 0 /\ 2 - 1 = 1
      OBVIOUS
    <3> QED
      BY <1>4, <2>1, <3>1
  <2> DEFINE s0 == c[0]
             s1 == c[1]
             s2 == c[2]
             l1 == RenderEdit(edit)[1]
             l2 == RenderEdit(edit)[2]
  <2>4. s2 \in ScanStates /\ s2.files = s0.files
    <3>1. /\ s0 \in ScanStates /\ l1.mark = "header" /\ l2.mark = "binary"
          /\ s1 = ScanLine(s0, l1) /\ s2 = ScanLine(s1, l2)
      BY <1>2, <2>1, <2>2, <2>3
    <3> HIDE DEF s0, s1, s2, l1, l2
    <3> QED
      BY <3>1, BinaryPassed
  <2>5. TextEdits(change, k) = TextEdits(change, k - 1)
    BY <1>1, <1>5 DEF TextEdits, edit
  <2>6. EditsRead(change, k, c[2])
    BY <1>2, <2>4, <2>5 DEF EditsRead
  <2> QED
    BY <2>1, <2>6 DEF edit
<1>6. CASE ~ edit.binary
  <2>1. path \notin DOMAIN c[0].files
    BY <1>3 DEF EditsRead, TextEdits
  <2> HIDE DEF end
  <2>2. /\ end \in ScanStates
        /\ DOMAIN end.files = DOMAIN c[0].files \cup {path}
        /\ \A p \in DOMAIN c[0].files : end.files[p] = c[0].files[p]
        /\ end.files[path].left = ReadUpTo(edit, m, "LEFT")
        /\ end.files[path].right = ReadUpTo(edit, m, "RIGHT")
    BY <1>1, <1>2, <1>4, <1>6, <1>11, <2>1, TextRead DEF path, m, end
  <2>3. TextEdits(change, k) = TextEdits(change, k - 1) \cup {k}
    BY <1>1, <1>6 DEF TextEdits, edit
  <2>4. DOMAIN end.files = {PathOf(change[j]) : j \in TextEdits(change, k)}
    BY <2>2, <2>3 DEF EditsRead, path, edit
  <2>5. ASSUME NEW j \in TextEdits(change, k)
        PROVE  /\ end.files[PathOf(change[j])].left
                    = ReadUpTo(change[j], Len(change[j].lines), "LEFT")
               /\ end.files[PathOf(change[j])].right
                    = ReadUpTo(change[j], Len(change[j].lines), "RIGHT")
    <3>1. CASE j = k
      BY <2>2, <3>1 DEF path, edit, m
    <3>2. CASE j # k
      <4>1. j \in TextEdits(change, k - 1)
        BY <2>3, <3>2
      <4>2. PathOf(change[j]) \in DOMAIN c[0].files
        BY <4>1 DEF EditsRead
      <4> QED
        BY <2>2, <4>1, <4>2 DEF EditsRead
    <3> QED
      BY <3>1, <3>2
  <2>6. EditsRead(change, k, end)
    BY <2>2, <2>4, <2>5 DEF EditsRead
  <2> QED
    BY <2>6 DEF end, edit
<1> QED
  BY <1>5, <1>6

(* If no line passes for the header of another file, the index has the     *)
(* files of the text edits, each with lines of its own edit, under the     *)
(* numbers the scan reads.                                                 *)
Text(change) == TextEdits(change, Len(change))

IndexHas(index, change) ==
  /\ DOMAIN index = {PathOf(change[j]) : j \in Text(change)}
  /\ \A j \in Text(change) :
       /\ index[PathOf(change[j])].left = ReadUpTo(change[j], Len(change[j].lines), "LEFT")
       /\ index[PathOf(change[j])].right = ReadUpTo(change[j], Len(change[j].lines), "RIGHT")

LEMMA IndexOfDiff ==
  ASSUME NEW change, Diffable(change), FilesLegible(change)
  PROVE  IndexHas(IndexDiff(Render(change)), change)
<1> DEFINE n == Len(change)
           diff == Render(change)
<1>1. PICK at : Layout(at, change)
  BY DiffLayout
<1>2. PICK b : Scans(b, diff)
  <2>1. \A line \in LinesOf(change) : DiffLine(line)
    BY LinesOfDiff
  <2>2. diff \in Seq(LinesOf(change))
    BY <1>1 DEF Layout
  <2> HIDE DEF diff
  <2> QED
    BY <2>1, <2>2, IndexScans
<1>3. n \in Nat /\ Len(diff) \in Nat /\ DOMAIN change = 1..n
  <2>1. diff \in Seq(LinesOf(change))
    BY <1>1 DEF Layout
  <2> QED
    BY <2>1, ChangeType
<1> DEFINE Good == {k \in Nat : k <= n => EditsRead(change, k, b[at[k]])}
<1>4. 0 \in Good
  <2>1. b[at[0]] = Scan
    BY <1>1, <1>2 DEF Layout, Scans
  <2>2. TextEdits(change, 0) = {}
    BY DEF TextEdits
  <2>4. EditsRead(change, 0, Scan)
    BY <2>2, NothingScanned DEF EditsRead
  <2> QED
    BY <2>1, <2>4
<1>5. ASSUME NEW j \in Nat, j \in Good PROVE j + 1 \in Good
  <2> SUFFICES ASSUME j + 1 <= n PROVE EditsRead(change, j + 1, b[at[j + 1]])
    OBVIOUS
  <2> DEFINE k == j + 1
  <2>1. k \in 1..n /\ k - 1 = j /\ j <= n /\ j \in 0..n /\ k \in 0..n
    BY <1>3
  <2> HIDE DEF k
  <2> DEFINE m == Len(RenderEdit(change[k]))
             c == [i \in 0..m |-> b[at[j] + i]]
  <2>2. /\ at[j] \in Nat /\ at[k] \in Nat /\ at[k] <= Len(diff) /\ at[k] = at[j] + m
        /\ m \in Nat
        /\ \A i \in 1..m : diff[at[j] + i] = RenderEdit(change[k])[i]
    <3>1. /\ at[k] = at[j] + m /\ \A i \in 1..m : diff[at[j] + i] = RenderEdit(change[k])[i]
          /\ at[j] \in 0..Len(diff) /\ at[k] \in 0..Len(diff)
      BY <1>1, <2>1 DEF Layout
    <3>2. m \in Nat
      <4>1. RenderEdit(change[k]) \in Seq(ToSet(RenderEdit(change[k])))
        BY <2>1, ChangeType, RenderedEdit
      <4> QED
        BY <4>1
    <3> QED
      BY <1>3, <3>1, <3>2
  <2> HIDE DEF m, diff
  <2>3. c[0] = b[at[j]] /\ c[m] = b[at[k]]
    BY <2>2
  <2>4. ASSUME NEW i \in 1..m PROVE c[i] = ScanLine(c[i - 1], RenderEdit(change[k])[i])
    <3>1. /\ i \in 0..m /\ i - 1 \in 0..m /\ at[j] + i \in 1..Len(diff)
          /\ (at[j] + i) - 1 = at[j] + (i - 1)
      BY <1>3, <2>2, SMTT(30)
    <3>2. b[at[j] + i] = ScanLine(b[(at[j] + i) - 1], diff[at[j] + i])
      BY <1>2, <3>1 DEF Scans
    <3> QED
      BY <2>2, <3>1, <3>2
  <2>5. EditsRead(change, k - 1, c[0])
    BY <1>5, <2>1, <2>3
  <2> HIDE DEF c
  <2>6. EditsRead(change, k, c[m])
    BY <2>1, <2>4, <2>5, OneEdit DEF m
  <2> QED
    BY <2>3, <2>6 DEF k
<1> HIDE DEF Good
<1>6. n \in Good
  BY <1>3, <1>4, <1>5, NumberInduction
<1>7. EditsRead(change, n, b[at[n]])
  BY <1>3, <1>6 DEF Good
<1>8. b[at[n]].files = IndexDiff(diff)
  BY <1>1, <1>2 DEF Layout, Scans
<1> QED
  BY <1>7, <1>8 DEF EditsRead, IndexHas, Text

---------------------------------------------------------------------------
(* The paths that are left out *)

BinaryPaths(change) == {PathOf(change[k]) : k \in {j \in DOMAIN change : change[j].binary}}

LEMMA BinaryLine ==
  ASSUME NEW edit \in Edits, NEW line \in ToSet(RenderEdit(edit))
  PROVE  line.mark = "binary" <=>
           edit.binary /\ line = [mark |-> "binary", old |-> edit.old, new |-> edit.new]
<1> DEFINE lines == RenderEdit(edit)
           m == Len(edit.lines)
<1>1. m \in Nat /\ \A i \in 1..m : edit.lines[i].mark # "binary"
  <2>1. edit.lines \in Seq(Lines)
    BY DEF Edits
  <2>2. m \in Nat /\ \A i \in 1..m : edit.lines[i] \in Lines
    BY <2>1
  <2>3. \A l \in Lines : l.mark # "binary"
    BY EditLineType DEF Marks
  <2> QED
    BY <2>2, <2>3
<1>2. PICK i \in 1..Len(lines) : line = lines[i]
  <2>1. lines \in Seq(ToSet(lines))
    BY RenderedEdit
  <2>2. DOMAIN lines = 1..Len(lines)
    BY <2>1
  <2> QED
    BY <2>2 DEF ToSet
<1>3. lines[1].mark = "header"
  BY RenderedEdit
<1>4. CASE edit.binary
  <2>1. Len(lines) = 2 /\ lines[2] = [mark |-> "binary", old |-> edit.old, new |-> edit.new]
    BY <1>4, RenderedEdit
  <2>2. i = 1 \/ i = 2
    BY <2>1
  <2> QED
    BY <1>2, <1>3, <1>4, <2>1, <2>2
<1>5. CASE ~ edit.binary
  <2>1. /\ Len(lines) = 3 + m
        /\ lines[2] = FileLine("-", edit.old) /\ lines[3] = FileLine("+", edit.new)
    BY <1>5, RenderedEdit
  <2>2. \A j \in 1..m : lines[3 + j] = edit.lines[j]
    BY <1>5, RenderedEdit
  <2> HIDE DEF lines, m
  <2>3. lines[2].mark = "-" /\ lines[3].mark = "+"
    BY <2>1 DEF FileLine
  <2>4. i = 1 \/ i = 2 \/ i = 3 \/ \E j \in 1..m : i = 3 + j
    <3>1. i \in 1..(3 + m) /\ m \in Nat
      BY <1>1, <2>1
    <3>2. CASE i > 3
      <4>1. i - 3 \in 1..m /\ i = 3 + (i - 3)
        BY <3>1, <3>2
      <4> QED
        BY <4>1
    <3>3. CASE ~ (i > 3)
      BY <3>1, <3>3
    <3> QED
      BY <3>2, <3>3
  <2>5. ASSUME NEW j \in 1..m, i = 3 + j PROVE line.mark # "binary"
    BY <1>1, <1>2, <2>2, <2>5
  <2> QED
    BY <1>2, <1>3, <1>5, <2>3, <2>4, <2>5
<1> QED
  BY <1>4, <1>5

LEMMA BinaryPathsOfDiff ==
  ASSUME NEW change, Diffable(change)
  PROVE  BinaryPathsFromDiff(Render(change)) = BinaryPaths(change)
<1> DEFINE diff == Render(change)
           Path(line) == IF line.new = DevNull THEN line.old ELSE line.new
<1>1. PICK at : Layout(at, change)
  BY DiffLayout
<1>2. /\ DOMAIN change = 1..Len(change) /\ \A k \in DOMAIN change : change[k] \in Edits
  BY ChangeType
<1>3. /\ diff \in Seq(LinesOf(change)) /\ DOMAIN diff = 1..Len(diff) /\ Len(diff) \in Nat
  <2>1. diff \in Seq(LinesOf(change))
    BY <1>1 DEF Layout
  <2> QED
    BY <2>1
<1>4. ASSUME NEW k \in DOMAIN change, NEW line,
             line = [mark |-> "binary", old |-> change[k].old, new |-> change[k].new]
      PROVE  Path(line) = PathOf(change[k])
  BY <1>4 DEF PathOf
<1>5. ASSUME NEW line \in ToSet(diff), line.mark = "binary"
      PROVE  \E k \in DOMAIN change : change[k].binary /\ Path(line) = PathOf(change[k])
  <2>1. PICK k \in DOMAIN change : line \in ToSet(RenderEdit(change[k]))
    <3>1. line \in LinesOf(change)
      BY <1>3 DEF ToSet
    <3> QED
      BY <3>1 DEF LinesOf
  <2> DEFINE edit == change[k]
  <2>2. edit \in Edits /\ line \in ToSet(RenderEdit(edit))
    BY <1>2, <2>1
  <2> HIDE DEF edit
  <2>3. edit.binary /\ line = [mark |-> "binary", old |-> edit.old, new |-> edit.new]
    BY <1>5, <2>2, BinaryLine
  <2>4. Path(line) = PathOf(edit)
    BY <1>4, <2>3 DEF edit
  <2> QED
    BY <2>3, <2>4 DEF edit
<1>6. ASSUME NEW k \in DOMAIN change, change[k].binary
      PROVE  \E line \in ToSet(diff) : line.mark = "binary" /\ Path(line) = PathOf(change[k])
  <2> DEFINE edit == change[k]
             line == diff[at[k - 1] + 2]
  <2>1. edit \in Edits /\ edit.binary
    BY <1>2, <1>6
  <2>2. Len(RenderEdit(edit)) = 2
    BY <2>1, RenderedEdit
  <2>3. RenderEdit(edit)[2] = [mark |-> "binary", old |-> edit.old, new |-> edit.new]
    BY <2>1, RenderedEdit
  <2>4. k \in 1..Len(change) /\ k \in 0..Len(change) /\ k - 1 \in 0..Len(change) /\ 2 \in 1..2
    BY <1>2, ChangeType
  <2>5. at[k] = at[k - 1] + 2 /\ at[k - 1] \in 0..Len(diff) /\ at[k] \in 0..Len(diff)
    BY <1>1, <2>2, <2>4 DEF Layout
  <2>6. line = RenderEdit(edit)[2]
    BY <1>1, <2>2, <2>4 DEF Layout
  <2>7. line \in ToSet(diff)
    <3>1. at[k - 1] + 2 \in 1..Len(diff)
      BY <1>3, <2>5
    <3> QED
      BY <1>3, <3>1 DEF ToSet
  <2> HIDE DEF line, edit
  <2>8. line.mark = "binary"
    BY <2>3, <2>6
  <2>9. Path(line) = PathOf(edit)
    BY <1>4, <2>3, <2>6 DEF edit
  <2> QED
    BY <2>7, <2>8, <2>9 DEF edit
<1>7. BinaryPathsFromDiff(diff) = {Path(line) : line \in {l \in ToSet(diff) : l.mark = "binary"}}
  BY DEF BinaryPathsFromDiff
<1> HIDE DEF diff, Path
<1> QED
  BY <1>5, <1>6, <1>7 DEF BinaryPaths, diff

(* The edits a review counts: those with hunks, of no declared path. *)
Counted(change) ==
  {k \in DOMAIN change : ~ change[k].binary /\ PathOf(change[k]) \notin Declared}

LEMMA ConsideredPaths ==
  ASSUME NEW change, Diffable(change), FilesLegible(change)
  PROVE  /\ DOMAIN IndexDiff(Render(change)) \ ExcludedPaths(Render(change))
              = {PathOf(change[k]) : k \in Counted(change)}
         /\ Counted(change) \subseteq Text(change)
<1> DEFINE diff == Render(change)
           index == IndexDiff(diff)
<1>1. DOMAIN index = {PathOf(change[k]) : k \in Text(change)}
  BY IndexOfDiff DEF IndexHas
<1>2. BinaryPathsFromDiff(diff) = BinaryPaths(change)
  BY BinaryPathsOfDiff
<1>3. DOMAIN change = 1..Len(change)
  BY ChangeType
<1>4. \A p : p \in ExcludedPaths(diff) <=>
        /\ p \in DOMAIN index \cup BinaryPaths(change)
        /\ p \in BinaryPaths(change) \cup Declared
  <2> DEFINE binary == BinaryPaths(change)
             Entry(p) ==
               [path |-> p, source |-> IF p \in binary THEN "vcs-binary" ELSE "declared-pattern"]
             chosen == {q \in DOMAIN index \cup binary : q \in binary \cup Declared}
  <2>1. ExcludedPaths(diff) = {entry.path : entry \in {Entry(p) : p \in chosen}}
    BY <1>2 DEF ExcludedPaths, ResolveExcludedPaths, ChangedPaths
  <2>2. \A p : Entry(p).path = p
    OBVIOUS
  <2> HIDE DEF Entry, chosen
  <2>3. ExcludedPaths(diff) = chosen
    BY <2>1, <2>2
  <2> QED
    BY <2>3 DEF chosen
<1> HIDE DEF index
<1>5. \A k \in Text(change) : PathOf(change[k]) \notin BinaryPaths(change)
  BY <1>3 DEF Text, TextEdits, BinaryPaths, Diffable
<1>6. \A k : k \in Counted(change) <=> k \in Text(change) /\ PathOf(change[k]) \notin Declared
  BY <1>3 DEF Text, TextEdits, Counted
<1>7. DOMAIN index \ ExcludedPaths(diff) = {PathOf(change[k]) : k \in Counted(change)}
  BY <1>1, <1>4, <1>5, <1>6
<1> QED
  BY <1>6, <1>7 DEF index

---------------------------------------------------------------------------
(* The lines a finding may be anchored to *)

LEMMA NumbersAgree ==
  ASSUME NEW change, Diffable(change), NEW k \in DOMAIN change, ~ change[k].binary,
         NEW side, Legible(change[k], side), NEW i \in 1..Len(change[k].lines),
         change[k].lines[i].mark = ChangeMark(side)
  PROVE  NumberRead(change[k], i, side) = LineNumber(change[k], i, side)
<1> DEFINE edit == change[k]
           m == Len(edit.lines)
<1>1. m \in Nat /\ DOMAIN edit.lines = 1..m
  <2>1. edit \in Edits
    BY ChangeType
  <2>2. edit.lines \in Seq(Lines)
    BY <2>1 DEF Edits
  <2> QED
    BY <2>2
<1>2. Hunked(edit) /\ Legible(edit, side) /\ i \in 1..m
  BY TextEdit
<1>3. edit.lines[i].mark = ChangeMark(side)
  OBVIOUS
<1> HIDE DEF edit, m
<1>4. edit.lines[i].mark # "hunk"
  BY <1>3 DEF ChangeMark
<1>5. i - 1 \in Nat \ {0} /\ HunkOf(edit, i) = HunkOf(edit, i - 1)
  BY <1>1, <1>2, <1>4, HunkOfNext
<1> DEFINE h == HunkOf(edit, i)
<1>6. h \in 1..i
  BY <1>1, <1>2, HunkOfLine
<1> HIDE DEF h
<1>7. ASSUME NEW j \in (h + 1)..(i - 1)
      PROVE  MovesOn(edit.lines[j], side) <=> edit.lines[j].mark \in {" ", ChangeMark(side)}
  <2>1. j \in 1..m /\ j \in 1..(i - 1) /\ i \in DOMAIN edit.lines /\ j \in DOMAIN edit.lines
    BY <1>1, <1>2, <1>6
  <2>2. edit.lines[j].mark # "note"
    BY <1>2, <1>3, <2>1 DEF Legible
  <2>3. edit.lines[j].mark = ChangeMark(side) => edit.lines[j].names = NoPath
    BY <1>2, <2>1 DEF Legible
  <2> QED
    BY <2>2, <2>3 DEF MovesOn, AdvancingMarks, ChangeMark, OldFile
<1>8. Passed(edit, h, i - 1, side) =
        {j \in (h + 1)..(i - 1) : edit.lines[j].mark \in {" ", ChangeMark(side)}}
  BY <1>7 DEF Passed
<1>9. NumberRead(edit, i, side) =
        StartOf(edit.lines[h], side) + Cardinality(Passed(edit, h, i - 1, side))
  BY <1>5 DEF NumberRead, Following, h
<1>10. LineNumber(edit, i, side) =
         StartOf(edit.lines[h], side)
           + Cardinality({j \in (h + 1)..(i - 1) :
                            edit.lines[j].mark \in {" ", ChangeMark(side)}})
  BY DEF LineNumber, h
<1> QED
  BY <1>8, <1>9, <1>10 DEF edit

(* The service takes a line for changed exactly if the change changes it,  *)
(* where it can read the edit of the file.                                 *)
LEMMA ChangedIsAddressable ==
  ASSUME NEW change, Diffable(change), FilesLegible(change), NEW location,
         \A k \in DOMAIN change :
           PathOf(change[k]) = location.path => Legible(change[k], location.side)
  PROVE  /\ IsAddressable(IndexDiff(Render(change)), location)
         /\ location.path \notin ExcludedPaths(Render(change))
         <=> TrulyChanged(change, location)
<1> DEFINE index == IndexDiff(Render(change))
           excluded == ExcludedPaths(Render(change))
           side == IF location.side = "RIGHT" THEN "RIGHT" ELSE "LEFT"
           Held(path) == IF side = "RIGHT" THEN index[path].right ELSE index[path].left
           n == Len(change)
           Here == {k \in Counted(change) : PathOf(change[k]) = location.path}
<1>1. /\ DOMAIN index \ excluded = {PathOf(change[k]) : k \in Counted(change)}
      /\ Counted(change) \subseteq Text(change)
  BY ConsideredPaths
<1>2. \A k \in DOMAIN change :
        DOMAIN change[k].lines = 1..Len(change[k].lines) /\ Len(change[k].lines) \in Nat
  <2> TAKE k \in DOMAIN change
  <2>1. change[k] \in Edits
    BY ChangeType
  <2>2. change[k].lines \in Seq(Lines)
    BY <2>1 DEF Edits
  <2> QED
    BY <2>2
<1>3. ASSUME NEW k \in Counted(change)
      PROVE  Held(PathOf(change[k])) = ReadUpTo(change[k], Len(change[k].lines), side)
  <2>1. k \in Text(change)
    BY <1>1
  <2> QED
    BY <2>1, IndexOfDiff DEF IndexHas
<1>4. \A k \in Here : /\ k \in DOMAIN change /\ ~ change[k].binary
                      /\ Legible(change[k], location.side)
  BY DEF Counted
<1>5. ChangeMark(side) = ChangeMark(location.side)
  BY DEF ChangeMark
<1>6. ASSUME NEW k \in Here PROVE Legible(change[k], side)
  BY <1>4, <1>5, <1>6 DEF Legible
<1>7. ASSUME NEW k \in Here, NEW i \in DOMAIN change[k].lines,
             change[k].lines[i].mark = ChangeMark(side)
      PROVE  NumberRead(change[k], i, side) = LineNumber(change[k], i, location.side)
  <2>1. i \in 1..Len(change[k].lines) /\ Legible(change[k], side)
    BY <1>2, <1>4, <1>6
  <2>2. NumberRead(change[k], i, side) = LineNumber(change[k], i, side)
    <3> HIDE DEF side, Here
    <3> QED
      BY <1>4, <1>7, <2>1, NumbersAgree
  <2>3. LineNumber(change[k], i, side) = LineNumber(change[k], i, location.side)
    BY DEF LineNumber, StartOf, ChangeMark
  <2> QED
    BY <2>2, <2>3
<1>8. (IsAddressable(index, location) /\ location.path \notin excluded) <=>
        location.path \in DOMAIN index \ excluded /\ location.line \in Held(location.path)
  BY DEF IsAddressable
<1>9. ASSUME NEW k \in Here
      PROVE  location.line \in ReadUpTo(change[k], Len(change[k].lines), side) <=>
               \E i \in DOMAIN change[k].lines :
                 /\ change[k].lines[i].mark = ChangeMark(side)
                 /\ location.line = LineNumber(change[k], i, location.side)
  <2>1. k \in DOMAIN change
    BY <1>4
  <2> DEFINE edit == change[k]
  <2>2. ASSUME NEW i \in DOMAIN edit.lines, edit.lines[i].mark = ChangeMark(side)
        PROVE  ~ OldFile(edit.lines[i])
    BY <1>6, <2>2 DEF Legible, OldFile
  <2>3. \A i : i \in Changed(edit, Len(edit.lines), side) <=>
           i \in DOMAIN edit.lines /\ edit.lines[i].mark = ChangeMark(side)
    BY <1>2, <2>1, <2>2 DEF Changed
  <2> HIDE DEF side, Here
  <2> QED
    BY <1>7, <2>1, <2>3 DEF ReadUpTo
<1>10. TrulyChanged(change, location) <=>
         \E k \in Here : \E i \in DOMAIN change[k].lines :
           /\ change[k].lines[i].mark = ChangeMark(side)
           /\ location.line = LineNumber(change[k], i, location.side)
  <2> HIDE DEF side
  <2> QED
    BY <1>5 DEF TrulyChanged, Counted
<1>11. \A k \in Here : k \in Counted(change) /\ PathOf(change[k]) = location.path
  OBVIOUS
<1>12. \A k \in Counted(change) : PathOf(change[k]) = location.path => k \in Here
  OBVIOUS
<1> HIDE DEF index, excluded, side, Held, Here
<1>13. TrulyChanged(change, location) <=>
         location.path \in DOMAIN index \ excluded /\ location.line \in Held(location.path)
  <2>1. location.path \in DOMAIN index \ excluded <=> \E k \in Here : TRUE
    BY <1>1, <1>11, <1>12
  <2>2. \A k \in Here : Held(location.path) = ReadUpTo(change[k], Len(change[k].lines), side)
    BY <1>3, <1>11
  <2> QED
    BY <1>9, <1>10, <2>1, <2>2
<1> QED
  BY <1>8, <1>13 DEF index, excluded

---------------------------------------------------------------------------
(* What a review reads, and the drafts it collects *)

DraftFields == {"role", "rule", "severity", "blocking", "location", "description"}

(* Whether a draft blocks does not depend on where it is placed. *)
Blocks(d) == CASE d.blocking = "yes" -> TRUE
               [] d.blocking = "no" -> FALSE
               [] d.blocking = "derived" -> IsBlocking(d.severity)

LEMMA PlacedDraft ==
  ASSUME NEW d, DOMAIN d = DraftFields, NEW location
  PROVE  LET f == CreateFinding([d EXCEPT !.location = location])
         IN  f.role = d.role /\ f.location = location /\ f.blocking = Blocks(d)
<1> DEFINE e == [d EXCEPT !.location = location]
<1>1. /\ e.role = d.role /\ e.location = location
      /\ e.blocking = d.blocking /\ e.severity = d.severity
  BY DEF DraftFields
<1> HIDE DEF e
<1>2. CreateFinding(e).blocking = Blocks(d)
  BY <1>1 DEF CreateFinding, Blocks
<1>3. CreateFinding(e).role = d.role /\ CreateFinding(e).location = location
  BY <1>1 DEF CreateFinding
<1> QED
  BY <1>2, <1>3 DEF e

LEMMA RaisedFinding ==
  ASSUME NEW held, \A d \in held : DOMAIN d = DraftFields, NEW index, NEW excluded, NEW f
  PROVE  f \in Raise(held, index, excluded) <=>
           \E d \in held :
             f = CreateFinding([d EXCEPT !.location = ResolveLocation(index, d.location, excluded)])
BY DEF Raise

LEMMA DraftHasFields ==
  ASSUME NEW role, NEW rule, NEW severity, NEW blocking, NEW location, NEW description
  PROVE  DOMAIN Draft(role, rule, severity, blocking, location, description) = DraftFields
BY DEF Draft, DraftFields

LEMMA RulesDraft ==
  ASSUME NEW diff, NEW excluded, NEW justified, NEW d \in ApplyRules(diff, excluded, justified)
  PROVE  DOMAIN d = DraftFields
<1>1. \A rule, blocking, location, description :
        DOMAIN RuleDraft(rule, blocking, location, description) = DraftFields
  BY DraftHasFields DEF RuleDraft
<1>2. \E rule, blocking, location, description :
        d = RuleDraft(rule, blocking, location, description)
  BY DEF ApplyRules, CheckDocumentation, CheckMinimality, CheckPullRequestSize
<1> QED
  BY <1>1, <1>2

LEMMA WhatIsRead ==
  ASSUME facts \in Scenes, NEW s \in Present
  PROVE  /\ Diffable(facts[s].change) /\ facts[s].justified \in BOOLEAN
         /\ Read(s) = Reading(facts[s].change)
<1>1. Diffable(facts[s].change) /\ facts[s].justified \in BOOLEAN
  BY ServiceAssumption, DiffAssumption DEF Present, Plausible
<1> DEFINE changes == UNION {{scene[q].change : q \in DOMAIN scene} : scene \in Scenes}
<1>2. facts[s].change \in changes
  BY DEF Present
<1>3. Readings = [change \in changes |-> Reading(change)]
  BY DEF Readings
<1> HIDE DEF changes
<1>4. Readings[facts[s].change] = Reading(facts[s].change)
  BY <1>2, <1>3
<1> QED
  BY <1>1, <1>4 DEF Read

LEMMA ReadingIs ==
  ASSUME NEW change, NEW justified \in BOOLEAN
  PROVE  /\ Reading(change).index = IndexDiff(Render(change))
         /\ Reading(change).excluded = ExcludedPaths(Render(change))
         /\ Reading(change).changedLines =
              ChangedLineCount(IndexDiff(Render(change)), ExcludedPaths(Render(change)))
         /\ Reading(change).rules[justified] =
              ApplyRules(Render(change), ExcludedPaths(Render(change)), justified)
BY DEF Reading

RulesOf(s) == Read(s).rules[facts[s].justified]

Obeyed(s) ==
  /\ ~ ExceedsReviewable(Read(s).changedLines)
  /\ \A d \in RulesOf(s) : ~ Blocks(d)

RulesApply == \E i \in DOMAIN RoleOrder : RoleOrder[i] = "implementation"

(* The steps at which the answers of the roles are still held *)
Speaking == {"roles", "reconcile", "report"}

(* What holds of a review r in slot s and of the drafts it has collected:  *)
(* once the implementation role has spoken its rules' drafts are there,    *)
(* whatever the model said, and a review that passes met none that blocks. *)
Kept(s, r, held) ==
  /\ \A d \in held : DOMAIN d = DraftFields
  /\ r.pc \in Admitted => ~ ExceedsReviewable(Read(s).changedLines)
  /\ r.pc \in Speaking /\ (\E i \in DOMAIN r.stated : RoleOrder[i] = "implementation")
       => RulesOf(s) \subseteq held
  /\ RulesApply /\ r.conclusion = "success" => Obeyed(s)

FindingInv == \A s \in Present : Kept(s, slot[s], drafts[s])

LEMMA OneSlotKept ==
  ASSUME ServiceInv, FindingInv, UNCHANGED facts, NEW s \in Present, NEW r, NEW held,
         slot' = [slot EXCEPT ![s] = r],
         \A q \in Slots : drafts'[q] = IF q = s THEN held ELSE drafts[q],
         Kept(s, r, held)
  PROVE  FindingInv'
<1>1. Present \subseteq Slots /\ Present' = Present
  BY PresentIsSlots DEF Present
<1>2. \A q \in Slots : slot'[q] = IF q = s THEN r ELSE slot[q]
  BY DEF ServiceInv, TypeOK
<1>3. ASSUME NEW q \in Present PROVE Kept(q, slot[q], drafts[q])'
  <2>1. CASE q = s
    BY <1>1, <1>2, <2>1 DEF Kept, RulesOf, Obeyed, Read
  <2>2. CASE q # s
    BY <1>1, <1>2, <2>2 DEF FindingInv, Kept, RulesOf, Obeyed, Read
  <2> QED
    BY <2>1, <2>2
<1> QED
  BY <1>1, <1>3 DEF FindingInv

(* A review that moves on and collects nothing. *)
LEMMA MovesKept ==
  ASSUME ServiceInv, FindingInv, UNCHANGED <<facts, drafts>>, NEW s \in Present, NEW r,
         slot' = [slot EXCEPT ![s] = r],
         r.conclusion = "success" => slot[s].conclusion = "success",
         r.pc \in Admitted =>
           slot[s].pc \in Admitted \/ ~ ExceedsReviewable(Read(s).changedLines),
         r.pc \in Speaking =>
           r.stated = <<>> \/ (slot[s].pc \in Speaking /\ r.stated = slot[s].stated)
  PROVE  FindingInv'
<1>1. Kept(s, slot[s], drafts[s])
  BY DEF FindingInv
<1>2. DOMAIN <<>> = {}
  OBVIOUS
<1>3. Kept(s, r, drafts[s])
  BY <1>1, <1>2 DEF Kept
<1>4. \A q \in Slots : drafts'[q] = IF q = s THEN drafts[s] ELSE drafts[q]
  OBVIOUS
<1> QED
  BY <1>3, <1>4, OneSlotKept

LEMMA ForgetsKept ==
  ASSUME ServiceInv, FindingInv, UNCHANGED facts, NEW s \in Present, NEW r,
         slot' = [slot EXCEPT ![s] = r], drafts' = [drafts EXCEPT ![s] = {}],
         r.conclusion = "success" => slot[s].conclusion = "success",
         r.pc \in {"idle", "ended"}
  PROVE  FindingInv'
<1>1. Kept(s, slot[s], drafts[s])
  BY DEF FindingInv
<1>2. Kept(s, r, {})
  BY <1>1 DEF Kept, Admitted, Speaking
<1>3. \A q \in Slots : drafts'[q] = IF q = s THEN {} ELSE drafts[q]
  BY PresentIsSlots DEF ServiceInv, TypeOK
<1> QED
  BY <1>2, <1>3, OneSlotKept

(* A role hands back its drafts, the rules' among them if they are its     *)
(* own; the last one ends in a verdict over all of them.                   *)
LEMMA EndRoleKept ==
  ASSUME ServiceInv, FindingInv, NEW s \in Present, slot[s].pc = "roles", UNCHANGED facts,
         NEW cost, NEW verdict, NEW proposals, EndRole(s, cost, verdict, proposals)
  PROVE  FindingInv'
<1> DEFINE stated == Append(slot[s].stated, verdict)
           held == drafts[s] \cup DraftsBy(s, RoleOf(s), proposals)
           findings == Raise(held, Read(s).index, Read(s).excluded)
           last == Len(stated) = Len(RoleOrder)
           r == [slot[s] EXCEPT !.tokens = slot[s].tokens + cost, !.stated = stated,
                                !.call = NewCall,
                                !.pc = IF last THEN "reconcile" ELSE "roles",
                                !.conclusion = IF last THEN Verdict(stated, findings) ELSE @]
           m == Len(slot[s].stated)
           kinds == {"approve", "request-changes", "missing"}
<1>1. /\ slot[s] \in Reviews /\ Holds(s, slot[s]) /\ facts \in Scenes /\ s \in Slots
      /\ slot[s].stated \in Seq(kinds)
  BY PresentIsSlots DEF ServiceInv, TypeOK, Reviews
<1>2. /\ slot' = [slot EXCEPT ![s] = r]
      /\ \A q \in Slots : drafts'[q] = IF q = s THEN held ELSE drafts[q]
  BY <1>1 DEF EndRole, ServiceInv, TypeOK
<1>3. m \in Nat /\ DOMAIN slot[s].stated = 1..m
  BY <1>1
<1>4. /\ Len(stated) = m + 1 /\ DOMAIN stated = 1..(m + 1)
  <2>1. \A sequence \in Seq(kinds) :
          /\ Len(Append(sequence, verdict)) = Len(sequence) + 1
          /\ DOMAIN Append(sequence, verdict) = 1..(Len(sequence) + 1)
    OBVIOUS
  <2> QED
    BY <1>1, <2>1
<1>5. Kept(s, slot[s], drafts[s]) /\ slot[s].conclusion = "none"
  BY <1>1 DEF FindingInv, Holds
<1> HIDE DEF stated, findings
<1>6. /\ r.stated = stated /\ r.pc = (IF last THEN "reconcile" ELSE "roles")
      /\ r.conclusion = IF last THEN Verdict(stated, findings) ELSE "none"
  BY <1>1, <1>5 DEF Reviews
<1> HIDE DEF r
<1>7. \A d \in RulesOf(s) : DOMAIN d = DraftFields
  <2>1. RulesOf(s) = ApplyRules(Render(facts[s].change), ExcludedPaths(Render(facts[s].change)),
                                facts[s].justified)
    BY <1>1, WhatIsRead, ReadingIs DEF RulesOf
  <2> QED
    BY <2>1, RulesDraft
<1>8. \A d \in held : DOMAIN d = DraftFields
  <2>1. \A d \in drafts[s] : DOMAIN d = DraftFields
    BY <1>5 DEF Kept
  <2>2. \A d \in DraftsBy(s, RoleOf(s), proposals) : DOMAIN d = DraftFields \/ d \in RulesOf(s)
    BY DraftHasFields DEF DraftsBy, RulesOf
  <2> QED
    BY <1>7, <2>1, <2>2
<1>9. (\E i \in DOMAIN stated : RoleOrder[i] = "implementation") => RulesOf(s) \subseteq held
  <2> SUFFICES ASSUME NEW i \in DOMAIN stated, RoleOrder[i] = "implementation"
               PROVE  RulesOf(s) \subseteq held
    OBVIOUS
  <2>1. CASE i = m + 1
    <3>1. RoleOf(s) = "implementation"
      BY <2>1 DEF RoleOf
    <3> QED
      BY <3>1 DEF DraftsBy, RulesOf
  <2>2. CASE i # m + 1
    <3>1. i \in DOMAIN slot[s].stated
      BY <1>3, <1>4, <2>2
    <3> QED
      BY <1>5, <3>1 DEF Kept, Speaking
  <2> QED
    BY <2>1, <2>2
<1>10. ASSUME RulesApply, r.conclusion = "success" PROVE Obeyed(s)
  <2>1. last /\ Verdict(stated, findings) = "success"
    BY <1>6, <1>10
  <2>2. \A f \in findings : ~ f.blocking
    BY <2>1 DEF Verdict
  <2>3. DOMAIN RoleOrder = 1..Len(RoleOrder)
    BY ServiceAssumption
  <2>4. RulesOf(s) \subseteq held
    BY <1>4, <1>9, <1>10, <2>1, <2>3 DEF RulesApply
  <2>5. ASSUME NEW d \in RulesOf(s) PROVE ~ Blocks(d)
    <3> DEFINE location == ResolveLocation(Read(s).index, d.location, Read(s).excluded)
               f == CreateFinding([d EXCEPT !.location = location])
    <3>1. d \in held /\ DOMAIN d = DraftFields
      BY <1>7, <2>4
    <3>2. f \in findings
      <4> HIDE DEF held
      <4> QED
        BY <1>8, <3>1, RaisedFinding DEF findings
    <3> HIDE DEF location
    <3>3. f.blocking = Blocks(d)
      BY <3>1, PlacedDraft
    <3> QED
      BY <2>2, <3>2, <3>3
  <2>6. ~ ExceedsReviewable(Read(s).changedLines)
    BY <1>5 DEF Kept, Admitted
  <2> QED
    BY <2>5, <2>6 DEF Obeyed
<1>11. ~ ExceedsReviewable(Read(s).changedLines)
  BY <1>5 DEF Kept, Admitted
<1> HIDE DEF held
<1>12. Kept(s, r, held)
  BY <1>6, <1>8, <1>9, <1>10, <1>11 DEF Kept
<1> QED
  BY <1>2, <1>12, OneSlotKept

LEMMA AnsweredKept ==
  ASSUME ServiceInv, FindingInv, NEW s \in Slots, Answered(s)
  PROVE  FindingInv'
<1> DEFINE call == slot[s].call
           Given(stream) == AnswerOver(transport, stream, call.aborted)
<1>1. slot[s].pc = "roles" /\ UNCHANGED facts /\ s \in Present
  BY DEF Answered, At
<1>2. slot[s] \in Reviews
  BY DEF ServiceInv, TypeOK
<1>3. PICK stream \in Streams :
        LET answer == Given(stream)
            cost == AfterAsk(call, answer).spent
        IN CASE answer.kind = "review" ->
                  \E verdict \in {"approve", "request-changes"},
                     proposals \in {{}} \cup {{p} : p \in facts[s].proposals[RoleOf(s)]} :
                    EndRole(s, cost, verdict, proposals)
             [] AsksAgain(call, answer) ->
                  /\ slot' = [slot EXCEPT ![s].call = AfterAsk(call, answer)]
                  /\ UNCHANGED <<drafts, spent>>
             [] OTHER -> EndRole(s, cost, "missing", {})
  BY DEF Answered
<1> DEFINE answer == Given(stream)
           cost == AfterAsk(call, answer).spent
<1>4. CASE \E verdict : \E proposals : EndRole(s, cost, verdict, proposals)
  BY <1>1, <1>4, EndRoleKept
<1>5. AsksAgain(call, answer) => answer.kind # "review"
  BY DEF AsksAgain
<1> HIDE DEF answer, Given
<1>6. CASE answer.kind = "review"
  <2>1. \E verdict \in {"approve", "request-changes"} : \E proposals :
           EndRole(s, cost, verdict, proposals)
    BY <1>3, <1>5, <1>6 DEF answer
  <2> QED
    BY <1>4, <2>1
<1>7. CASE AsksAgain(call, answer)
  <2> DEFINE r == [slot[s] EXCEPT !.call = AfterAsk(call, answer)]
  <2>1. slot' = [slot EXCEPT ![s] = r] /\ UNCHANGED <<facts, drafts>>
    BY <1>1, <1>3, <1>5, <1>7 DEF answer
  <2>2. r.pc = slot[s].pc /\ r.stated = slot[s].stated /\ r.conclusion = slot[s].conclusion
    BY <1>2 DEF Reviews
  <2> HIDE DEF r
  <2> QED
    BY <1>1, <2>1, <2>2, MovesKept
<1>8. CASE answer.kind # "review" /\ ~ AsksAgain(call, answer)
  <2>1. EndRole(s, cost, "missing", {})
    BY <1>3, <1>8 DEF answer
  <2> QED
    BY <1>4, <2>1
<1> QED
  BY <1>6, <1>7, <1>8

LEMMA ChecksKept ==
  ASSUME ServiceInv, FindingInv, NEW s \in Slots,
         \/ CheckPrerequisites(s) \/ CheckProgressOf(s) \/ CheckDiff(s) \/ CheckAllowance(s)
  PROVE  FindingInv'
<1>1. /\ slot[s] \in Reviews /\ UNCHANGED <<facts, drafts>> /\ s \in Present
      /\ slot[s].pc # "roles"
  BY DEF CheckPrerequisites, CheckProgressOf, CheckDiff, CheckAllowance, At, rest, ServiceInv,
         TypeOK
<1>2. ASSUME NEW pc, pc \notin Speaking, GoTo(s, pc),
             pc \in Admitted =>
               slot[s].pc \in Admitted \/ ~ ExceedsReviewable(Read(s).changedLines)
      PROVE  FindingInv'
  <2> DEFINE r == [slot[s] EXCEPT !.pc = pc]
  <2>1. slot' = [slot EXCEPT ![s] = r] /\ r.pc = pc /\ r.conclusion = slot[s].conclusion
    BY <1>1, <1>2 DEF GoTo, Reviews
  <2> HIDE DEF r
  <2> QED
    BY <1>1, <1>2, <2>1, MovesKept
<1>3. ASSUME NEW cause, NEW conclusion, conclusion # "success", StopWith(s, cause, conclusion)
      PROVE  FindingInv'
  <2> DEFINE r == [slot[s] EXCEPT !.pc = "find", !.cause = cause, !.conclusion = conclusion]
  <2>1. slot' = [slot EXCEPT ![s] = r] /\ r.pc = "find" /\ r.conclusion = conclusion
    BY <1>1, <1>3 DEF StopWith, Reviews
  <2> HIDE DEF r
  <2>2. "find" \notin Admitted /\ "find" \notin Speaking
    BY DEF Admitted, Speaking
  <2> QED
    BY <1>1, <1>3, <2>1, <2>2, MovesKept
<1>4. CASE CheckPrerequisites(s) \/ CheckProgressOf(s)
  <2>1. \E cause : \E pc \in {"history", "diff"} : StopOrGo(s, cause, pc)
    BY <1>4 DEF CheckPrerequisites, CheckProgressOf
  <2> QED
    BY <1>2, <1>3, <2>1 DEF StopOrGo, Admitted, Speaking
<1>5. CASE CheckDiff(s)
  <2> DEFINE empty == ~ Read(s).substantive
             tooLarge == ExceedsReviewable(Read(s).changedLines)
             allowed == Allowed(spent, Reservation(s))
             cause == CASE empty -> "diff.empty"
                        [] ~ empty /\ tooLarge -> "size.exceeds_reviewable"
                        [] ~ empty /\ ~ tooLarge /\ ~ allowed -> "budget.exhausted"
                        [] OTHER -> "none"
  <2>1. StopOrGo(s, cause, "allowance")
    BY <1>5 DEF CheckDiff
  <2> HIDE DEF empty, tooLarge, allowed
  <2>2. cause = "none" => ~ tooLarge
    OBVIOUS
  <2> HIDE DEF cause
  <2> QED
    BY <1>2, <1>3, <2>1, <2>2 DEF StopOrGo, tooLarge, Speaking
<1>6. CASE CheckAllowance(s)
  <2>1. slot[s].pc \in Admitted
    BY <1>6 DEF CheckAllowance, At, Admitted
  <2>2. GoTo(s, "open") \/ \E cause : \E conclusion \in {"unreported", "failure"} :
                             StopWith(s, cause, conclusion)
    BY <1>6 DEF CheckAllowance
  <2> QED
    BY <1>2, <1>3, <2>1, <2>2 DEF Speaking
<1> QED
  BY <1>4, <1>5, <1>6

LEMMA StepKept == ASSUME ServiceInv, FindingInv, [Next]_vars PROVE FindingInv'
<1>1. ASSUME NEW s \in Slots, NEW pc, s \in Present, GoTo(s, pc), UNCHANGED <<facts, drafts>>,
             pc \notin Admitted, pc # "reconcile", pc = "report" => slot[s].pc = "reconcile"
      PROVE  FindingInv'
  <2> DEFINE r == [slot[s] EXCEPT !.pc = pc]
  <2>1. slot[s] \in Reviews
    BY DEF ServiceInv, TypeOK
  <2>2. /\ slot' = [slot EXCEPT ![s] = r] /\ r.pc = pc /\ r.conclusion = slot[s].conclusion
        /\ r.stated = slot[s].stated
    BY <1>1, <2>1 DEF GoTo, Reviews
  <2> HIDE DEF r
  <2>3. pc \in Speaking => slot[s].pc \in Speaking
    <3>1. pc \in Speaking => pc = "reconcile" \/ pc = "report"
      BY <1>1 DEF Admitted, Speaking
    <3> QED
      BY <1>1, <3>1 DEF Speaking
  <2> QED
    BY <1>1, <2>2, <2>3, MovesKept
<1>2. ASSUME NEW s \in Slots, Begin(s) PROVE FindingInv'
  <2> DEFINE r == NewReview("snapshot")
  <2>1. slot' = [slot EXCEPT ![s] = r] /\ UNCHANGED <<facts, drafts>> /\ s \in Present
    BY <1>2 DEF Begin, At, rest
  <2>2. r.pc = "snapshot" /\ r.conclusion = "none"
    BY DEF NewReview
  <2> HIDE DEF r
  <2> QED
    BY <2>1, <2>2, MovesKept DEF Admitted, Speaking
<1>3. ASSUME NEW s \in Slots, ReadSnapshot(s) \/ ReadHistory(s) \/ Reconcile(s)
      PROVE  FindingInv'
  BY <1>1, <1>3 DEF ReadSnapshot, ReadHistory, Reconcile, At, rest, Admitted
<1>4. ASSUME NEW s \in Slots, OpenGate(s) PROVE FindingInv'
  <2> DEFINE r == [slot[s] EXCEPT !.pc = "roles"]
  <2>1. /\ slot[s] \in Reviews /\ slot[s].stated = <<>> /\ slot[s].pc = "open"
        /\ s \in Present /\ UNCHANGED <<facts, drafts>>
    BY <1>4 DEF OpenGate, At, rest, ServiceInv, TypeOK, Holds, BeforeRoles
  <2>2. slot' = [slot EXCEPT ![s] = r]
    BY <1>4 DEF OpenGate, GoTo
  <2>3. r.conclusion = slot[s].conclusion /\ r.stated = <<>>
    BY <2>1 DEF Reviews
  <2>4. slot[s].pc \in Admitted
    BY <2>1 DEF Admitted
  <2> HIDE DEF r
  <2> QED
    BY <2>1, <2>2, <2>3, <2>4, MovesKept
<1>5. ASSUME NEW s \in Slots, DeadlineFires(s) PROVE FindingInv'
  <2> DEFINE r == [slot[s] EXCEPT !.call = [slot[s].call EXCEPT !.aborted = TRUE]]
  <2>1. /\ slot[s] \in Reviews /\ s \in Present /\ UNCHANGED <<facts, drafts>>
        /\ slot' = [slot EXCEPT ![s] = r]
    BY <1>5 DEF DeadlineFires, At, rest, ServiceInv, TypeOK
  <2>2. r.pc = slot[s].pc /\ r.stated = slot[s].stated /\ r.conclusion = slot[s].conclusion
    BY <2>1 DEF Reviews
  <2> HIDE DEF r
  <2> QED
    BY <2>1, <2>2, MovesKept
<1>6. ASSUME NEW s \in Slots, FindIssue(s) PROVE FindingInv'
  <2>1. slot[s] \in Reviews /\ s \in Present /\ UNCHANGED <<facts, drafts>>
    BY <1>6 DEF FindIssue, At, rest, ServiceInv, TypeOK
  <2>2. CASE GoTo(s, "comment")
    BY <1>1, <2>1, <2>2 DEF Admitted
  <2>3. CASE slot' = [slot EXCEPT ![s].pc = "deliver", ![s].found = Finds(s)]
    <3> DEFINE r == [slot[s] EXCEPT !.pc = "deliver", !.found = Finds(s)]
    <3>1. slot' = [slot EXCEPT ![s] = r]
      BY <2>3
    <3>2. r.pc = "deliver" /\ r.conclusion = slot[s].conclusion
      BY <2>1 DEF Reviews
    <3> HIDE DEF r
    <3> QED
      BY <2>1, <3>1, <3>2, MovesKept DEF Admitted, Speaking
  <2> QED
    BY <1>6, <2>2, <2>3 DEF FindIssue
<1>7. ASSUME NEW s \in Slots, DeliverIssue(s) PROVE FindingInv'
  BY <1>1, <1>7 DEF DeliverIssue, At, Admitted
<1>8. ASSUME NEW s \in Slots, Report(s) \/ Comment(s) PROVE FindingInv'
  <2> DEFINE r == [NewReview("ended") EXCEPT !.cause = slot[s].cause,
                                             !.conclusion = slot[s].conclusion]
  <2>1. r.pc = "ended" /\ r.conclusion = slot[s].conclusion
    BY DEF NewReview
  <2>2. /\ slot' = [slot EXCEPT ![s] = r] /\ drafts' = [drafts EXCEPT ![s] = {}]
        /\ UNCHANGED facts /\ s \in Present
    BY <1>8 DEF Report, Comment, Over, At
  <2> HIDE DEF r
  <2> QED
    BY <2>1, <2>2, ForgetsKept
<1>9. ASSUME NEW s \in Slots, Dies(s) PROVE FindingInv'
  <2> DEFINE r == NewReview("idle")
  <2>1. r.pc = "idle" /\ r.conclusion = "none"
    BY DEF NewReview
  <2>2. /\ slot' = [slot EXCEPT ![s] = r] /\ drafts' = [drafts EXCEPT ![s] = {}]
        /\ UNCHANGED facts /\ s \in Present
    BY <1>9 DEF Dies
  <2> HIDE DEF r
  <2> QED
    BY <2>1, <2>2, ForgetsKept
<1>10. CASE HumanCloses \/ UNCHANGED vars
  <2>1. UNCHANGED <<facts, slot, drafts>>
    BY <1>10 DEF HumanCloses, vars
  <2> QED
    BY <2>1 DEF FindingInv, Kept, RulesOf, Obeyed, Read, Present
<1> QED
  BY <1>2, <1>3, <1>4, <1>5, <1>6, <1>7, <1>8, <1>9, <1>10, AnsweredKept, ChecksKept DEF Next

LEMMA InitKept == Init => FindingInv
<1> SUFFICES ASSUME Init, NEW s \in Present PROVE Kept(s, slot[s], drafts[s])
  BY DEF FindingInv
<1>1. s \in Slots /\ slot[s] = NewReview("idle") /\ drafts[s] = {}
  BY ServiceAssumption DEF Init, Present
<1>2. NewReview("idle").pc = "idle" /\ NewReview("idle").conclusion = "none"
  BY DEF NewReview
<1> QED
  BY <1>1, <1>2 DEF Kept, Admitted, Speaking

(* Whatever a pull request changes, in whatever hunks, and wherever a      *)
(* model places its findings: unless an added line of the diff reads as    *)
(* the header of a file, a finding in an image that is legible keeps its   *)
(* line exactly if the change touches that line of that image, even if the *)
(* other image of the file has lines that read as headers (locations.ts,   *)
(* indexDiff and resolveLocation; excluded-paths.ts).                      *)
THEOREM FindingsAreAnchored == Spec => []AnchoredExactlyWhereLegible
<1>1. ASSUME ServiceInv, FindingInv PROVE AnchoredExactlyWhereLegible
  <2> SUFFICES ASSUME NEW s \in Present, FilesLegible(facts[s].change), NEW draft \in drafts[s],
                      draft.location # PullRequestLevel,
                      \A k \in DOMAIN facts[s].change :
                        PathOf(facts[s].change[k]) = draft.location.path
                          => Legible(facts[s].change[k], draft.location.side)
               PROVE  (\E f \in Raised(s) : f.role = draft.role /\ f.location = draft.location)
                        <=> TrulyChanged(facts[s].change, draft.location)
    BY DEF AnchoredExactlyWhereLegible, AnchoredExactly
  <2> DEFINE change == facts[s].change
             index == IndexDiff(Render(change))
             excluded == ExcludedPaths(Render(change))
             Resolved(location) == ResolveLocation(index, location, excluded)
             spot == draft.location
  <2>1. facts \in Scenes /\ \A d \in drafts[s] : DOMAIN d = DraftFields
    BY <1>1 DEF ServiceInv, TypeOK, FindingInv, Kept
  <2>2. Diffable(change) /\ FilesLegible(change)
    BY <2>1, WhatIsRead
  <2>3. Read(s).index = index /\ Read(s).excluded = excluded
    BY <2>1, WhatIsRead, ReadingIs
  <2>4. \A f : f \in Raised(s) <=>
          \E d \in drafts[s] : f = CreateFinding([d EXCEPT !.location = Resolved(d.location)])
    <3> DEFINE held == drafts[s]
    <3>1. Raised(s) = Raise(held, index, excluded) /\ \A d \in held : DOMAIN d = DraftFields
      BY <2>1, <2>3 DEF Raised
    <3> HIDE DEF held, index, excluded
    <3>2. \A f : f \in Raise(held, index, excluded) <=>
            \E d \in held : f = CreateFinding([d EXCEPT !.location = Resolved(d.location)])
      BY <3>1, RaisedFinding
    <3> QED
      BY <3>1, <3>2 DEF held
  <2>5. ASSUME NEW d \in drafts[s], NEW location
        PROVE  /\ CreateFinding([d EXCEPT !.location = location]).role = d.role
               /\ CreateFinding([d EXCEPT !.location = location]).location = location
    BY <2>1, PlacedDraft
  <2>6. \A location : Resolved(location) = location \/ Resolved(location) = PullRequestLevel
    BY DEF ResolveLocation
  <2>7. IF TrulyChanged(change, spot) THEN Resolved(spot) = spot
        ELSE Resolved(spot) = PullRequestLevel
    <3>1. \A k \in DOMAIN change : PathOf(change[k]) = spot.path => Legible(change[k], spot.side)
      OBVIOUS
    <3> HIDE DEF spot, change
    <3>2. (IsAddressable(index, spot) /\ spot.path \notin excluded) <=> TrulyChanged(change, spot)
      BY <2>2, <3>1, ChangedIsAddressable
    <3> HIDE DEF index, excluded
    <3> QED
      BY <3>2 DEF ResolveLocation
  <2> HIDE DEF Resolved, change
  <2>8. CASE TrulyChanged(change, spot)
    <3> DEFINE f == CreateFinding([draft EXCEPT !.location = Resolved(draft.location)])
    <3>1. f \in Raised(s)
      BY <2>4
    <3>2. f.role = draft.role /\ f.location = draft.location
      BY <2>5, <2>7, <2>8
    <3> QED
      BY <2>8, <3>1, <3>2 DEF change
  <2>9. CASE ~ TrulyChanged(change, spot)
    <3> SUFFICES ASSUME NEW f \in Raised(s), f.location = draft.location PROVE FALSE
      BY <2>9 DEF change
    <3>1. PICK d \in drafts[s] : f = CreateFinding([d EXCEPT !.location = Resolved(d.location)])
      BY <2>4
    <3>2. Resolved(d.location) = draft.location
      BY <2>5, <3>1
    <3>3. d.location = draft.location
      BY <2>6, <3>2
    <3> QED
      BY <2>7, <2>9, <3>2, <3>3
  <2> QED
    BY <2>8, <2>9
<1> QED
  BY <1>1, InitInv, StepInv, InitKept, StepKept, PTL DEF Spec

---------------------------------------------------------------------------
(* The size of a change *)

(* A hunk starts after every number that the scan gave a line before it. *)
LEMMA ReadBeforeHunk ==
  ASSUME NEW edit \in Edits, Hunked(edit), HunksInOrder(edit), NEW side \in Sides,
         NEW h \in 1..Len(edit.lines), edit.lines[h].mark = "hunk",
         NEW i \in Changed(edit, h - 1, side)
  PROVE  NumberRead(edit, i, side) < StartOf(edit.lines[h], side)
<1> DEFINE m == Len(edit.lines)
           g == HunkOf(edit, i)
           start == StartOf(edit.lines[g], side)
           read == Passed(edit, g, i - 1, side)
           real == {j \in (g + 1)..(i - 1) : edit.lines[j].mark \in {" ", ChangeMark(side)}}
<1>1. /\ m \in Nat /\ DOMAIN edit.lines = 1..m
      /\ i \in 1..(h - 1) /\ i \in 1..m /\ i \in Nat \ {0}
      /\ edit.lines[i].mark = ChangeMark(side) /\ edit.lines[i].mark # "hunk"
  <2>1. edit.lines \in Seq(Lines)
    BY DEF Edits
  <2> QED
    BY <2>1 DEF Changed, ChangeMark
<1>2. i - 1 \in Nat \ {0} /\ HunkOf(edit, i) = HunkOf(edit, i - 1)
  BY <1>1, HunkOfNext
<1>3. g \in 1..i /\ edit.lines[g].mark = "hunk"
  BY <1>1, HunkOfLine
<1>4. NumberRead(edit, i, side) = start + Cardinality(read)
  BY <1>2 DEF NumberRead, Following
<1>5. LineNumber(edit, i, side) = start + Cardinality(real)
  BY DEF LineNumber
<1>6. h \in DOMAIN edit.lines /\ \A j \in 1..(h - 1) : edit.lines[j].mark # "note"
  BY <1>1 DEF HunksInOrder
<1>7. LineNumber(edit, i, side) < StartOf(edit.lines[h], side)
  BY <1>1, <1>6 DEF HunksInOrder, Sides
<1> HIDE DEF g
<1>8. g \in 1..m /\ StartOf(edit.lines[h], side) \in Int /\ start \in Int
  <2>1. g \in 1..m
    BY <1>1, <1>3
  <2> QED
    BY <1>3, <2>1, StartType
<1>9. read \subseteq real
  <2>1. \A j \in (g + 1)..(i - 1) : edit.lines[j].mark # "note"
    BY <1>1, <1>3, <1>6
  <2> QED
    BY <2>1 DEF Passed, MovesOn, AdvancingMarks, ChangeMark
<1>10. IsFiniteSet(real)
  <2>1. g + 1 \in Int /\ i - 1 \in Int
    BY <1>1, <1>3
  <2>2. IsFiniteSet((g + 1)..(i - 1))
    BY <2>1, FS_Interval
  <2>3. real \subseteq (g + 1)..(i - 1)
    OBVIOUS
  <2> QED
    BY <2>2, <2>3, FS_Subset
<1> HIDE DEF read, real, start, m
<1>11. /\ Cardinality(read) \in Nat /\ Cardinality(real) \in Nat
       /\ Cardinality(read) <= Cardinality(real)
  BY <1>9, <1>10, FS_Subset, FS_CardinalityType
<1> QED
  BY <1>4, <1>5, <1>7, <1>8, <1>11

(* The scan gives every line it takes for changed a number of its own. *)
LEMMA NumbersAreDistinct ==
  ASSUME NEW edit \in Edits, Hunked(edit), HunksInOrder(edit), NEW side \in Sides
  PROVE  LET m == Len(edit.lines)
         IN  /\ IsFiniteSet(Changed(edit, m, side))
             /\ Cardinality(Changed(edit, m, side)) \in Nat
             /\ Cardinality(ReadUpTo(edit, m, side)) = Cardinality(Changed(edit, m, side))
<1> DEFINE m == Len(edit.lines)
           Upcoming(i) == Following(edit, i, side)
           Distinct(i) ==
             /\ IsFiniteSet(ReadUpTo(edit, i, side))
             /\ Cardinality(ReadUpTo(edit, i, side)) = Cardinality(Changed(edit, i, side))
             /\ i > 0 => \A n \in ReadUpTo(edit, i, side) : n \in Int /\ n < Upcoming(i)
           Good == {i \in Nat : i <= m => Distinct(i)}
<1>1. ASSUME NEW i \in Nat
      PROVE  /\ IsFiniteSet(Changed(edit, i, side))
             /\ Cardinality(Changed(edit, i, side)) \in Nat
  <2>1. Changed(edit, i, side) \in SUBSET (1..i) /\ IsFiniteSet(1..i)
    BY FS_Interval DEF Changed
  <2> QED
    BY <2>1, FS_Subset, FS_CardinalityType
<1>2. m \in Nat
  BY DEF Edits
<1>3. 0 \in Good
  <2>1. ReadUpTo(edit, 0, side) = {} /\ Changed(edit, 0, side) = {}
    BY DEF ReadUpTo, Changed
  <2> QED
    BY <2>1, FS_EmptySet
<1>4. ASSUME NEW i \in Nat, i \in Good PROVE i + 1 \in Good
  <2> SUFFICES ASSUME i + 1 <= m PROVE Distinct(i + 1)
    OBVIOUS
  <2> DEFINE j == i + 1
             before == ReadUpTo(edit, i, side)
             after == ReadUpTo(edit, j, side)
             old == Changed(edit, i, side)
             new == Changed(edit, j, side)
             p == Following(edit, i, side)
             q == Following(edit, j, side)
             changed == edit.lines[j].mark = ChangeMark(side) /\ ~ OldFile(edit.lines[j])
             hunk == edit.lines[j].mark = "hunk"
             moves == MovesOn(edit.lines[j], side)
  <2>1. /\ j \in Nat \ {0} /\ j - 1 = i /\ \A x : x \in 1..j <=> x \in 1..i \/ x = j
        /\ j \in 1..m /\ i <= m
    BY <1>2
  <2>2. changed => moves /\ ~ hunk
    BY DEF MovesOn, AdvancingMarks, ChangeMark
  <2>3. /\ changed => after = before \cup {NumberRead(edit, j, side)}
        /\ ~ changed => after = before
    BY <2>1, ReadGrows
  <2>4. NumberRead(edit, j, side) = p
    BY <2>1 DEF NumberRead
  <2>5. /\ changed => new = old \cup {j} /\ j \notin old
        /\ ~ changed => new = old
    <3> DEFINE Right(x) == edit.lines[x].mark = ChangeMark(side) /\ ~ OldFile(edit.lines[x])
    <3>1. \A x : x \in 1..j <=> x \in 1..i \/ x = j
      BY <2>1
    <3>2. j \notin 1..i
      OBVIOUS
    <3>3. new = {x \in 1..j : Right(x)} /\ old = {x \in 1..i : Right(x)}
      BY DEF Changed
    <3>4. changed <=> Right(j)
      OBVIOUS
    <3> HIDE DEF j, new, old, changed, Right
    <3> QED
      BY <3>1, <3>2, <3>3, <3>4
  <2>6. /\ IsFiniteSet(before) /\ Cardinality(before) = Cardinality(old)
        /\ i > 0 => \A n \in before : n \in Int /\ n < p
        /\ IsFiniteSet(old)
    BY <1>1, <1>4, <2>1
  <2> DEFINE s == StartOf(edit.lines[j], side)
  <2>7. /\ q \in Int
        /\ hunk => q = s
        /\ ~ hunk => i > 0 /\ (moves => q = p + 1) /\ (~ moves => q = p)
    <3> HIDE DEF j, m, s
    <3>1. /\ Following(edit, j, side) \in Int
          /\ edit.lines[j].mark = "hunk" => Following(edit, j, side) = StartOf(edit.lines[j], side)
          /\ edit.lines[j].mark # "hunk" =>
               /\ j - 1 \in Nat \ {0}
               /\ MovesOn(edit.lines[j], side) =>
                    Following(edit, j, side) = Following(edit, j - 1, side) + 1
               /\ ~ MovesOn(edit.lines[j], side) =>
                    Following(edit, j, side) = Following(edit, j - 1, side)
      BY <2>1, FollowingGrows DEF m
    <3> QED
      BY <2>1, <3>1 DEF s
  <2>8. i > 0 => p \in Int
    <3>1. i > 0 => i \in 1..m
      BY <2>1
    <3> QED
      BY <3>1, FollowingGrows DEF m
  <2>9. hunk => \A n \in before : n < s
    <3> SUFFICES ASSUME hunk, NEW x \in old PROVE NumberRead(edit, x, side) < s
      BY DEF ReadUpTo
    <3>1. x \in Changed(edit, j - 1, side)
      BY <2>1
    <3> HIDE DEF j
    <3> QED
      BY <2>1, <3>1, ReadBeforeHunk DEF m
  <2>10. \A n \in before : n \in Int
    <3>1. i = 0 => before = {}
      BY DEF ReadUpTo, Changed
    <3> QED
      BY <2>6, <3>1
  <2> HIDE DEF j, before, after, old, new, p, q, changed, hunk, moves, s
  <2>11. /\ IsFiniteSet(after) /\ Cardinality(after) = Cardinality(new)
         /\ \A n \in after : n \in Int /\ n < q
    <3>1. CASE changed
      <4>1. q = p + 1 /\ i > 0 /\ p \in Int /\ after = before \cup {p}
        BY <2>2, <2>3, <2>4, <2>7, <2>8, <3>1
      <4>2. p \notin before
        BY <2>6, <4>1
      <4>3. /\ IsFiniteSet(after) /\ Cardinality(after) = Cardinality(before) + 1
            /\ Cardinality(new) = Cardinality(old) + 1
        BY <2>5, <2>6, <3>1, <4>1, <4>2, FS_AddElement
      <4> QED
        BY <2>6, <4>1, <4>3
    <3>2. CASE ~ changed /\ hunk
      BY <2>3, <2>5, <2>6, <2>7, <2>9, <2>10, <3>2
    <3>3. CASE ~ changed /\ ~ hunk
      <4>1. i > 0 /\ p \in Int /\ (q = p \/ q = p + 1)
        BY <2>7, <2>8, <3>3
      <4> QED
        BY <2>3, <2>5, <2>6, <3>3, <4>1
    <3> QED
      BY <3>1, <3>2, <3>3
  <2>12. Distinct(j)
    BY <2>11 DEF after, new, q
  <2> HIDE DEF Distinct
  <2> QED
    BY <2>12 DEF j
<1> HIDE DEF Good
<1>5. m \in Good
  BY <1>2, <1>3, <1>4, NumberInduction
<1> QED
  BY <1>1, <1>2, <1>5 DEF Good

(* The lines of an edit that the service counts *)
ChangedLines(edit) ==
  {i \in DOMAIN edit.lines : edit.lines[i].mark \in {"+", "-"} /\ ~ OldFile(edit.lines[i])}

LEMMA EditSize ==
  ASSUME NEW edit \in Edits, Hunked(edit), HunksInOrder(edit)
  PROVE  LET m == Len(edit.lines)
         IN  /\ Cardinality(ReadUpTo(edit, m, "LEFT")) + Cardinality(ReadUpTo(edit, m, "RIGHT"))
                  = Cardinality(ChangedLines(edit))
             /\ Cardinality(ChangedLines(edit)) \in Nat
<1> DEFINE m == Len(edit.lines)
           removed == Changed(edit, m, "LEFT")
           added == Changed(edit, m, "RIGHT")
<1>1. m \in Nat /\ DOMAIN edit.lines = 1..m
  <2>1. edit.lines \in Seq(Lines)
    BY DEF Edits
  <2> QED
    BY <2>1
<1>2. /\ IsFiniteSet(removed) /\ IsFiniteSet(added)
      /\ Cardinality(removed) \in Nat /\ Cardinality(added) \in Nat
      /\ Cardinality(ReadUpTo(edit, m, "LEFT")) = Cardinality(removed)
      /\ Cardinality(ReadUpTo(edit, m, "RIGHT")) = Cardinality(added)
  BY <1>1, NumbersAreDistinct DEF Sides
<1>3. ChangedLines(edit) = removed \cup added /\ removed \cap added = {}
  <2>1. ChangeMark("LEFT") = "-" /\ ChangeMark("RIGHT") = "+"
    BY DEF ChangeMark
  <2> QED
    BY <1>1, <2>1 DEF ChangedLines, Changed
<1> HIDE DEF m, removed, added
<1>4. Cardinality(removed \cup added) = Cardinality(removed) + Cardinality(added)
  <2>1. Cardinality(removed \cap added) = 0
    BY <1>3, FS_EmptySet
  <2>2. Cardinality(removed \cup added) =
          Cardinality(removed) + Cardinality(added) - Cardinality(removed \cap added)
    BY <1>2, FS_Union
  <2> QED
    BY <1>2, <2>1, <2>2
<1> QED
  BY <1>2, <1>3, <1>4 DEF m

(* Both counts are sums, whatever the order they are taken in. *)
LEMMA CountIsSum ==
  ASSUME NEW index, NEW excluded, NEW S, S = DOMAIN index \ excluded, IsFiniteSet(S),
         \A p \in S : Cardinality(index[p].left) + Cardinality(index[p].right) \in Int
  PROVE  \E total :
           /\ Additive(total, S, [p \in S |-> Cardinality(index[p].left)
                                                 + Cardinality(index[p].right)])
           /\ total[S] = ChangedLineCount(index, excluded)
<1> DEFINE Size(p) == Cardinality(index[p].left) + Cardinality(index[p].right)
           f == [p \in S |-> Size(p)]
           pick == [X \in SUBSET S |-> CHOOSE x \in X : TRUE]
           Body(iter) ==
             [X \in SUBSET S |->
                IF X = {} THEN 0
                ELSE Size(CHOOSE x \in X : TRUE) + iter[X \ {CHOOSE x \in X : TRUE}]]
           total == CHOOSE iter : iter = Body(iter)
<1>1. ChangedLineCount(index, excluded) = total[S]
  BY DEF ChangedLineCount, MapThenSumSet, MapThenFoldSet
<1> HIDE DEF Size
<1>2. \A X \in SUBSET S : X # {} => pick[X] \in X
  OBVIOUS
<1>3. f \in [S -> Int]
  BY DEF Size
<1>4. PICK g : IsSum(g, S, f, pick)
  BY <1>2, <1>3, SumExists
<1>5. ASSUME NEW iter
      PROVE  Body(iter) = [X \in SUBSET S |->
                             IF X = {} THEN 0 ELSE f[pick[X]] + iter[X \ {pick[X]}]]
  <2>1. \A X \in SUBSET S : X # {} =>
          pick[X] = (CHOOSE x \in X : TRUE) /\ f[pick[X]] = Size(CHOOSE x \in X : TRUE)
    BY <1>2
  <2> HIDE DEF f, pick
  <2> QED
    BY <2>1, ZenonT(40)
<1> HIDE DEF f, pick, Body
<1>6. g = Body(g)
  BY <1>4, <1>5 DEF IsSum
<1>7. total = Body(total)
  BY <1>6
<1>8. IsSum(total, S, f, pick)
  BY <1>5, <1>7 DEF IsSum
<1> HIDE DEF total
<1>9. Additive(total, S, f)
  BY <1>2, <1>3, <1>8, SumIsAdditive
<1> QED
  BY <1>1, <1>9 DEF f, Size

ChangeSize(change) ==
  MapThenSumSet(LAMBDA k : Cardinality({i \in DOMAIN change[k].lines :
                                          /\ change[k].lines[i].mark \in {"+", "-"}
                                          /\ ~ OldFile(change[k].lines[i])}),
                {k \in DOMAIN change : ~ change[k].binary /\ PathOf(change[k]) \notin Declared})

LEMMA ChangeIsSum ==
  ASSUME NEW change, NEW S, S = Counted(change), IsFiniteSet(S),
         \A k \in S : Cardinality(ChangedLines(change[k])) \in Int
  PROVE  \E total : /\ Additive(total, S, [k \in S |-> Cardinality(ChangedLines(change[k]))])
                    /\ total[S] = ChangeSize(change)
<1> DEFINE Size(k) == Cardinality(ChangedLines(change[k]))
           f == [k \in S |-> Size(k)]
           pick == [X \in SUBSET S |-> CHOOSE x \in X : TRUE]
           Body(iter) ==
             [X \in SUBSET S |->
                IF X = {} THEN 0
                ELSE Size(CHOOSE x \in X : TRUE) + iter[X \ {CHOOSE x \in X : TRUE}]]
           total == CHOOSE iter : iter = Body(iter)
<1>1. ChangeSize(change) = total[S]
  BY DEF ChangeSize, ChangedLines, Counted, MapThenSumSet, MapThenFoldSet
<1> HIDE DEF Size
<1>2. \A X \in SUBSET S : X # {} => pick[X] \in X
  OBVIOUS
<1>3. f \in [S -> Int]
  BY DEF Size
<1>4. PICK g : IsSum(g, S, f, pick)
  BY <1>2, <1>3, SumExists
<1>5. ASSUME NEW iter
      PROVE  Body(iter) = [X \in SUBSET S |->
                             IF X = {} THEN 0 ELSE f[pick[X]] + iter[X \ {pick[X]}]]
  <2>1. \A X \in SUBSET S : X # {} =>
          pick[X] = (CHOOSE x \in X : TRUE) /\ f[pick[X]] = Size(CHOOSE x \in X : TRUE)
    BY <1>2
  <2> HIDE DEF f, pick
  <2> QED
    BY <2>1, ZenonT(40)
<1> HIDE DEF f, pick, Body
<1>6. g = Body(g)
  BY <1>4, <1>5 DEF IsSum
<1>7. total = Body(total)
  BY <1>6
<1>8. IsSum(total, S, f, pick)
  BY <1>5, <1>7 DEF IsSum
<1> HIDE DEF total
<1>9. Additive(total, S, f)
  BY <1>2, <1>3, <1>8, SumIsAdditive
<1> QED
  BY <1>1, <1>9 DEF f, Size

(* The service counts the lines of the change itself, except the removed   *)
(* ones that read as headers.                                              *)
LEMMA SizeIsRead ==
  ASSUME NEW change, Diffable(change), FilesLegible(change)
  PROVE  /\ ChangedLineCount(IndexDiff(Render(change)), ExcludedPaths(Render(change)))
              = ChangeSize(change)
         /\ ChangeSize(change) \in Int
<1> DEFINE index == IndexDiff(Render(change))
           excluded == ExcludedPaths(Render(change))
           S == Counted(change)
           U == DOMAIN index \ excluded
           f == [k \in S |-> Cardinality(ChangedLines(change[k]))]
           h == [p \in U |-> Cardinality(index[p].left) + Cardinality(index[p].right)]
           b == [k \in S |-> PathOf(change[k])]
<1>1. U = {PathOf(change[k]) : k \in S} /\ S \subseteq Text(change)
  BY ConsideredPaths
<1>2. IsFiniteSet(S)
  <2>1. S \in SUBSET (1..Len(change)) /\ Len(change) \in Nat
    BY ChangeType DEF Counted
  <2>2. IsFiniteSet(1..Len(change))
    BY <2>1, FS_Interval
  <2> QED
    BY <2>1, <2>2, FS_Subset
<1>3. b \in [S -> U] /\ (\A u \in U : \E k \in S : b[k] = u)
  BY <1>1
<1>4. \A k, j \in S : b[k] = b[j] => k = j
  BY DEF Diffable, Counted
<1>5. ASSUME NEW k \in S
      PROVE  /\ Cardinality(index[PathOf(change[k])].left)
                  + Cardinality(index[PathOf(change[k])].right)
                  = Cardinality(ChangedLines(change[k]))
             /\ Cardinality(ChangedLines(change[k])) \in Nat
  <2> DEFINE edit == change[k]
             m == Len(edit.lines)
  <2>1. edit \in Edits /\ k \in Text(change) /\ Hunked(edit) /\ HunksInOrder(edit)
    BY <1>1, ChangeType, TextEdit DEF Counted, Diffable
  <2>2. /\ index[PathOf(edit)].left = ReadUpTo(edit, m, "LEFT")
        /\ index[PathOf(edit)].right = ReadUpTo(edit, m, "RIGHT")
    BY <2>1, IndexOfDiff DEF IndexHas
  <2> HIDE DEF edit, index
  <2>3. /\ Cardinality(ReadUpTo(edit, m, "LEFT")) + Cardinality(ReadUpTo(edit, m, "RIGHT"))
             = Cardinality(ChangedLines(edit))
        /\ Cardinality(ChangedLines(edit)) \in Nat
    BY <2>1, EditSize
  <2> QED
    BY <2>2, <2>3 DEF edit
<1> HIDE DEF index, excluded, S
<1>6. IsFiniteSet(U)
  <2>1. \A u \in U : \E k \in S : u = PathOf(change[k])
    BY <1>1
  <2>2. b \in Surjection(S, U)
    BY <1>3 DEF Surjection
  <2> HIDE DEF b, U
  <2> QED
    BY <1>2, <2>2, FS_Surjection
<1>7. \A p \in U : Cardinality(index[p].left) + Cardinality(index[p].right) \in Int
  <2> TAKE p \in U
  <2>1. PICK k \in S : p = PathOf(change[k])
    BY <1>1
  <2> QED
    BY <1>5, <2>1
<1>8. PICK total : Additive(total, U, h) /\ total[U] = ChangedLineCount(index, excluded)
  BY <1>6, <1>7, CountIsSum
<1>9. PICK size : Additive(size, S, f) /\ size[S] = ChangeSize(change)
  <2>1. S = Counted(change) /\ \A k \in S : Cardinality(ChangedLines(change[k])) \in Int
    BY <1>5 DEF S
  <2> QED
    BY <1>2, <2>1, ChangeIsSum
<1>10. f \in [S -> Int] /\ h \in [U -> Int] /\ \A k \in S : f[k] = h[b[k]]
  <2>1. \A k \in S : f[k] \in Int /\ b[k] \in U /\ b[k] = PathOf(change[k])
    BY <1>3, <1>5
  <2>2. \A k \in S : f[k] = h[b[k]]
    BY <1>5, <2>1
  <2> QED
    BY <1>7, <2>1, <2>2
<1> HIDE DEF U, f, h, b
<1>11. size[S] = total[U]
  BY <1>2, <1>3, <1>4, <1>8, <1>9, <1>10, SumsCorrespond
<1>12. size[S] \in Int
  BY <1>9 DEF Additive
<1> QED
  BY <1>8, <1>9, <1>11, <1>12 DEF index, excluded

(* What the rules' drafts say of the change itself, if none of them blocks. *)
LEMMA RulesAreAboutTheChange ==
  ASSUME NEW change, Diffable(change), FilesLegible(change), NEW justified \in BOOLEAN,
         \A d \in ApplyRules(Render(change), ExcludedPaths(Render(change)), justified) : ~ Blocks(d),
         NEW paths, paths = {PathOf(change[k]) : k \in Counted(change)}
  PROVE  /\ ChangeSize(change) <= MaxPullRequestSize \/ justified
         /\ IsBlocking("high") /\ (\E path \in paths : IsBehaviorPath(path))
              => paths \cap TestPaths # {} /\ paths \cap DocPaths # {}
<1> DEFINE diff == Render(change)
           index == IndexDiff(diff)
           excluded == ExcludedPaths(diff)
           rules == ApplyRules(diff, excluded, justified)
<1>1. DOMAIN index \ excluded = paths
  BY ConsideredPaths
<1>2. ChangedLineCount(index, excluded) = ChangeSize(change)
  BY SizeIsRead
<1>3. /\ CheckDocumentation(DOMAIN index, excluded) \subseteq rules
      /\ CheckPullRequestSize(index, excluded, justified) \subseteq rules
  BY DEF ApplyRules, ChangedPaths
<1>4. \A d \in rules : ~ Blocks(d)
  OBVIOUS
<1> HIDE DEF index, excluded, rules
<1>5. ChangeSize(change) <= MaxPullRequestSize \/ justified
  <2> SUFFICES ASSUME ~ (ChangeSize(change) <= MaxPullRequestSize \/ justified) PROVE FALSE
    OBVIOUS
  <2> DEFINE d == RuleDraft("pull-request-size", "yes", PullRequestLevel, "pull-request-size")
  <2>1. d \in rules
    BY <1>2, <1>3 DEF CheckPullRequestSize
  <2>2. d.blocking = "yes"
    BY DEF RuleDraft, Draft
  <2> HIDE DEF d
  <2>3. Blocks(d)
    BY <2>2 DEF Blocks
  <2> QED
    BY <1>4, <2>1, <2>3
<1>6. ASSUME IsBlocking("high"), NEW path \in paths, IsBehaviorPath(path),
             NEW rule \in {"missing-tests", "missing-or-stale-document"}
      PROVE  paths \cap (IF rule = "missing-tests" THEN TestPaths ELSE DocPaths) # {}
  <2> SUFFICES ASSUME paths \cap (IF rule = "missing-tests" THEN TestPaths ELSE DocPaths) = {}
               PROVE  FALSE
    OBVIOUS
  <2> DEFINE d == RuleDraft(rule, "derived", PullRequestLevel, rule)
             missing == {r \in {"missing-tests", "missing-or-stale-document"} :
                           paths \cap (IF r = "missing-tests" THEN TestPaths ELSE DocPaths) = {}}
  <2>1. CheckDocumentation(DOMAIN index, excluded)
          = {RuleDraft(r, "derived", PullRequestLevel, r) : r \in missing}
    BY <1>1, <1>6 DEF CheckDocumentation
  <2>2. d \in rules
    BY <1>3, <2>1
  <2>3. d.blocking = "derived" /\ d.severity = "high"
    BY DEF RuleDraft, Draft
  <2> HIDE DEF d
  <2>4. Blocks(d)
    BY <1>6, <2>3 DEF Blocks
  <2> QED
    BY <1>4, <2>2, <2>4
<1>7. IsBlocking("high") /\ (\E path \in paths : IsBehaviorPath(path))
        => paths \cap TestPaths # {} /\ paths \cap DocPaths # {}
  <2> SUFFICES ASSUME IsBlocking("high"), NEW path \in paths, IsBehaviorPath(path)
               PROVE  paths \cap TestPaths # {} /\ paths \cap DocPaths # {}
    OBVIOUS
  <2>1. paths \cap TestPaths # {}
    BY <1>6
  <2>2. paths \cap DocPaths # {}
    BY <1>6
  <2> QED
    BY <2>1, <2>2
<1> QED
  BY <1>5, <1>7

(* Whatever the models say and however their calls end, a review that has  *)
(* the implementation role passes only a change that is within the size    *)
(* caps and has its tests and documents, counted on the change itself,     *)
(* unless an added line of the diff reads as the header of a file; removed *)
(* lines that read as headers do not count (review/roles/implementation.ts *)
(* applies its rules in any case; review/rules/size.ts, docs.ts).          *)
THEOREM RulesCannotBeTalkedOutOf ==
  ASSUME RulesApply
  PROVE  Spec => []PassesObeyTheRules
<1>1. ASSUME ServiceInv, FindingInv PROVE PassesObeyTheRules
  <2> SUFFICES ASSUME NEW s \in Present, slot[s].conclusion = "success",
                      FilesLegible(facts[s].change)
               PROVE  LET change == facts[s].change
                          paths == {PathOf(change[k]) : k \in Counted(change)}
                          size == ChangeSize(change)
                      IN /\ size <= MaxReviewableDiffSize
                         /\ size <= MaxPullRequestSize \/ facts[s].justified
                         /\ IsBlocking("high") /\ (\E path \in paths : IsBehaviorPath(path))
                              => paths \cap TestPaths # {} /\ paths \cap DocPaths # {}
    BY DEF PassesObeyTheRules, ChangeSize, Counted
  <2> DEFINE change == facts[s].change
             diff == Render(change)
             justified == facts[s].justified
             paths == {PathOf(change[k]) : k \in Counted(change)}
  <2>1. /\ Diffable(change) /\ FilesLegible(change) /\ justified \in BOOLEAN
        /\ Read(s) = Reading(change)
    BY <1>1, WhatIsRead DEF ServiceInv, TypeOK
  <2>2. Obeyed(s)
    BY <1>1 DEF FindingInv, Kept
  <2>3. /\ Read(s).changedLines = ChangedLineCount(IndexDiff(diff), ExcludedPaths(diff))
        /\ RulesOf(s) = ApplyRules(diff, ExcludedPaths(diff), justified)
    BY <2>1, ReadingIs DEF RulesOf
  <2> HIDE DEF change, justified, paths
  <2>4. ChangeSize(change) <= MaxReviewableDiffSize
    <3>1. ChangeSize(change) \in Int /\ Read(s).changedLines = ChangeSize(change)
      BY <2>1, <2>3, SizeIsRead
    <3>2. MaxReviewableDiffSize \in Nat /\ ~ (ChangeSize(change) > MaxReviewableDiffSize)
      BY <2>2, <3>1, StopsAssumption DEF Obeyed, ExceedsReviewable
    <3> QED
      BY <3>1, <3>2
  <2>5. \A d \in ApplyRules(diff, ExcludedPaths(diff), justified) : ~ Blocks(d)
    BY <2>2, <2>3 DEF Obeyed
  <2>6. /\ ChangeSize(change) <= MaxPullRequestSize \/ justified
        /\ IsBlocking("high") /\ (\E path \in paths : IsBehaviorPath(path))
             => paths \cap TestPaths # {} /\ paths \cap DocPaths # {}
    BY <2>1, <2>5, RulesAreAboutTheChange DEF paths
  <2> QED
    BY <2>4, <2>6 DEF change, justified, paths
<1> QED
  BY <1>1, InitInv, StepInv, InitKept, StepKept, PTL DEF Spec

---------------------------------------------------------------------------
(* Commented-out code *)

(* What the rule's own scan of the diff carries from line to line *)
Observations == [path : Paths \cup {NoPath}, line : Int, detail : STRING]
DeadScans == [path : Paths \cup {NoPath}, right : Int, seen : SUBSET Observations]

LEMMA DeadLineEffect ==
  ASSUME NEW scan \in DeadScans, NEW line, DiffLine(line)
  PROVE  LET next == DeadLine(scan, line)
         IN  /\ next \in DeadScans /\ scan.seen \subseteq next.seen
             /\ NewFile(line) => next.path = line.names
             /\ line.mark \in {"header", "-"} => next = scan
             /\ line.mark = "hunk" => next.path = scan.path /\ next.right = line.right
             /\ line.mark \in {" ", "+", "note"} /\ ~ NewFile(line) =>
                  next.path = scan.path /\ next.right = scan.right + 1
             /\ line.mark = "+" /\ ~ NewFile(line) /\ line.words \in CommentedOut =>
                  [path |-> scan.path, line |-> scan.right, detail |-> line.words] \in next.seen
<1> DEFINE next == DeadLine(scan, line)
           found == [path |-> scan.path, line |-> scan.right, detail |-> line.words]
           seen == IF line.mark = "+" /\ line.words \in CommentedOut
                   THEN scan.seen \cup {found} ELSE scan.seen
<1>1. /\ scan.path \in Paths \cup {NoPath} /\ scan.right \in Int /\ scan.right + 1 \in Int
      /\ scan.seen \in SUBSET Observations
  BY DEF DeadScans
<1>2. CASE NewFile(line)
  <2>1. next = [scan EXCEPT !.path = line.names] /\ line.names \in Paths /\ line.mark = "+"
    BY <1>2 DEF DeadLine, DiffLine, Marks, NewFile, Paths
  <2> HIDE DEF next
  <2>2. next \in DeadScans /\ next.seen = scan.seen /\ next.path = line.names
    BY <1>1, <2>1 DEF DeadScans
  <2> QED
    BY <1>2, <2>1, <2>2 DEF next
<1>3. CASE line.mark \in {"header", "-"}
  <2>1. next = scan /\ ~ NewFile(line)
    BY <1>3 DEF DeadLine, NewFile
  <2> HIDE DEF next
  <2> QED
    BY <1>3, <2>1 DEF next
<1>4. CASE line.mark = "hunk"
  <2>1. next = [scan EXCEPT !.right = line.right] /\ line.right \in Int /\ ~ NewFile(line)
    BY <1>4 DEF DeadLine, DiffLine, Marks, NewFile
  <2> HIDE DEF next
  <2>2. next \in DeadScans /\ next.seen = scan.seen /\ next.path = scan.path
        /\ next.right = line.right
    BY <1>1, <2>1 DEF DeadScans
  <2> QED
    BY <1>4, <2>1, <2>2 DEF next
<1>5. CASE line.mark \in {" ", "+", "note", "binary"} /\ ~ NewFile(line)
  <2>1. next = [scan EXCEPT !.right = scan.right + 1, !.seen = seen]
    BY <1>5 DEF DeadLine
  <2>2. line.mark = "+" => line.words \in STRING
    BY DEF DiffLine
  <2>3. seen \in SUBSET Observations /\ scan.seen \subseteq seen
    BY <1>1, <2>2 DEF Observations
  <2>4. line.mark = "+" /\ line.words \in CommentedOut => found \in seen
    OBVIOUS
  <2> HIDE DEF next, seen, found
  <2>5. /\ next \in DeadScans /\ next.seen = seen /\ next.path = scan.path
        /\ next.right = scan.right + 1
    BY <1>1, <2>1, <2>3 DEF DeadScans
  <2> QED
    BY <1>5, <2>3, <2>4, <2>5 DEF next, found
<1> QED
  BY <1>2, <1>3, <1>4, <1>5 DEF DiffLine, Marks

LEMMA DeadScanType == DeadScan \in DeadScans
BY DEF DeadScan, DeadScans

(* What the scan has after each line *)
Detects(b, diff) ==
  /\ \A i \in 0..Len(diff) : b[i] \in DeadScans
  /\ b[Len(diff)].seen = DetectCommentedOutCode(diff)
  /\ \A i \in 1..Len(diff) : b[i] = DeadLine(b[i - 1], diff[i])

LEMMA DetectScans ==
  ASSUME NEW U, NEW diff \in Seq(U), \A line \in U : DiffLine(line)
  PROVE  \E b : Detects(b, diff)
<1> DEFINE n == Len(diff)
           D == 1..n
           V == DeadScans
           base == DeadScan
           Body(iter) == [X \in SUBSET D |->
                            IF X = {} THEN DeadScan
                            ELSE DeadLine(iter[X \ {Max(X)}], diff[Max(X)])]
           total == CHOOSE iter : iter = Body(iter)
           step == [k \in D |-> [v \in V |-> DeadLine(v, diff[k])]]
           wide == [k \in D |-> [v \in V \cup {total[X] : X \in SUBSET D} |->
                                   DeadLine(v, diff[k])]]
<1>1. n \in Nat /\ D = DOMAIN diff /\ IsFiniteSet(D)
  BY FS_Interval
<1>2. DetectCommentedOutCode(diff) = total[D].seen
  BY <1>1 DEF DetectCommentedOutCode, FoldLeft, MapThenFoldSet
<1>3. \A X \in SUBSET D : X # {} => /\ Greatest(n)[X] = Max(X) /\ Greatest(n)[X] \in X
                                    /\ \A i \in X : Greatest(n)[X] >= i
  BY <1>1, LastIsGreatest
<1>4. base \in V /\ step \in [D -> [V -> V]]
  <2>1. \A k \in D : DiffLine(diff[k])
    BY <1>1
  <2>2. \A k \in D : \A v \in V : DeadLine(v, diff[k]) \in V
    BY <2>1, DeadLineEffect
  <2> QED
    BY <2>2, DeadScanType
<1>5. PICK g \in [SUBSET D -> V] : IsFold(g, D, base, step, Greatest(n))
  <2> HIDE DEF D, V, step, base
  <2> QED
    BY <1>1, <1>3, <1>4, FoldExists
<1>6. g = Body(g)
  <2>1. \A X \in SUBSET D : X # {} =>
          step[Greatest(n)[X]][g[X \ {Greatest(n)[X]}]] = DeadLine(g[X \ {Max(X)}], diff[Max(X)])
    BY <1>3, <1>5
  <2> HIDE DEF step
  <2> QED
    BY <1>5, <2>1 DEF IsFold
<1> HIDE DEF Body
<1>7. total = Body(total)
  BY <1>6
<1> HIDE DEF total
<1>8. IsFold(total, D, base, wide, Greatest(n))
  <2>1. \A X \in SUBSET D : X # {} =>
          wide[Greatest(n)[X]][total[X \ {Greatest(n)[X]}]]
            = DeadLine(total[X \ {Max(X)}], diff[Max(X)])
    BY <1>3
  <2> HIDE DEF wide
  <2> QED
    BY <1>7, <2>1 DEF IsFold, Body
<1>9. \A k \in D : \A v \in V : wide[k][v] = DeadLine(v, diff[k]) /\ wide[k][v] \in V
  BY <1>4
<1> HIDE DEF wide, base
<1>10. PICK b \in [0..n -> V] : IsScan(b, n, base, wide, total[1..n])
  <2>1. n \in Nat /\ base \in V /\ IsFold(total, 1..n, base, wide, Greatest(n))
    BY <1>1, <1>4, <1>8
  <2>2. \A k \in 1..n : \A v \in V : wide[k][v] \in V
    BY <1>9
  <2>3. \A X \in SUBSET (1..n) : X # {} =>
          Greatest(n)[X] \in X /\ \A i \in X : Greatest(n)[X] >= i
    BY <1>3
  <2> HIDE DEF V, n, D
  <2> QED
    BY <2>1, <2>2, <2>3, FoldOfSequence
<1>11. \A k \in 1..n : b[k] = DeadLine(b[k - 1], diff[k])
  <2> TAKE k \in 1..n
  <2>1. k - 1 \in 0..n
    BY <1>1
  <2>2. b[k - 1] \in V
    BY <1>10, <2>1
  <2> QED
    BY <1>9, <1>10, <2>2 DEF IsScan
<1>12. b[n].seen = DetectCommentedOutCode(diff)
  BY <1>2, <1>10 DEF IsScan
<1> QED
  BY <1>10, <1>11, <1>12 DEF Detects

(* What has been seen stays seen. *)
LEMMA SeenStays ==
  ASSUME NEW n \in Nat, NEW b, \A i \in 1..n : b[i - 1].seen \subseteq b[i].seen, NEW j \in 0..n
  PROVE  b[j].seen \subseteq b[n].seen
<1> DEFINE Good == {d \in Nat : j + d <= n => b[j].seen \subseteq b[j + d].seen}
<1>1. 0 \in Good
  OBVIOUS
<1>2. ASSUME NEW d \in Nat, d \in Good PROVE d + 1 \in Good
  <2> SUFFICES ASSUME j + (d + 1) <= n PROVE b[j].seen \subseteq b[j + (d + 1)].seen
    OBVIOUS
  <2> DEFINE i == j + (d + 1)
  <2>1. i \in 1..n /\ i - 1 = j + d /\ j + d <= n
    OBVIOUS
  <2>2. b[j].seen \subseteq b[j + d].seen
    BY <1>2, <2>1
  <2> HIDE DEF i
  <2>3. b[i - 1].seen \subseteq b[i].seen
    BY <2>1
  <2> QED
    BY <2>1, <2>2, <2>3 DEF i
<1>3. n - j \in Nat /\ j + (n - j) = n
  OBVIOUS
<1> HIDE DEF Good
<1>4. n - j \in Good
  BY <1>1, <1>2, <1>3, NumberInduction
<1> QED
  BY <1>3, <1>4 DEF Good

(* Inside a hunk the rule's scan is at the line that the index is at. *)
LEMMA HunkCounted ==
  ASSUME NEW edit \in Edits, Hunked(edit), NoNewFile(edit), NEW c, c[0] \in DeadScans,
         c[0].path = edit.new,
         \A i \in 1..Len(edit.lines) : c[i] = DeadLine(c[i - 1], edit.lines[i])
  PROVE  \A i \in 0..Len(edit.lines) :
           /\ c[i] \in DeadScans /\ c[i].path = edit.new
           /\ i > 0 => c[i].right = Following(edit, i, "RIGHT")
<1> DEFINE m == Len(edit.lines)
           Counts(i) == /\ c[i] \in DeadScans /\ c[i].path = edit.new
                        /\ i > 0 => c[i].right = Following(edit, i, "RIGHT")
           Good == {i \in Nat : i <= m => Counts(i)}
<1>1. m \in Nat /\ edit.lines \in Seq(Lines) /\ DOMAIN edit.lines = 1..m
  BY DEF Edits
<1>2. 0 \in Good
  OBVIOUS
<1>3. ASSUME NEW j \in Nat, j \in Good PROVE j + 1 \in Good
  <2> SUFFICES ASSUME j + 1 <= m PROVE Counts(j + 1)
    OBVIOUS
  <2> DEFINE i == j + 1
             line == edit.lines[i]
             scan == c[j]
             next == c[i]
             before == Following(edit, j, "RIGHT")
             after == Following(edit, i, "RIGHT")
  <2>1. i \in 1..m /\ i - 1 = j /\ i \in Nat \ {0} /\ j <= m
    BY <1>1
  <2>2. line \in Lines /\ ~ NewFile(line)
    BY <1>1, <2>1 DEF NoNewFile
  <2>3. DiffLine(line) /\ (line.mark \in Marks \/ line.mark = "hunk")
    BY <2>2, EditLineType
  <2>4. /\ scan \in DeadScans /\ scan.path = edit.new /\ (j > 0 => scan.right = before)
    BY <1>3, <2>1
  <2>5. next = DeadLine(scan, line)
    BY <2>1
  <2>6. /\ line.mark = "hunk" => after = line.right
        /\ line.mark # "hunk" =>
             /\ j > 0
             /\ MovesOn(line, "RIGHT") => after = before + 1
             /\ ~ MovesOn(line, "RIGHT") => after = before
    <3>1. /\ line.mark = "hunk" => after = StartOf(line, "RIGHT")
          /\ line.mark # "hunk" =>
               /\ i - 1 \in Nat \ {0}
               /\ MovesOn(line, "RIGHT") => after = Following(edit, i - 1, "RIGHT") + 1
               /\ ~ MovesOn(line, "RIGHT") => after = Following(edit, i - 1, "RIGHT")
      <4> HIDE DEF i
      <4> QED
        BY <2>1, FollowingGrows
    <3> QED
      BY <2>1, <3>1 DEF StartOf
  <2>7. /\ line.mark \in {" ", "+", "note"} => MovesOn(line, "RIGHT")
        /\ line.mark = "-" => ~ MovesOn(line, "RIGHT")
    BY DEF MovesOn, AdvancingMarks, OldFile
  <2> HIDE DEF i, line, scan, next, before, after, m
  <2>8. /\ next \in DeadScans
        /\ line.mark = "-" => next = scan
        /\ line.mark \in {" ", "+", "note"} => next.path = scan.path /\ next.right = scan.right + 1
        /\ line.mark = "hunk" => next.path = scan.path /\ next.right = line.right
    BY <2>2, <2>3, <2>4, <2>5, DeadLineEffect
  <2>9. next \in DeadScans /\ next.path = edit.new /\ next.right = after
    <3>1. CASE line.mark = "-"
      BY <2>4, <2>6, <2>7, <2>8, <3>1
    <3>2. CASE line.mark \in {" ", "+", "note"}
      BY <2>4, <2>6, <2>7, <2>8, <3>2
    <3>3. CASE line.mark = "hunk"
      BY <2>4, <2>6, <2>8, <3>3
    <3> QED
      BY <2>3, <3>1, <3>2, <3>3 DEF Marks
  <2> QED
    BY <2>9 DEF next, i, after
<1> HIDE DEF Good
<1>4. Nat \subseteq Good
  BY <1>2, <1>3, NumberInduction
<1>5. \A i \in 0..m : Counts(i)
  BY <1>1, <1>4 DEF Good
<1> QED
  BY <1>5

(* The rule reports a commented-out line under its path and number. *)
LEMMA DeadLineSeen ==
  ASSUME NEW change, Diffable(change), FilesLegible(change),
         NEW k \in DOMAIN change, ~ change[k].binary,
         NEW i \in 1..Len(change[k].lines),
         change[k].lines[i].mark = "+", change[k].lines[i].words \in CommentedOut
  PROVE  [path |-> change[k].new, line |-> NumberRead(change[k], i, "RIGHT"),
          detail |-> change[k].lines[i].words] \in DetectCommentedOutCode(Render(change))
<1> DEFINE edit == change[k]
           diff == Render(change)
           n == Len(diff)
           m == Len(edit.lines)
           found == [path |-> edit.new, line |-> NumberRead(edit, i, "RIGHT"),
                     detail |-> edit.lines[i].words]
<1>1. PICK at : Layout(at, change)
  BY DiffLayout
<1>2. diff \in Seq(LinesOf(change)) /\ \A line \in LinesOf(change) : DiffLine(line)
  BY <1>1, LinesOfDiff DEF Layout
<1>3. PICK b : Detects(b, diff)
  <2> HIDE DEF diff
  <2> QED
    BY <1>2, DetectScans
<1>4. /\ edit \in Edits /\ k \in 1..Len(change) /\ k - 1 \in 0..Len(change)
      /\ Hunked(edit) /\ NoNewFile(edit)
  BY ChangeType, TextEdit
<1>5. /\ edit.lines \in Seq(Lines) /\ m \in Nat /\ n \in Nat /\ i \in 1..m
      /\ DOMAIN edit.lines = 1..m
  BY <1>2, <1>4 DEF Edits
<1> DEFINE lines == RenderEdit(edit)
           base == at[k - 1]
<1>6. /\ Len(lines) = 3 + m
      /\ lines[3] = FileLine("+", edit.new)
      /\ \A j \in 1..m : lines[3 + j] = edit.lines[j]
  BY <1>4, RenderedEdit
<1>7. /\ base \in Nat /\ base + (3 + m) <= n
      /\ \A j \in 1..(3 + m) : diff[base + j] = lines[j]
  <2>1. /\ base \in 0..n /\ at[k] \in 0..n /\ at[k] = base + Len(lines)
        /\ \A j \in 1..Len(lines) : diff[base + j] = lines[j]
    BY <1>1, <1>4 DEF Layout
  <2> HIDE DEF base, lines, diff, m
  <2>2. at[k] <= n /\ base \in Nat
    BY <1>5, <2>1
  <2> QED
    BY <1>6, <2>1, <2>2
<1>8. \A j \in 0..n : b[j] \in DeadScans
  BY <1>3 DEF Detects
<1> HIDE DEF base, lines, edit, m
<1>9. ASSUME NEW j \in 1..(3 + m)
      PROVE  /\ b[base + j] = DeadLine(b[base + (j - 1)], lines[j])
             /\ b[base + (j - 1)] \in DeadScans /\ b[base + j] \in DeadScans
  <2>1. /\ base + j \in 1..n /\ (base + j) - 1 = base + (j - 1)
        /\ base + (j - 1) \in 0..n /\ base + j \in 0..n
    <3> DEFINE size == 3 + m
    <3>1. /\ base \in Nat /\ size \in Nat /\ n \in Nat /\ j \in 1..size
          /\ base + size <= n
      BY <1>5, <1>7
    <3> HIDE DEF size, base, n
    <3> QED
      BY <3>1, SMTT(30)
  <2>2. b[base + j] = DeadLine(b[(base + j) - 1], diff[base + j])
    BY <1>3, <2>1 DEF Detects
  <2> QED
    BY <1>7, <1>8, <2>1, <2>2
<1>10. 3 \in 1..(3 + m) /\ 3 - 1 = 2
  BY <1>5
<1>11. edit.new \in Paths /\ edit.new # NoPath
  BY <1>4 DEF Edits, Paths
<1>12. b[base + 3].path = edit.new /\ b[base + 3] \in DeadScans
  <2> DEFINE line == lines[3]
             scan == b[base + 2]
             next == b[base + 3]
  <2>1. /\ scan \in DeadScans /\ next = DeadLine(scan, line) /\ next \in DeadScans
    BY <1>9, <1>10
  <2>2. DiffLine(line) /\ NewFile(line) /\ line.names = edit.new
    BY <1>6, <1>11 DEF FileLine, DiffLine, NewFile, Marks, Paths
  <2> HIDE DEF line, scan, next
  <2>3. next.path = line.names
    BY <2>1, <2>2, DeadLineEffect
  <2> QED
    BY <2>1, <2>2, <2>3 DEF next
<1> DEFINE c == [j \in 0..m |-> b[base + (3 + j)]]
<1>13. c[0] = b[base + 3]
  BY <1>5
<1>14. ASSUME NEW j \in 1..m PROVE c[j] = DeadLine(c[j - 1], edit.lines[j])
  <2>1. /\ 3 + j \in 1..(3 + m) /\ (3 + j) - 1 = 3 + (j - 1)
        /\ j \in 0..m /\ j - 1 \in 0..m
    BY <1>5
  <2>2. b[base + (3 + j)] = DeadLine(b[base + ((3 + j) - 1)], lines[3 + j])
    BY <1>9, <2>1
  <2> QED
    BY <1>6, <2>1, <2>2
<1>15. i - 1 \in 0..m /\ i \in 0..m /\ i \in Nat \ {0}
  BY <1>5
<1>16. c[i] = b[base + (3 + i)]
  BY <1>15
<1> HIDE DEF c
<1>17. /\ c[i - 1] \in DeadScans /\ c[i - 1].path = edit.new
       /\ c[i - 1].right = NumberRead(edit, i, "RIGHT")
  <2>1. \A j \in 0..m : /\ c[j] \in DeadScans /\ c[j].path = edit.new
                        /\ j > 0 => c[j].right = Following(edit, j, "RIGHT")
    BY <1>4, <1>12, <1>13, <1>14, HunkCounted DEF m
  <2>2. edit.lines[i].mark # "hunk"
    BY DEF edit
  <2>3. i - 1 > 0
    BY <1>4, <1>15, <2>2, HunkOfNext
  <2> QED
    BY <1>15, <2>1, <2>3 DEF NumberRead
<1>18. found \in c[i].seen
  <2> DEFINE line == edit.lines[i]
             scan == c[i - 1]
  <2>1. line \in Lines /\ line.mark = "+" /\ line.words \in CommentedOut
    BY <1>5 DEF edit
  <2>2. DiffLine(line) /\ ~ NewFile(line)
    BY <1>4, <1>5, <2>1, EditLineType DEF NoNewFile
  <2>3. c[i] = DeadLine(scan, line)
    BY <1>5, <1>14
  <2> HIDE DEF line, scan
  <2>4. [path |-> scan.path, line |-> scan.right, detail |-> line.words] \in c[i].seen
    BY <1>17, <2>1, <2>2, <2>3, DeadLineEffect DEF scan
  <2> QED
    BY <1>17, <2>4 DEF scan, line
<1>19. b[base + (3 + i)].seen \subseteq b[n].seen
  <2>1. base + (3 + i) \in 0..n
    BY <1>5, <1>7
  <2>2. ASSUME NEW j \in 1..n PROVE b[j - 1].seen \subseteq b[j].seen
    <3>1. j - 1 \in 0..n /\ j \in DOMAIN diff
      BY <1>2, <1>5
    <3>2. DiffLine(diff[j])
      BY <1>2, <3>1
    <3>3. b[j] = DeadLine(b[j - 1], diff[j]) /\ b[j - 1] \in DeadScans
      BY <1>3, <1>8, <3>1 DEF Detects
    <3> HIDE DEF diff
    <3> QED
      BY <3>2, <3>3, DeadLineEffect
  <2> HIDE DEF n
  <2> QED
    BY <1>5, <2>1, <2>2, SeenStays
<1>20. b[n].seen = DetectCommentedOutCode(diff)
  BY <1>3 DEF Detects
<1> QED
  BY <1>16, <1>18, <1>19, <1>20 DEF edit

(* Whatever the model of the implementation role says, no added line of a  *)
(* legible post-image that is a comment reading as code goes without a     *)
(* finding that blocks at that line, unless an added line of the diff      *)
(* reads as the header of a file (review/rules/minimality.ts,              *)
(* detectCommentedOutCode; review/locations.ts, resolveLocation;           *)
(* review/roles/implementation.ts).                                        *)
THEOREM NoDeadCodeIsMissed == Spec => []DeadCodeIsReported
<1>1. ASSUME ServiceInv, FindingInv PROVE DeadCodeIsReported
  <2> SUFFICES ASSUME NEW s \in Present, slot[s].pc \in Speaking,
                      \E i \in DOMAIN slot[s].stated : RoleOrder[i] = "implementation",
                      FilesLegible(facts[s].change),
                      NEW k \in DOMAIN facts[s].change,
                      NEW i \in DOMAIN facts[s].change[k].lines,
                      ~ facts[s].change[k].binary,
                      PathOf(facts[s].change[k]) \notin Declared,
                      Legible(facts[s].change[k], "RIGHT"),
                      facts[s].change[k].lines[i].mark = "+",
                      facts[s].change[k].lines[i].words \in CommentedOut
               PROVE  \E f \in Raised(s) :
                        /\ f.blocking /\ f.role = "implementation"
                        /\ f.location = [path |-> PathOf(facts[s].change[k]),
                                         line |-> LineNumber(facts[s].change[k], i, "RIGHT"),
                                         side |-> "RIGHT"]
    BY Zenon DEF DeadCodeIsReported, Speaking
  <2> DEFINE change == facts[s].change
             edit == change[k]
             diff == Render(change)
             index == IndexDiff(diff)
             excluded == ExcludedPaths(diff)
             justified == facts[s].justified
             Resolved(location) == ResolveLocation(index, location, excluded)
  <2>1. facts \in Scenes /\ \A e \in drafts[s] : DOMAIN e = DraftFields
    BY <1>1 DEF ServiceInv, TypeOK, FindingInv, Kept
  <2>2. Diffable(change) /\ FilesLegible(change) /\ justified \in BOOLEAN
    BY <2>1, WhatIsRead
  <2>3. /\ Read(s).index = index /\ Read(s).excluded = excluded
        /\ RulesOf(s) = ApplyRules(diff, excluded, justified)
    BY <2>1, <2>2, WhatIsRead, ReadingIs DEF RulesOf
  <2>4. RulesOf(s) \subseteq drafts[s]
        /\ \A e \in drafts[s] : CreateFinding([e EXCEPT !.location = Resolved(e.location)])
                                  \in Raised(s)
    <3> DEFINE held == drafts[s]
    <3>1. Raised(s) = Raise(held, index, excluded) /\ \A e \in held : DOMAIN e = DraftFields
      BY <2>1, <2>3 DEF Raised
    <3> HIDE DEF held, index, excluded
    <3>2. \A f : f \in Raise(held, index, excluded) <=>
            \E e \in held : f = CreateFinding([e EXCEPT !.location = Resolved(e.location)])
      BY <3>1, RaisedFinding, SMTT(30)
    <3>3. RulesOf(s) \subseteq drafts[s]
      BY <1>1 DEF FindingInv, Kept
    <3> HIDE DEF Resolved
    <3> QED
      BY <3>1, <3>2, <3>3 DEF held
  <2> DEFINE o == [path |-> edit.new, line |-> NumberRead(edit, i, "RIGHT"),
                   detail |-> edit.lines[i].words]
             here == [path |-> o.path, line |-> o.line, side |-> "RIGHT"]
             d == RuleDraft("minimality:dead-code", "yes", here, <<o.path, o.detail>>)
             f == CreateFinding([d EXCEPT !.location = here])
  <2>5. edit \in Edits /\ edit.lines \in Seq(Lines) /\ i \in 1..Len(edit.lines)
    <3>1. edit \in Edits
      BY <2>2, ChangeType
    <3>2. edit.lines \in Seq(Lines)
      BY <3>1 DEF Edits
    <3> QED
      BY <3>1, <3>2
  <2>6. PathOf(edit) = edit.new
    BY <2>2 DEF Diffable, PathOf
  <2>7. NumberRead(edit, i, "RIGHT") = LineNumber(edit, i, "RIGHT")
    <3>1. edit.lines[i].mark = ChangeMark("RIGHT")
      BY DEF ChangeMark
    <3> QED
      BY <2>2, <2>5, <3>1, NumbersAgree
  <2>8. TrulyChanged(change, here)
    BY <2>6, <2>7 DEF TrulyChanged, ChangeMark
  <2>9. IsAddressable(index, here) /\ here.path \notin excluded
    <3>1. \A j \in DOMAIN change :
            PathOf(change[j]) = here.path => Legible(change[j], here.side)
      <4>1. \A j \in DOMAIN change : PathOf(change[j]) = PathOf(change[k]) => j = k
        BY <2>2 DEF Diffable
      <4> QED
        BY <2>6, <4>1
    <3> HIDE DEF here, change
    <3> QED
      BY <2>2, <2>8, <3>1, ChangedIsAddressable
  <2>10. o \in DetectCommentedOutCode(diff)
    BY <2>2, <2>5, DeadLineSeen
  <2>11. d \in drafts[s]
    <3>1. o.path \notin excluded
      BY <2>9
    <3> HIDE DEF o, excluded, diff
    <3>2. d \in CheckMinimality(DetectCommentedOutCode(diff), excluded)
      BY <2>10, <3>1 DEF CheckMinimality
    <3> HIDE DEF d
    <3> QED
      BY <2>3, <2>4, <3>2 DEF ApplyRules
  <2>12. /\ d.location = here /\ d.role = "implementation" /\ d.blocking = "yes"
         /\ DOMAIN d = DraftFields
    <3> HIDE DEF here, o
    <3> QED
      BY DEF RuleDraft, Draft, DraftFields
  <2> HIDE DEF d, here, o, index, excluded
  <2>13. Resolved(d.location) = here
    BY <2>9, <2>12 DEF ResolveLocation
  <2> HIDE DEF Resolved
  <2>14. f \in Raised(s)
    <3>1. f = CreateFinding([d EXCEPT !.location = Resolved(d.location)])
      BY <2>13
    <3> HIDE DEF f
    <3> QED
      BY <2>4, <2>11, <3>1
  <2>15. f.role = "implementation" /\ f.location = here /\ f.blocking = Blocks(d)
    BY <2>12, PlacedDraft
  <2>16. Blocks(d) = TRUE
    BY <2>12 DEF Blocks
  <2>17. here = [path |-> PathOf(edit), line |-> LineNumber(edit, i, "RIGHT"), side |-> "RIGHT"]
    BY <2>6, <2>7 DEF here, o
  <2> HIDE DEF f
  <2> QED
    BY <2>14, <2>15, <2>16, <2>17
<1> QED
  BY <1>1, InitInv, StepInv, InitKept, StepKept, PTL DEF Spec

=============================================================================
