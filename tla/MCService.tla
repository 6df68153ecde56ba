----------------------------- MODULE MCService -----------------------------
(* Instances of Service for TLC: diffs, facts and scenes. *)
EXTENDS ServiceProperties

Line(mark, words) == [mark |-> mark, words |-> words, names |-> NoPath]
Hunk(left, right) == [mark |-> "hunk", left |-> left, right |-> right]

Source == Edit("src/a", "src/a",
               <<Hunk(3, 3), Line(" ", "k"), Line("-", "x"), Line(" ", "k"), Line("+", "y")>>)
Longer == Edit("src/a", "src/a",
               <<Hunk(3, 3), Line("-", "x"), Line(" ", "k"), Line("+", "y"),
                 Line("+", "//call()")>>)
(* Two hunks; the second is further down the post-image. *)
Twice == Edit("src/a", "src/a",
              <<Hunk(1, 1), Line("-", "x"), Line("+", "y"), Line("+", "z"),
                Hunk(4, 5), Line(" ", "k"), Line("+", "//call()")>>)
Test == Edit("test/a", "test/a", <<Hunk(1, 1), Line("+", "t")>>)
Doc == Edit("docs/a", "docs/a", <<Hunk(1, 1), Line("+", "d")>>)
Design == Edit("specs/a", "specs/a", <<Hunk(1, 1), Line("+", "s")>>)
Generated == Edit("gen/a", "gen/a", <<Hunk(1, 1), Line("+", "g"), Line("+", "h")>>)
Removal == Edit("src/b", DevNull, <<Hunk(1, 0), Line("-", "b")>>)
Picture == BinaryEdit("src/a.png", "src/a.png")
Respaced == Edit("src/a", "src/a", <<Hunk(1, 1), Line("-", "x"), Line("+", "x")>>)
(* The last line of a file that did not end in a newline is replaced. *)
LastLine == Edit("src/a", "src/a",
                 <<Hunk(3, 3), Line(" ", "k"), Line("-", "x"), Line("note", "no newline"),
                   Line("+", "y")>>)
(* A removed line, and an added one, that read as the header of a file. *)
RemovedHeader == Edit("src/a", "src/a",
                      <<Hunk(3, 3), FileLine("-", "src/b"), Line("-", "x"), Line(" ", "k"),
                        Line("+", "y"), Line("+", "//call()")>>)
AddedHeader == Edit("src/a", "src/a",
                    <<Hunk(3, 3), FileLine("+", "test/a"), Line("-", "x"), Line("+", "y")>>)

Granted == [checks |-> 2, contents |-> 1]
Plain ==
  [pullRequest |-> 1, granted |-> Granted,
   response |-> [status |-> 200, message |-> "", contexts |-> {"independent-review"}],
   credential |-> TRUE, author |-> [reported |-> TRUE, slug |-> "author"],
   round |-> 1, replied |-> FALSE, length |-> 18,
   change |-> <<Source, Test, Doc>>, justified |-> FALSE,
   signals |-> [readable |-> TRUE, remaining |-> 9, retryAfter |-> -1, reset |-> 2],
   proposals |-> [role \in {"security", "implementation"} |-> {}]]

(* Prerequisites, identity and progress, each by itself *)
Refused ==
  {[Plain EXCEPT !.granted.checks = 1], [Plain EXCEPT !.credential = FALSE],
   [Plain EXCEPT !.response.contexts = {"build"}],
   [Plain EXCEPT !.response = [status |-> 403, message |-> "upgrade", contexts |-> {}]],
   [Plain EXCEPT !.response = [status |-> 404, message |-> "", contexts |-> {}]],
   [Plain EXCEPT !.response = [status |-> 500, message |-> "", contexts |-> {}]],
   [Plain EXCEPT !.author.slug = "reviewer"],
   [Plain EXCEPT !.author = [reported |-> FALSE, slug |-> "reviewer"]],
   [Plain EXCEPT !.round = 2], [Plain EXCEPT !.round = 2, !.replied = TRUE],
   [Plain EXCEPT !.round = 3, !.replied = TRUE],
   [Plain EXCEPT !.signals.remaining = 1], [Plain EXCEPT !.signals.readable = FALSE],
   [Plain EXCEPT !.signals.remaining = 1, !.signals.reset = 9]}

(* Where the model might place a finding; one role proposes one that blocks. *)
Places == [path : {"src/a"}, line : 0..6, side : {"LEFT", "RIGHT"}]
            \cup [path : {"src/b", "gen/a", "../a"}, line : {1}, side : {"LEFT", "RIGHT"}]
Proposals ==
  [security |-> {[rule |-> "r", severity |-> "high", blocking |-> "no", location |-> place] :
                   place \in Places},
   implementation |-> {[rule |-> "b", severity |-> "low", blocking |-> "yes",
                        location |-> PullRequestLevel]}]

Placed == {<<Source, Test, Doc, Generated>>, <<Removal, Longer>>, <<Twice, Test, Doc>>,
           <<LastLine, Test, Doc>>, <<RemovedHeader, Removal>>, <<AddedHeader, Doc>>}
Changes == {<<Longer, Test, Doc>>, <<Source, Test>>, <<Source, Doc>>, <<Source, Test, Design>>,
            <<Doc>>, <<Picture, Source, Test, Doc>>, <<Respaced>>,
            <<Source, Test, Doc, Removal>>, <<Longer, Test, Doc, Removal>>,
            <<Longer, Test, Doc, Removal, Design>>}

Alone(f) == [s \in {"daemon"} |-> f]
Both(f, g) == [s \in {"daemon", "cli"} |-> IF s = "daemon" THEN f ELSE g]

Changed ==
  {[Plain EXCEPT !.change = c, !.proposals = Proposals] : c \in Placed}
    \cup {[Plain EXCEPT !.change = c] : c \in Changes}
    \cup {[Plain EXCEPT !.change = <<Source, Test, Doc, Removal>>, !.justified = TRUE]}

(* Two processes spend at once, and escalate the same and different things. *)
Uncredited == [Plain EXCEPT !.credential = FALSE]
Stalled == [Plain EXCEPT !.round = 2]
Pairs == {Both(Plain, Plain), Both(Uncredited, Uncredited), Both(Uncredited, Stalled),
          Both(Stalled, [Stalled EXCEPT !.pullRequest = 2])}

SpendingScenes == {Alone(f) : f \in Refused \cup Changed} \cup Pairs

NoNewlineScenes ==
  {Alone([Plain EXCEPT !.change = <<LastLine, Test, Doc>>, !.proposals = Proposals])}

AllStreams ==
  {[ended |-> "threw", usage |-> NoUsage, text |-> "none"],
   [ended |-> "errored", usage |-> 0, text |-> "none"],
   [ended |-> "errored", usage |-> 2, text |-> "none"],
   [ended |-> "success", usage |-> NoUsage, text |-> "review"],
   [ended |-> "success", usage |-> 0, text |-> "review"],
   [ended |-> "success", usage |-> 2, text |-> "none"],
   [ended |-> "success", usage |-> 2, text |-> "malformed"],
   [ended |-> "success", usage |-> 2, text |-> "review"]}

Needed == [checks |-> 2, contents |-> 1]
TwoRoles == <<"security", "implementation">>
=============================================================================
