----------------------------- MODULE Sloppiness -----------------------------
(***************************************************************************)
(* The host's own signals for code growth (harness/src/sloppiness.rs and   *)
(* sloppiness/language.rs), which the tool measure_sloppiness returns.     *)
(* Two questions, one per behaviour (`question`):                          *)
(*   "strip"   the scanners that blank comments, byte by byte;             *)
(*   "assess"  the analysis of a workspace and of its baseline, whose      *)
(*             batches of files end in any order, and the comparison.      *)
(* The baseline is the workspace without the comment lines that the task   *)
(* added, so that the comparison has a known answer.  A line of a file is  *)
(* the class of its normalised text, 0 when nothing of it is code.         *)
(***************************************************************************)
EXTENDS Naturals, Integers, Sequences, FiniteSets, SequencesExt

CONSTANTS
    MaxPieces,      \* pieces a scanned source is put together from
    MaxCode,        \* lines of the first file
    clone_window,   \* AnalysisPolicy.clone_window
    max_hotspots,   \* AnalysisPolicy.max_hotspots
    MaxListed,      \* limitations listed before they are only counted
    Workers         \* threads of the pool

ASSUME PolicyAssumption ==
    /\ MaxPieces \in Nat /\ MaxCode \in Nat /\ MaxListed \in Nat
    /\ clone_window \in Nat /\ clone_window >= 2
    /\ max_hotspots \in Nat \ {0} /\ Workers \in Nat

VARIABLES
    question,      \* the question of this behaviour
    language,   \* whose comments are blanked: "rust" or a generic profile
    source, cleaned, position,  \* what is scanned, what is written, and where
    mode, nesting,              \* the scanner's state; comment depth or hashes
    trees,      \* the workspace and its baseline, each a sequence of files
    side,       \* which of the two is being analysed, or "done"
    analyzed,   \* results of the batches that ended, in the order they ended
    reports     \* the report, or the error, of each side

slopVars == <<question, language, source, cleaned, position, mode, nesting,
              trees, side, analyzed, reports>>
scanVars == <<language, source, cleaned, position, mode, nesting>>
treeVars == <<trees, side, analyzed, reports>>

-----------------------------------------------------------------------------
(* Blanking comments.                                                      *)

Profiles == {"rust", "julia"}

\* The pieces sources are made of.  Here ' is the double quote, ! the
\* backslash and x a byte without a meaning of its own.
Pieces(profile) ==
    IF profile = "rust"
    THEN {<<"/", "*", "x">>, <<"*", "/", "x">>, <<"/", "/", "x">>, <<"/">>, <<"*">>,
          <<"'">>, <<"!", "'">>, <<"r", "#", "'">>, <<"'", "#">>, <<"x">>, <<"newline">>}
    ELSE {<<"#", "=", "x">>, <<"=", "#", "x">>, <<"#", "x">>, <<"'">>, <<"!", "'">>,
          <<"x">>, <<"newline">>}
Quote == "'"
Escape == "!"

\* The julia profile has one block comment, #= =#, and the line comment #:
\* a block marker begins with the line marker.
BlockStart(profile) == IF profile = "rust" THEN <<"/", "*">> ELSE <<"#", "=">>
BlockEnd(profile) == IF profile = "rust" THEN <<"*", "/">> ELSE <<"=", "#">>
LineStart(profile) == IF profile = "rust" THEN <<"/", "/">> ELSE <<"#">>

starts_with(marker) ==
    /\ position + Len(marker) - 1 <= Len(source)
    /\ SubSeq(source, position, position + Len(marker) - 1) = marker

Blanks(n) == [i \in 1..n |-> "blank"]
Bytes(n) == SubSeq(source, position, position + n - 1)

\* The end of the line the scanner is on, the newline not included.
LineEnd ==
    LET ends == {i \in position..Len(source) : source[i] = "newline"}
    IN  IF ends = {} THEN Len(source)
        ELSE (CHOOSE i \in ends : \A j \in ends : i <= j) - 1

\* One turn of the loop: `bytes` are written for the n that are consumed.
Write(n, bytes, nextMode, nextNesting) ==
    /\ cleaned' = cleaned \o bytes
    /\ position' = position + n
    /\ mode' = nextMode /\ nesting' = nextNesting
    /\ UNCHANGED <<question, language, source, treeVars>>

\* The hashes after an r and before a quote, as {hashes}; {} when none starts.
raw_string_start ==
    {h \in 0..Len(source) :
        /\ source[position] = "r"
        /\ position + h + 1 <= Len(source)
        /\ \A i \in 1..h : source[position + i] = "#"
        /\ source[position + h + 1] = Quote}

raw_string_end(hashes) ==
    /\ source[position] = Quote
    /\ position + hashes <= Len(source)
    /\ \A i \in 1..hashes : source[position + i] = "#"

Scanning == question = "strip" /\ position <= Len(source)

LineBlanks(n) == Blanks(n)
scan_line_comment ==
    /\ Scanning /\ mode = "code"
    /\ ~starts_with(BlockStart(language)) /\ starts_with(LineStart(language))
    /\ LET n == LineEnd - position + 1 IN Write(n, LineBlanks(n), "code", 0)

scan_block_start ==
    /\ Scanning /\ mode = "code" /\ starts_with(BlockStart(language))
    /\ Write(2, Blanks(2), "block", 1)

\* The rest of the code: strings keep what they hold.
scan_code ==
    /\ Scanning /\ mode = "code"
    /\ ~starts_with(BlockStart(language)) /\ ~starts_with(LineStart(language))
    /\ \/ source[position] = Quote /\ Write(1, Bytes(1), "string", 0)
       \/ /\ language = "rust" /\ raw_string_start # {}
          /\ \E h \in raw_string_start : Write(h + 2, Bytes(h + 2), "raw", h)
       \/ /\ source[position] # Quote
          /\ (language = "rust" => raw_string_start = {})
          /\ Write(1, Bytes(1), "code", 0)

BlockNests == language = "rust" /\ starts_with(BlockStart(language))
BlockByte == IF source[position] = "newline" THEN <<"newline">> ELSE Blanks(1)
scan_block ==
    /\ Scanning /\ mode = "block"
    /\ \/ BlockNests /\ Write(2, Blanks(2), "block", nesting + 1)
       \/ /\ ~BlockNests /\ starts_with(BlockEnd(language))
          /\ IF nesting = 1 THEN Write(2, Blanks(2), "code", 0)
             ELSE Write(2, Blanks(2), "block", nesting - 1)
       \/ /\ ~BlockNests /\ ~starts_with(BlockEnd(language))
          /\ Write(1, BlockByte, "block", nesting)

scan_string ==
    /\ Scanning /\ mode = "string"
    /\ IF source[position] = Escape /\ position < Len(source)
       THEN Write(2, Bytes(2), "string", 0)
       ELSE Write(1, Bytes(1),
                  IF source[position] = Quote THEN "code" ELSE "string", 0)

scan_raw ==
    /\ Scanning /\ mode = "raw"
    /\ IF raw_string_end(nesting) THEN Write(nesting + 1, Bytes(nesting + 1), "code", 0)
       ELSE Write(1, Bytes(1), "raw", nesting)

-----------------------------------------------------------------------------
(* The analysis of a tree.                                                 *)

File(kind, lines, span, complexity) ==
    [kind |-> kind, lines |-> lines, span |-> span, complexity |-> complexity]

\* The first file is code, the second one any entry of a workspace: the
\* entries that are no source are symbolic links, ignored names and excluded
\* directories.
Firsts == {"rust", "generic", "unreadable"}
Seconds == {"rust", "unparsed", "binary", "unreadable", "ignored"}

\* A redundant expression of the first file, by its lines; <<1, 0>> is none.
RedundantSpans == {<<1, 0>>, <<1, 2>>}

LineClasses(n) == UNION {[1..k -> {1, 2}] : k \in 0..n}
SpansOf(kind) == IF kind = "rust" THEN RedundantSpans ELSE {<<1, 0>>}

Baselines ==
    {<<File(k, ls, sp, c), File(k2, ls2, <<1, 0>>, 1)>> :
        k \in Firsts, ls \in {l \in LineClasses(MaxCode) : l = <<>> \/ l[1] = 1},
        sp \in RedundantSpans, c \in 1..2, k2 \in Seconds, ls2 \in {<<>>, <<1, 2>>, <<2, 1>>}}

\* A comment line is added before line `at`: what follows moves down.
WithComment(file, at) ==
    [file EXCEPT !.lines = InsertAt(file.lines, at, 0),
                 !.span = IF at <= @[1] THEN <<@[1] + 1, @[2] + 1>>
                          ELSE IF at <= @[2] THEN <<@[1], @[2] + 1>> ELSE @]

TreePairs ==
    UNION {{<<t, t>>} \cup {<<[t EXCEPT ![1] = WithComment(t[1], at)], t>> :
                            at \in 1..(Len(t[1].lines) + 1)} :
           t \in {b \in Baselines : b[1].span \in SpansOf(b[1].kind)
                                    /\ b[1].span[2] <= Len(b[1].lines)}}

Tree == trees[IF side = "current" THEN 1 ELSE 2]

\* The paths of the tree in their order; an entry that is no source is left out.
collect_source_files == SelectSeq(<<1, 2>>, LAMBDA p : Tree[p].kind # "ignored")

analysis_batch_size(files, workers) ==
    LET slots == 4 * (IF workers > 1 THEN workers ELSE 1)
        size == (files + slots - 1) \div slots
    IN  IF size > 1 THEN size ELSE 1

Batches ==
    LET paths == collect_source_files
        size == analysis_batch_size(Len(paths), Workers)
        count == (Len(paths) + size - 1) \div size
    IN  [b \in 1..count |->
            SubSeq(paths, (b - 1) * size + 1,
                   IF b * size < Len(paths) THEN b * size ELSE Len(paths))]

Analysed(file) == file.kind \in {"rust", "generic", "unparsed"}
CodeLines(file) == {i \in 1..Len(file.lines) : file.lines[i] # 0}

mark(file) == {i \in file.span[1]..file.span[2] : i \in CodeLines(file)}

\* FunctionMetric of the function that fills a parsed file.  The mass is
\* compared, never shown: its square, complexity^2 * lines, orders the same.
FunctionOf(path, file) ==
    [path |-> path, mass |-> file.complexity ^ 2 * Cardinality(CodeLines(file))]

\* The files of a batch, one after the other.
analyze_file(path) ==
    LET file == Tree[path] IN
    [path |-> path,
     error |-> file.kind = "unreadable",
     file |-> Analysed(file),
     ast_lines |-> IF file.kind = "rust" THEN mark(file) ELSE {},
     functions |-> IF file.kind = "rust" /\ file.lines # <<>>
                   THEN <<FunctionOf(path, file)>> ELSE <<>>,
     limitation |-> file.kind \in {"binary", "unparsed"}]

BatchesEnded == {analyzed[i].batch : i \in DOMAIN analyzed}

\* A batch of files has been analysed by some thread.
batch_ends(b) ==
    /\ question = "assess" /\ side # "done" /\ b \in DOMAIN Batches \ BatchesEnded
    /\ analyzed' = Append(analyzed,
            [batch |-> b,
             results |-> [i \in DOMAIN Batches[b] |-> analyze_file(Batches[b][i])]])
    /\ UNCHANGED <<question, scanVars, trees, side, reports>>

InPathOrder ==
    FlattenSeq([b \in DOMAIN Batches |->
        LET i == CHOOSE j \in DOMAIN analyzed : analyzed[j].batch = b
        IN  analyzed[i].results])

\* push_limitation for each of them: what is listed, and how many are only
\* counted.
push_limitation(limitations) ==
    [listed |-> SubSeq(limitations, 1,
                       IF Len(limitations) < MaxListed THEN Len(limitations) ELSE MaxListed),
     omitted |-> IF Len(limitations) > MaxListed THEN Len(limitations) - MaxListed ELSE 0]

Meaningful(path) == SetToSortSeq(CodeLines(Tree[path]), <)

\* The windows of clone_window meaningful lines, as (path, line numbers).
Windows(paths) ==
    UNION {{<<p, SubSeq(Meaningful(p), i, i + clone_window - 1)>> :
            i \in 1..(Len(Meaningful(p)) - clone_window + 1)} : p \in paths}

Content(window) == [i \in 1..clone_window |-> Tree[window[1]].lines[window[2][i]]]

Apart(v, w) == v # w /\ (v[1] # w[1] \/ Range(v[2]) \cap Range(w[2]) = {})

Duplicated(windows) ==
    {w \in windows : \E v \in windows : Content(v) = Content(w) /\ Apart(v, w)}

\* clone_lines: the lines of the duplicated windows and the number of groups
\* with at least two of them.
clone_lines(duplicated) ==
    LET copies(text) == {w \in duplicated : Content(w) = text}
        groups == {text \in {Content(w) : w \in duplicated} :
                        Cardinality(copies(text)) >= 2}
    IN  [lines |-> UNION {{<<w[1], l>> : l \in Range(w[2])} :
                          w \in {x \in duplicated : Content(x) \in groups}},
         groups |-> Cardinality(groups)]

Heavier(f, g) == f.mass > g.mass \/ (f.mass = g.mass /\ f.path < g.path)

erosion_report(functions) ==
    LET sorted == SortSeq(functions, Heavier)
    IN  SubSeq(sorted, 1,
               IF Len(sorted) < max_hotspots THEN Len(sorted) ELSE max_hotspots)

ReportOf(results) ==
    LET files == {r.path : r \in {x \in Range(results) : x.file}}
        generic == Cardinality({p \in files : Tree[p].kind = "generic"})
        clones == clone_lines(Duplicated(Windows(files)))
        ast == UNION {{<<r.path, l>> : l \in r.ast_lines} : r \in Range(results)}
        limited == SelectSeq(results, LAMBDA r : r.limitation)
    IN  [error |-> 0,
         source_lines |-> Cardinality(UNION {{<<p, l>> : l \in CodeLines(Tree[p])} : p \in files}),
         flagged |-> Cardinality(ast \cup clones.lines),
         clone_lines |-> Cardinality(clones.lines),
         clone_groups |-> clones.groups,
         limitations |-> push_limitation(
             [i \in DOMAIN limited |-> limited[i].path]
             \o (IF generic > 0 THEN <<3>> ELSE <<>>)),
         functions |-> FlattenSeq([i \in DOMAIN results |-> results[i].functions]),
         hotspots |-> erosion_report(
             FlattenSeq([i \in DOMAIN results |-> results[i].functions]))]

Failure(path) == [error |-> path]

\* analyze_with_policy has every result: the first failing path is the error
\* of the whole analysis.  assess looks at the baseline only after a success.
analysis_ends ==
    /\ question = "assess" /\ side # "done" /\ BatchesEnded = DOMAIN Batches
    /\ \E results \in {InPathOrder} :
         \E bad \in {SelectSeq(results, LAMBDA r : r.error)} :
           /\ reports' = Append(reports, IF bad # <<>> THEN Failure(bad[1].path)
                                         ELSE ReportOf(results))
           /\ side' = (IF side = "current" /\ bad = <<>> THEN "baseline" ELSE "done")
    /\ analyzed' = <<>>
    /\ UNCHANGED <<question, scanVars, trees>>

\* A source is to be cleaned, or the tool is called on a workspace.
strip_begins ==
    /\ question = "none" /\ question' = "strip"
    /\ \E l \in Profiles : \E n \in 0..MaxPieces : \E s \in [1..n -> Pieces(l)] :
          language' = l /\ source' = FlattenSeq(s)
    /\ UNCHANGED <<cleaned, position, mode, nesting, treeVars>>

measure_sloppiness ==
    /\ question = "none" /\ question' = "assess"
    /\ trees' \in TreePairs
    /\ UNCHANGED <<scanVars, side, analyzed, reports>>

SlopInit ==
    /\ question = "none" /\ language = "rust" /\ source = <<>>
    /\ cleaned = <<>> /\ position = 1 /\ mode = "code" /\ nesting = 0
    /\ trees = <<>> /\ side = "current" /\ analyzed = <<>> /\ reports = <<>>

SlopNext ==
    \/ strip_begins \/ measure_sloppiness
    \/ scan_line_comment \/ scan_block_start \/ scan_code \/ scan_block
    \/ scan_string \/ scan_raw
    \/ \E b \in 1..2 : batch_ends(b)
    \/ analysis_ends

-----------------------------------------------------------------------------
SlopTypeOK ==
    /\ language \in Profiles /\ nesting \in Nat
    /\ mode \in {"code", "block", "string", "raw"}
    /\ side \in {"current", "baseline", "done"} /\ Len(reports) <= 2

\* Blanking comments moves no line and changes no byte but into a blank: the
\* spans that the parser reports for the source still name the same lines of
\* the cleaned text, which is what count_lines and mark rely on.
LinesStay ==
    question = "strip" =>
        /\ Len(cleaned) = position - 1
        /\ \A i \in DOMAIN cleaned :
             /\ cleaned[i] \in {source[i], "blank"}
             /\ (source[i] = "newline") = (cleaned[i] = "newline")

\* Where the first token of a source that is not plain code begins, if any.
Marker(i, marker) ==
    i + Len(marker) - 1 <= Len(source) /\ SubSeq(source, i, i + Len(marker) - 1) = marker
Raw(i) == language = "rust" /\ Marker(i, <<"r", "#", Quote>>)
OpensAt(i) ==
    \/ Marker(i, BlockStart(language)) \/ Marker(i, LineStart(language))
    \/ source[i] = Quote \/ Raw(i) \/ (language = "rust" /\ Marker(i, <<"r", Quote>>))

\* A quote is escaped by an odd number of backslashes before it.
Escaped(j) ==
    \E n \in 1..j : /\ n % 2 = 1 /\ n < j
                    /\ \A k \in 1..n : source[j - k] = Escape
                    /\ (n = j - 1 \/ source[j - n - 1] # Escape)
Least(S) == IF S = {} THEN Len(source) ELSE CHOOSE i \in S : \A j \in S : i <= j
Starts(i, j) == Cardinality({k \in i..j - 1 : Marker(k, BlockStart(language))})
Ends(i, j) == Cardinality({k \in i..j - 1 : Marker(k, BlockEnd(language))})

\* The last byte of the token that begins at i, from the language's rules.
TokenEnd(i) ==
    CASE Marker(i, BlockStart(language)) ->
           Least({j \in i + 3..Len(source) :
                    /\ Marker(j - 1, BlockEnd(language))
                    /\ language = "rust" => Starts(i, j) = Ends(i, j)})
      [] ~Marker(i, BlockStart(language)) /\ Marker(i, LineStart(language)) ->
           Least({j \in i..Len(source) : j < Len(source) /\ source[j + 1] = "newline"})
      [] Raw(i) -> Least({j \in i + 4..Len(source) : Marker(j - 1, <<Quote, "#">>)})
      [] source[i] = Quote ->
           Least({j \in i + 1..Len(source) : source[j] = Quote /\ ~Escaped(j)})

\* Markers that share a byte have no single reading in the rules above.
Overlaps ==
    \E i \in 1..Len(source) : \/ Marker(i, <<"/", "*", "/">>) \/ Marker(i, <<"*", "/", "*">>)
                              \/ Marker(i, <<"#", "=", "#">>) \/ Marker(i, <<"=", "#", "=">>)

\* Comments and nothing else are blanked: the code before the first token is
\* kept, a comment is blanked to its matching end (nested ones included in
\* Rust) and a string is kept to its own end, whatever it holds.
FirstTokenExact ==
    (question = "strip" /\ position > Len(source) /\ ~Overlaps) =>
        LET opens == {i \in 1..Len(source) : OpensAt(i)}
            first == Least(opens)
            comment == Marker(first, BlockStart(language)) \/ Marker(first, LineStart(language))
        IN  /\ \A i \in 1..first - 1 : cleaned[i] = source[i]
            /\ opens # {} /\ ~Marker(first, <<"r", Quote>>) =>
                 \A i \in first..TokenEnd(first) :
                    cleaned[i] = IF comment /\ source[i] # "newline" THEN "blank" ELSE source[i]

Succeeded(i) == reports[i].error = 0

\* Comments are no code: a task that only added comment lines has the same
\* size, the same flagged lines and the same clones as its baseline, however
\* the comments cut through copies and redundant expressions.
CommentsNeutral ==
    (Len(reports) = 2 /\ Succeeded(1) /\ Succeeded(2)) =>
        /\ reports[1].source_lines = reports[2].source_lines
        /\ reports[1].flagged = reports[2].flagged
        /\ reports[1].clone_groups = reports[2].clone_groups

\* The ratio is one: every line that is flagged is a line that is counted.
RatioBounded ==
    \A i \in DOMAIN reports :
        Succeeded(i) => reports[i].flagged <= reports[i].source_lines

\* A clone is two pieces of text: a group flags at least two windows that
\* have no line in common, so a run of equal lines is no clone of itself.
ClonesApart ==
    \A i \in DOMAIN reports : Succeeded(i) =>
        /\ (reports[i].clone_groups > 0) = (reports[i].clone_lines > 0)
        /\ reports[i].clone_groups > 0 => reports[i].clone_lines >= 2 * clone_window

\* The order in which threads end is not seen: limitations are in the order
\* of the paths and of the unreadable files it is the first that is named.
ReportDeterministic ==
    \A i \in DOMAIN reports :
        IF Succeeded(i)
        THEN /\ \A p \in 1..2 : trees[i][p].kind # "unreadable"
             /\ LET l == reports[i].limitations.listed
                IN  \A m, n \in DOMAIN l : m < n => l[m] < l[n]
        ELSE /\ trees[i][reports[i].error].kind = "unreadable"
             /\ \A p \in 1..(reports[i].error - 1) : trees[i][p].kind # "unreadable"

\* The hotspots are the heaviest functions: none that was cut off weighs more
\* than one that is shown.
HotspotsWorst ==
    \A i \in DOMAIN reports : Succeeded(i) =>
        \A f \in Range(reports[i].functions) \ Range(reports[i].hotspots) :
            \A h \in Range(reports[i].hotspots) : f.mass <= h.mass
=============================================================================
