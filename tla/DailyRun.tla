------------------------------ MODULE DailyRun ------------------------------
(***************************************************************************)
(* The commands daily run and daily list (src/bin/daily.rs) over the       *)
(* manifest of benchmark rows (src/benchmarks/manifest.rs), the command    *)
(* readme (src/bin/readme.rs), which runs the same rows section by         *)
(* section, and memory (src/bin/memory.rs), which runs those of one.  A    *)
(* run loads the manifest, selects rows, measures them one after the       *)
(* other, and only then opens the CSV file and appends one line a row.     *)
(* Runs in one checkout may follow each other or overlap; the file is      *)
(* opened for append and not buffered, so each line goes out in several    *)
(* writes, which the operating system puts at the end of the file.         *)
(***************************************************************************)
EXTENDS Naturals, Sequences, FiniteSets, SequencesExt, Arrange

CONSTANTS
  Runs,          \* the processes
  Manifests,     \* the contents the directory benchmarks/ may have
  Registered,    \* the ids of registry()
  SectionOrder,  \* SECTION_ORDER
  IdOrder,       \* the ids that occur, in alphabetical order
  Commands,      \* the command lines
  Parts,         \* the writes in which one line of a row goes out
  Faults         \* what can go wrong: a subset of FaultKinds

FaultKinds ==
  {"bench",  \* a benchmark panics
   "open",   \* the CSV file cannot be opened
   "write",  \* a write fails, and unwrap() panics
   "kill"}   \* the process is killed

ASSUME RunsAssumption ==
  /\ IsFiniteSet(Runs) /\ Runs \cap {"header", "old"} = {}
  /\ Parts \in Nat \ {0}
  /\ Faults \subseteq FaultKinds

VARIABLES
  files,     \* the row files below benchmarks/
  pc,        \* where each run is
  cmd,       \* its command line
  rows,      \* the rows it selected
  measured,  \* how many of them it has measured
  header,    \* needs_header
  written,   \* the writes it has made
  exists,    \* the CSV file exists
  csv,       \* its contents, write by write
  overlapped \* history: a run started while another was running

vars == <<files, pc, cmd, rows, measured, header, written, exists, csv,
          overlapped>>

NoSection == "(none)"
NoCommand == [tool |-> "none", ids |-> <<>>, section |-> NoSection,
              csv |-> FALSE]

-----------------------------------------------------------------------------
(* The manifest.                                                           *)

Id(f) == <<f.dir, f.name>>

IsRow(f) == f.name # "_template"

\* IdOrder has every id, and every entry of registry() is of a section of
\* SECTION_ORDER.
ASSUME ManifestAssumption ==
  /\ SectionOrder \in Seq(ToSet(SectionOrder))
  /\ IdOrder \in Seq(ToSet(IdOrder))
  /\ \A manifest \in Manifests :
       /\ IsFiniteSet(manifest)
       /\ \A f \in manifest : IsRow(f) => Id(f) \in ToSet(IdOrder)
  /\ \A id \in Registered : id[1] \in ToSet(SectionOrder)

\* parse_command: a command that is not known has nothing else, and only daily
\* writes the CSV file.
ASSUME CommandsAssumption ==
  \A c \in Commands :
    /\ c.tool \in {"daily", "list", "readme", "memory", "unknown"}
    /\ c.tool = "unknown" => c = [NoCommand EXCEPT !.tool = "unknown"]
    /\ c.csv => c.tool = "daily"

Position(s, x) == CHOOSE i \in DOMAIN s : s[i] = x

SectionRank(section) ==
  IF \E i \in DOMAIN SectionOrder : SectionOrder[i] = section
    THEN Position(SectionOrder, section) ELSE Len(SectionOrder) + 1

\* Section by section, and by id within a section.
Before(a, b) ==
  LET ra == SectionRank(a.section)
      rb == SectionRank(b.section)
  IN  \/ ra < rb
      \/ ra = rb /\ Position(IdOrder, Id(a)) < Position(IdOrder, Id(b))

\* parse_row panics on any other file, whatever was asked for.
WellFormed(f) == f.section = f.dir /\ Id(f) \in Registered

RowFiles == {f \in files : IsRow(f)}

\* read_dir gives the directories, and the files in each, in any order.
Walks ==
  {s \in SetToSeqs(RowFiles) :
     \A i, j \in DOMAIN s : i < j /\ s[i].dir = s[j].dir =>
       \A k \in i .. j : s[k].dir = s[i].dir}

LoadRows(walk) == SortedBy(walk, Before)

\* The rows a request names: an id has a slash, and a key has none.
Matches(request, all) ==
  {f \in ToSet(all) : IF request.full THEN Id(f) = request.id
                                      ELSE f.key = request.id[2]}

\* Mutant: a key that several rows have stands for all of them.
MutResolvable(request, all) == Matches(request, all) # {}

\* Otherwise resolve_ids panics: unknown, or an ambiguous key.
Resolvable(request, all) == Cardinality(Matches(request, all)) = 1

\* The rows of list_rows.
ListRows(all, nightlyOnly, section) ==
  Filtered(all, {i \in DOMAIN all :
                   /\ nightlyOnly => all[i].nightly
                   /\ section = NoSection \/ all[i].section = section})

\* cmd_run: ids first, then the section, then the nightly rows.  readme runs
\* the nightly rows of one section or of all, memory all rows of its own.
Selected(c, all) ==
  IF c.tool = "readme" THEN ListRows(all, TRUE, c.section)
  ELSE IF c.tool = "memory" THEN ListRows(all, FALSE, "memory")
  ELSE IF c.ids # <<>> THEN
    Filtered(all, {i \in DOMAIN all : \E k \in DOMAIN c.ids :
                     all[i] \in Matches(c.ids[k], all)})
  ELSE IF c.section # NoSection THEN ListRows(all, FALSE, c.section)
  ELSE ListRows(all, TRUE, NoSection)

-----------------------------------------------------------------------------
(* A line of the file goes out in Parts writes, the header in one.         *)

RowWrite(r, k) == [run |-> r, write |-> k]
Header == [run |-> "header", write |-> 1]
OldLine == [run |-> "old", write |-> 1]

Init ==
  /\ files \in Manifests
  /\ pc = [r \in Runs |-> "idle"]
  /\ cmd = [r \in Runs |-> NoCommand]
  /\ rows = [r \in Runs |-> <<>>]
  /\ measured = [r \in Runs |-> 0]
  /\ header = [r \in Runs |-> FALSE]
  /\ written = [r \in Runs |-> 0]
  /\ \/ exists = FALSE /\ csv = <<>>
     \/ exists = TRUE /\ csv \in {<<>>, <<Header, OldLine>>}
  /\ overlapped = FALSE

Ended == {"ok", "usage", "panicked", "killed"}

Goto(r, label) == pc' = [pc EXCEPT ![r] = label]

\* parse_command ends a command it does not know, and cmd_run one that names
\* no rows, before the manifest is read.
Start(r) ==
  /\ pc[r] = "idle"
  /\ \E c \in Commands :
       /\ cmd' = [cmd EXCEPT ![r] = c]
       /\ Goto(r, IF c \in {[NoCommand EXCEPT !.tool = t] :
                             t \in {"daily", "unknown"}}
                    THEN "usage" ELSE "load")
  /\ overlapped' =
       (overlapped \/ \E q \in Runs : pc[q] \notin Ended \cup {"idle"})
  /\ UNCHANGED <<files, rows, measured, header, written, exists, csv>>

\* load_rows, resolve_ids and the selection.  One bad file of the manifest
\* ends every command, daily run ends when no row matched, and daily list when
\* it has printed its rows.
Load(r) ==
  /\ pc[r] = "load"
  /\ \E walk \in Walks :
       LET all == LoadRows(walk)
           sel == Selected(cmd[r], all)
       IN  IF \/ \E f \in ToSet(walk) : ~WellFormed(f)
              \/ \E i \in DOMAIN cmd[r].ids : ~Resolvable(cmd[r].ids[i], all)
             THEN Goto(r, "panicked") /\ UNCHANGED rows
           ELSE IF cmd[r].tool = "list"
             THEN Goto(r, "ok") /\ UNCHANGED rows
           ELSE IF sel = <<>> /\ cmd[r].tool = "daily"
             THEN Goto(r, "usage") /\ UNCHANGED rows
           ELSE rows' = [rows EXCEPT ![r] = sel] /\ Goto(r, "run")
  /\ UNCHANGED <<files, cmd, measured, header, written, exists, csv,
                 overlapped>>

\* Mutant: the loop runs one row too far.
MutMeasure(r) ==
  /\ pc[r] = "run" /\ measured[r] <= Len(rows[r])
  /\ \/ measured' = [measured EXCEPT ![r] = @ + 1] /\ UNCHANGED pc
     \/ "bench" \in Faults /\ Goto(r, "panicked") /\ UNCHANGED measured
  /\ UNCHANGED <<files, cmd, rows, header, written, exists, csv, overlapped>>

\* One benchmark of run_ids.
Measure(r) ==
  /\ pc[r] = "run" /\ measured[r] < Len(rows[r])
  /\ \/ measured' = [measured EXCEPT ![r] = @ + 1] /\ UNCHANGED pc
     \/ "bench" \in Faults /\ Goto(r, "panicked") /\ UNCHANGED measured
  /\ UNCHANGED <<files, cmd, rows, header, written, exists, csv, overlapped>>

\* Mutant: the file is written while the benchmarks run.
MutMeasuredAll(r) ==
  /\ pc[r] = "run" /\ measured[r] > 0
  /\ Goto(r, IF cmd[r].csv THEN "check" ELSE "ok")
  /\ UNCHANGED <<files, cmd, rows, measured, header, written, exists, csv,
                 overlapped>>

\* print_results; then the CSV file, or the end.
MeasuredAll(r) ==
  /\ pc[r] = "run" /\ measured[r] = Len(rows[r])
  /\ Goto(r, IF cmd[r].csv THEN "check" ELSE "ok")
  /\ UNCHANGED <<files, cmd, rows, measured, header, written, exists, csv,
                 overlapped>>

\* Mutant: only a file that does not exist gets a header.
MutCheckHeader(r) ==
  /\ pc[r] = "check"
  /\ header' = [header EXCEPT ![r] = ~exists]
  /\ Goto(r, "open")
  /\ UNCHANGED <<files, cmd, rows, measured, written, exists, csv, overlapped>>

\* needs_header is decided before the file is opened.
CheckHeader(r) ==
  /\ pc[r] = "check"
  /\ header' = [header EXCEPT ![r] = ~exists \/ csv = <<>>]
  /\ Goto(r, "open")
  /\ UNCHANGED <<files, cmd, rows, measured, written, exists, csv, overlapped>>

\* Mutant: the file is opened with truncate, not append.
MutOpenCsv(r) ==
  /\ pc[r] = "open"
  /\ exists' = TRUE
  /\ csv' = <<>>
  /\ Goto(r, "write")
  /\ UNCHANGED <<files, cmd, rows, measured, header, written, overlapped>>

OpenCsv(r) ==
  /\ pc[r] = "open"
  /\ \/ exists' = TRUE /\ Goto(r, "write")
     \/ "open" \in Faults /\ Goto(r, "panicked") /\ UNCHANGED exists
  /\ UNCHANGED <<files, cmd, rows, measured, header, written, csv, overlapped>>

\* What the run has to write: the header if need be, and its rows.
Output(r, k) ==
  IF ~header[r] THEN RowWrite(r, k)
  ELSE IF k = 1 THEN Header ELSE RowWrite(r, k - 1)

RowWrites(r) == Len(rows[r]) * Parts
Writes(r) == IF header[r] THEN RowWrites(r) + 1 ELSE RowWrites(r)

Write(r) ==
  /\ pc[r] = "write"
  /\ \/ /\ csv' = Append(csv, Output(r, written[r] + 1))
        /\ written' = [written EXCEPT ![r] = @ + 1]
        /\ Goto(r, IF written[r] + 1 = Writes(r) THEN "ok" ELSE "write")
     \/ "write" \in Faults /\ Goto(r, "panicked") /\ UNCHANGED <<csv, written>>
  /\ UNCHANGED <<files, cmd, rows, measured, header, exists, overlapped>>

Kill(r) ==
  /\ "kill" \in Faults
  /\ pc[r] \notin Ended \cup {"idle"}
  /\ Goto(r, "killed")
  /\ UNCHANGED <<files, cmd, rows, measured, header, written, exists, csv,
                 overlapped>>

Step(r) ==
  \/ Start(r) \/ Load(r) \/ Measure(r) \/ MeasuredAll(r) \/ CheckHeader(r)
  \/ OpenCsv(r) \/ Write(r) \/ Kill(r)

Finished == (\A r \in Runs : pc[r] \in Ended) /\ UNCHANGED vars

Next == (\E r \in Runs : Step(r)) \/ Finished

Spec == Init /\ [][Next]_vars

-----------------------------------------------------------------------------
(* Properties.                                                             *)

Labels == Ended \cup {"idle", "load", "run", "check", "open", "write"}

\* Every variable keeps its type.
TypeOK ==
  /\ files \in Manifests
  /\ pc \in [Runs -> Labels]
  /\ cmd \in [Runs -> Commands \cup {NoCommand}]
  /\ \A r \in Runs :
       /\ rows[r] \in Seq(files)
       /\ measured[r] \in 0 .. Len(rows[r])
       /\ header[r] \in BOOLEAN
       /\ written[r] \in 0 .. Writes(r)
  /\ exists \in BOOLEAN /\ (csv # <<>> => exists)
  /\ overlapped \in BOOLEAN

\* What a command asks for: each row it names, by its id or by a key no other
\* row has, or that its section or the nightly flag selects.
Asked(c, f) ==
  IF c.ids # <<>> /\ c.tool = "daily"
    THEN \E i \in DOMAIN c.ids :
           IF c.ids[i].full THEN c.ids[i].id = Id(f)
           ELSE {g \in RowFiles : g.key = c.ids[i].id[2]} = {f}
    ELSE IF c.tool = "memory" THEN f.section = "memory"
    ELSE /\ c.section # NoSection => f.section = c.section
         /\ c.tool = "readme" \/ c.section = NoSection => f.nightly

\* It is in s, once, in the order of the sections, and nothing else is.
Answers(c, s) ==
  /\ ToSet(s) = {f \in RowFiles : Asked(c, f)}
  /\ \A i, j \in DOMAIN s : i < j =>
       /\ s[i] # s[j]
       /\ Position(SectionOrder, s[i].section)
            <= Position(SectionOrder, s[j].section)

\* A run measures exactly what was asked for, whatever the order of the
\* requests and of read_dir; or it measures nothing.  The command memory is
\* "shorthand for daily run --section memory" (bin/memory.rs:1).
RunsRequested == \A r \in Runs : rows[r] # <<>> => Answers(cmd[r], rows[r])

\* A benchmark that fails costs the run all its rows and never some of them:
\* what is in the file is of runs that have measured everything.
RowsOnlyOfFullRuns ==
  \A r \in Runs : (\E i \in DOMAIN csv : csv[i].run = r) =>
    rows[r] # <<>> /\ measured[r] = Len(rows[r])

\* A run that ended well has every line in the file, whole and in order,
\* whatever other runs wrote in between: the file is only ever appended to
\* ("appends to data/dead.csv", README.md:69).
FinishedRunComplete ==
  \A r \in Runs : pc[r] = "ok" /\ cmd[r].csv =>
    /\ \A k \in 1 .. RowWrites(r) :
         \E i \in DOMAIN csv : csv[i] = RowWrite(r, k)
    /\ \A i, j \in DOMAIN csv : i < j /\ csv[i].run = r /\ csv[j].run = r =>
         csv[i].write < csv[j].write

\* A file that is not empty starts with its header line, also when runs
\* overlap or were stopped anywhere: a worker drops the first line of the file
\* it pulls (machines/_bench-worker.sh:122) and would drop a row.  As long as
\* runs follow each other there is no second header.
HeaderFirst ==
  csv # <<>> =>
    /\ csv[1] = Header
    /\ ~overlapped => \A i \in 2 .. Len(csv) : csv[i] # Header
=============================================================================
