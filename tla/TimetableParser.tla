--------------------------- MODULE TimetableParser ---------------------------
(***************************************************************************)
(* How a pasted timetable becomes lesson rows                              *)
(* (app/services/lesson_parser.py).  A line is its sequence of cells, a    *)
(* cell the set of what the patterns recognise in it: the title of a       *)
(* column, a course code, a date, a range of times, a single time, a venue *)
(* or plain words.  A blank line, like the divider below a Markdown        *)
(* header, has no cell.  One step reads one line.                          *)
(***************************************************************************)
EXTENDS Integers, Sequences, FiniteSetsExt

CONSTANTS
  Course,       \* course codes
  AsWritten,    \* the words of a cell that is taken for a course without a code
  NoCourse,     \* no course found
  Lines,        \* what a line may be
  Barred,       \* the lines whose cells stand between bars, as in Markdown
  Clock,        \* times of day, in minutes
  MaxLines      \* bound on the lines of a timetable

Field == {"course", "date", "time", "start", "end", "location", "notes"}

\* TABLE_FIELD_ALIASES: what the column of a field may be called, best title first.
Aliases ==
  [course   |-> <<"module", "course module", "course", "module code",
                  "subject code", "subject">>,
   date     |-> <<"date">>,
   time     |-> <<"time", "class time">>,
   start    |-> <<"start time", "start">>,
   end      |-> <<"end time", "end">>,
   location |-> <<"locations", "venue", "location", "room">>,
   notes    |-> <<"remarks", "remark", "notes", "note">>]

\* What the patterns may recognise in a cell.
Title == UNION {{Aliases[field][r] : r \in DOMAIN Aliases[field]} : field \in Field}

Pattern == {"aDate", "aRange", "aTime", "aVenue", "words"}

ASSUME TimetableAssumption ==
  /\ NoCourse \notin Course /\ AsWritten \notin Course /\ NoCourse # AsWritten
  /\ Course \intersect (Title \union Pattern) = {}
  /\ Lines \subseteq Seq(SUBSET (Course \union Title \union Pattern))
  /\ Barred \subseteq Lines
  /\ Clock \subseteq 0 .. 24 * 60 - 1

VARIABLES
  text,         \* the lines read so far
  parsed,       \* the rows, the skipped lines and the state of the loop
  times         \* the range of times in the last line: what it means, what was read

parserVars == <<text, parsed, times>>

-----------------------------------------------------------------------------
(* Times                                                                   *)

\* No am or pm after a time.
Bare == "bare"

\* A deviation: 12 am is noon.
ToTimeNoon(hour, minute, meridiem) ==
  (IF meridiem = "pm" /\ hour < 12 THEN hour + 12 ELSE hour) * 60 + minute

\* _to_time
ToTime(hour, minute, meridiem) ==
  LET h == CASE meridiem = "pm" /\ hour < 12 -> hour + 12
             [] meridiem = "am" /\ hour = 12 -> 0
             [] OTHER -> hour
  IN  h * 60 + minute

\* parse_time_range, of a text the patterns match: a meridiem at the end is for
\* both times, and 9:30-1:00 ends in the afternoon.
ReadRange(from, until) ==
  LET start == ToTime(from.hour, from.minute,
                      IF from.meridiem = Bare THEN until.meridiem ELSE from.meridiem)
      end   == ToTime(until.hour, until.minute, until.meridiem)
  IN  <<start,
        IF end <= start /\ end < 12 * 60 /\ until.meridiem = Bare
          THEN end + 12 * 60 ELSE end>>

-----------------------------------------------------------------------------
(* Lines                                                                   *)

Tokens(line) == UNION {line[k] : k \in DOMAIN line}

\* A deviation: the first column with any of the titles.
HeaderIndexLeftmost(line, field) ==
  LET at == {k \in DOMAIN line :
               \E r \in DOMAIN Aliases[field] : line[k] = {Aliases[field][r]}}
  IN  IF at = {} THEN 0 ELSE Min(at)

\* _header_index: the first column with the best title that is there, 0 if there
\* is none.
HeaderIndex(line, field) ==
  LET At(r) == {k \in DOMAIN line : line[k] = {Aliases[field][r]}}
      found == {r \in DOMAIN Aliases[field] : At(r) # {}}
  IN  IF found = {} THEN 0 ELSE Min(At(Min(found)))

TableColumns(line) == [field \in Field |-> HeaderIndex(line, field)]

\* A deviation: a line is a header whatever else it holds.
IsHeaderAnyway(line) ==
  Cardinality({field \in Field : TableColumns(line)[field] # 0}) >= 2

IsHeader(line) ==
  /\ Cardinality({field \in Field : TableColumns(line)[field] # 0}) >= 2
  /\ "aDate" \notin Tokens(line)

\* _HEADER_WORDS, not quite the titles above.
HeaderWord == {"date", "course", "subject", "module", "time", "start", "end", "venue",
               "location", "locations", "room"}

\* _looks_like_header: two such words, be they of one field.
LooksLikeHeader(line) ==
  /\ Cardinality({k \in DOMAIN line : \E word \in HeaderWord : line[k] = {word}}) >= 2
  /\ "aDate" \notin Tokens(line)

\* What a cell says about the course.
CourseIn(cell) ==
  IF cell \intersect Course = {} THEN AsWritten
                                 ELSE CHOOSE c \in Course : c \in cell

\* LessonRow, as far as it decides what is kept; line is where it was found.
Row(n, course, day, start, end) ==
  [line |-> n, course |-> course, day |-> day, start |-> start, end |-> end]

\* _parse_header_mapped_row
MappedRow(n, line, columns, inherited) ==
  LET Cell(field) == IF columns[field] \in DOMAIN line THEN line[columns[field]] ELSE {}
      single      == columns["start"] # 0 \/ columns["end"] # 0
      ranged      == "aRange" \in Cell("time")
  IN  Row(n, IF Cell("course") = {} THEN inherited ELSE CourseIn(Cell("course")),
          "aDate" \in Cell("date"),
          IF single THEN "aTime" \in Cell("start") ELSE ranged,
          IF single THEN "aTime" \in Cell("end") ELSE ranged)

\* parse_line: a sentence, or cells sorted by what they hold.  Two times side by
\* side are a range, unless there is a bar between them.
LooseRow(n, line) ==
  LET cells  == SelectSeq(line, LAMBDA cell : cell # {})
      plain  == SelectSeq(cells, LAMBDA cell :
                            {"aDate", "aRange", "aVenue"} \intersect cell = {})
      codes  == SelectSeq(plain, LAMBDA cell : cell \intersect Course # {})
      ranged == \/ "aRange" \in Tokens(cells)
                \/ /\ line \notin Barred
                   /\ \E k \in 2 .. Len(cells) :
                        cells[k - 1] = {"aTime"} /\ cells[k] = {"aTime"}
      course == CASE Len(cells) = 1 ->
                       IF cells[1] \intersect Course = {} THEN NoCourse
                                                          ELSE CourseIn(cells[1])
                  [] Len(cells) # 1 /\ codes # << >> -> CourseIn(codes[1])
                  [] Len(cells) # 1 /\ codes = << >> /\ plain # << >> -> AsWritten
                  [] OTHER -> NoCourse
  IN  Row(n, course, "aDate" \in Tokens(cells), ranged, ranged)

\* A line with neither a date nor a time is no lesson: it is counted instead.
Keep(state, row) ==
  IF row.day \/ row.start
    THEN [state EXCEPT !.rows = Append(@, row)]
    ELSE [state EXCEPT !.skipped = @ + 1]

NoTable == [field \in Field |-> 0]

\* A deviation: the course is carried over from one table to the next.
EnterTableKeepingCourse(state, line) == [state EXCEPT !.columns = TableColumns(line)]

EnterTable(state, line) ==
  [state EXCEPT !.columns = TableColumns(line), !.inherited = NoCourse]

\* One line of parse_timetable's loop.
ReadLine(state, line) ==
  LET n      == state.line + 1
      now    == [state EXCEPT !.line = n]
      mapped == MappedRow(n, line, state.columns, state.inherited)
  IN  CASE line = << >> -> now
        [] line # << >> /\ IsHeader(line) -> EnterTable(now, line)
        [] line # << >> /\ ~ IsHeader(line)
             /\ state.columns # NoTable /\ Len(line) > 1 ->
             Keep([now EXCEPT !.inherited =
                     IF state.columns["course"] \in DOMAIN line
                        /\ line[state.columns["course"]] # {}
                       THEN mapped.course ELSE @], mapped)
        [] OTHER -> IF LooksLikeHeader(line) THEN now ELSE Keep(now, LooseRow(n, line))

-----------------------------------------------------------------------------

\* A time of day, on the 12-hour clock if there is a meridiem.
Written(t, meridiem) ==
  [hour |-> IF meridiem = Bare THEN t \div 60 ELSE ((t \div 60 + 11) % 12) + 1,
   minute |-> t % 60, meridiem |-> meridiem]

Half(t) == IF t < 12 * 60 THEN "am" ELSE "pm"

Meaning(s, e, from, until) == [means |-> <<s, e>>, from |-> from, until |-> until]

\* The notations the parser promises to understand: a meridiem on both times, on
\* the last only, the 24-hour clock, and the way 9:30-1:00 is written.
Notations(s, e) ==
  {Meaning(s, e, Written(s, Half(s)), Written(e, Half(e))),
   Meaning(s, e, Written(s, Bare), Written(e, Bare))}
  \union (IF Half(s) = Half(e)
            THEN {Meaning(s, e, [Written(s, Half(s)) EXCEPT !.meridiem = Bare],
                        Written(e, Half(e)))} ELSE {})
  \union (IF Half(s) = "am" /\ e >= 12 * 60 /\ e - 12 * 60 <= s
            THEN {Meaning(s, e, Written(s, Bare), Written(e - 12 * 60, Bare))} ELSE {})

NoTimes == [means |-> << >>, read |-> << >>]

\* What a range of times may be, and what comes out of it.
RangesRead ==
  {[means |-> w.means, read |-> ReadRange(w.from, w.until)] :
     w \in UNION {Notations(p[1], p[2]) : p \in {q \in Clock \X Clock : q[1] < q[2]}}}

TimesIn(line) == IF "aRange" \in Tokens(line) THEN RangesRead ELSE {NoTimes}

ParserInit ==
  /\ text = << >>
  /\ parsed = [line |-> 0, columns |-> NoTable, inherited |-> NoCourse,
               rows |-> << >>, skipped |-> 0]
  /\ times = NoTimes

\* The loop of parse_timetable.
ReadNext(line) ==
  /\ Len(text) < MaxLines
  /\ text' = Append(text, line)
  /\ parsed' = ReadLine(parsed, line)
  /\ times' \in TimesIn(line)

ParserNext == \E line \in Lines : ReadNext(line)

-----------------------------------------------------------------------------

\* A lesson's times are read as they were written, noon and midnight included,
\* in each of the notations the parser promises to understand.
TimesAsWritten == times.read = times.means

\* A line that has a date never goes unnoticed: it is a row of the preview, in
\* its place, or one of the lines that staff are told were skipped.
NoDateDropped ==
  LET found == {parsed.rows[k].line : k \in DOMAIN parsed.rows}
      dated == {n \in DOMAIN text : "aDate" \in Tokens(text[n])}
  IN  /\ \A k \in 2 .. Len(parsed.rows) : parsed.rows[k - 1].line < parsed.rows[k].line
      /\ Cardinality(dated \ found) <= parsed.skipped

\* A line of titles: two of the fields have a column.
Titled(line) ==
  LET Named(field) == \E k \in DOMAIN line : \E r \in DOMAIN Aliases[field] :
                        line[k] = {Aliases[field][r]}
  IN  /\ "aDate" \notin Tokens(line)
      /\ \E f, g \in Field : f # g /\ Named(f) /\ Named(g)

\* The column of the course is the one whose title no other outranks: a Module
\* before a Subject, whichever comes first, and the first of two that are equal.
IsCourseColumn(line, k) ==
  \E r \in DOMAIN Aliases["course"] :
    /\ line[k] = {Aliases["course"][r]}
    /\ \A j \in DOMAIN line : \A q \in DOMAIN Aliases["course"] :
         line[j] = {Aliases["course"][q]} => r < q \/ (r = q /\ k <= j)

\* Line n names course c, in the table that line header begins.
NamesCourse(header, n, c) ==
  /\ Len(text[n]) > 1
  /\ \E k \in DOMAIN text[header] \intersect DOMAIN text[n] :
       IsCourseColumn(text[header], k) /\ text[n][k] # {} /\ c = CourseIn(text[n][k])

\* A row of a table has the course that its line names in the column which is the
\* course's by its title or, if that cell is empty because it was merged with the
\* one above, the course that the table named last: never one of an earlier table.
CourseOfTheTable ==
  \A k \in DOMAIN parsed.rows : \A header \in 1 .. parsed.rows[k].line - 1 :
    LET row   == parsed.rows[k]
        below == header + 1 .. row.line
        named == {n \in below : \E c \in Course \union {AsWritten} :
                                  NamesCourse(header, n, c)}
    IN  /\ Titled(text[header]) /\ \A n \in below : ~ Titled(text[n])
        /\ Len(text[row.line]) > 1
        => IF named = {} THEN row.course = NoCourse
                         ELSE NamesCourse(header, Max(named), row.course)

=============================================================================
