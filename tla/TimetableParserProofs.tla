------------------------ MODULE TimetableParserProofs ------------------------
(***************************************************************************)
(* What the timetable parser does with any text: times come out as they    *)
(* were written, no dated line gets lost, and each row has the course of   *)
(* its own table.                                                          *)
(***************************************************************************)
EXTENDS TimetableParser, SequenceTheorems, FiniteSetTheorems, WellFoundedInduction, TLAPS

ParserSpec == ParserInit /\ [][ParserNext]_parserVars

-----------------------------------------------------------------------------
(* Times                                                                   *)

DayTime == 0 .. 24 * 60 - 1

\* The three cases of _to_time.
LEMMA ToTimeIs ==
  ASSUME NEW hour, NEW minute, NEW meridiem
  PROVE  /\ meridiem = "pm" /\ hour < 12
              => ToTime(hour, minute, meridiem) = (hour + 12) * 60 + minute
         /\ meridiem = "am" /\ hour = 12
              => ToTime(hour, minute, meridiem) = 0 * 60 + minute
         /\ ~ (meridiem = "pm" /\ hour < 12) /\ ~ (meridiem = "am" /\ hour = 12)
              => ToTime(hour, minute, meridiem) = hour * 60 + minute
BY Zenon DEF ToTime

\* A time of day is read as it was written, on either clock.
LEMMA TimeAsWritten ==
  ASSUME NEW t \in DayTime
  PROVE  /\ ToTime(Written(t, Bare).hour, Written(t, Bare).minute, Bare) = t
         /\ ToTime(Written(t, Half(t)).hour, Written(t, Half(t)).minute, Half(t)) = t
<1>. DEFINE h == t \div 60
            m == t % 60
            w == ((h + 11) % 12) + 1
<1>1. t \in Int /\ h \in 0 .. 23 /\ m \in 0 .. 59 /\ h * 60 + m = t
  BY DEF DayTime
<1>2. /\ w \in 1 .. 12
      /\ h = 0 => w = 12
      /\ h \in 1 .. 11 => w = h
      /\ h = 12 => w = 12
      /\ h \in 13 .. 23 => w = h - 12
  BY <1>1
<1>3. /\ Half(t) = "am" <=> h < 12
      /\ Half(t) \in {"am", "pm"}
  BY <1>1 DEF Half
<1>4. /\ Written(t, Bare).hour = h /\ Written(t, Bare).minute = m
      /\ Written(t, Half(t)).hour = w /\ Written(t, Half(t)).minute = m
  BY <1>3 DEF Written, Bare
<1>. HIDE DEF h, m, w
<1>5. ToTime(h, m, Bare) = h * 60 + m
  BY ToTimeIs DEF Bare
<1>6. ToTime(w, m, Half(t)) = h * 60 + m
  <2>1. CASE h = 0
    BY <1>1, <1>2, <1>3, <2>1, ToTimeIs
  <2>2. CASE h \in 1 .. 11
    BY <1>1, <1>2, <1>3, <2>2, ToTimeIs
  <2>3. CASE h = 12
    BY <1>1, <1>2, <1>3, <2>3, ToTimeIs
  <2>4. CASE h \in 13 .. 23
    BY <1>1, <1>2, <1>3, <2>4, ToTimeIs
  <2>. QED
    BY <1>1, <2>1, <2>2, <2>3, <2>4
<1>. QED
  BY <1>1, <1>4, <1>5, <1>6

\* A range of times in one of the promised notations is read as it is meant.
LEMMA RangeAsMeant ==
  ASSUME NEW s \in DayTime, NEW e \in DayTime, s < e, NEW w \in Notations(s, e)
  PROVE  ReadRange(w.from, w.until) = w.means
<1>. DEFINE start == ToTime(w.from.hour, w.from.minute,
                            IF w.from.meridiem = Bare THEN w.until.meridiem
                                                      ELSE w.from.meridiem)
            end   == ToTime(w.until.hour, w.until.minute, w.until.meridiem)
<1>1. /\ s \in Int /\ e \in Int
      /\ Half(s) \in {"am", "pm"} /\ Half(e) \in {"am", "pm"}
      /\ Bare # "am" /\ Bare # "pm"
  BY DEF DayTime, Half, Bare
<1>2. /\ Written(s, Half(s)).meridiem = Half(s) /\ Written(e, Half(e)).meridiem = Half(e)
      /\ \A t : Written(t, Bare).meridiem = Bare
  BY DEF Written
<1>3. ASSUME start = s, end = e
      PROVE  ReadRange(w.from, w.until) = <<s, e>>
  BY <1>1, <1>3 DEF ReadRange
<1>4. CASE w = Meaning(s, e, Written(s, Half(s)), Written(e, Half(e)))
  <2>1. /\ w.means = <<s, e>> /\ w.from = Written(s, Half(s))
        /\ w.until = Written(e, Half(e))
    BY <1>4 DEF Meaning
  <2>2. start = s /\ end = e
    BY <1>1, <1>2, <2>1, TimeAsWritten
  <2>. QED
    BY <1>3, <2>1, <2>2
<1>5. CASE w = Meaning(s, e, Written(s, Bare), Written(e, Bare))
  <2>1. /\ w.means = <<s, e>> /\ w.from = Written(s, Bare) /\ w.until = Written(e, Bare)
    BY <1>5 DEF Meaning
  <2>2. start = s /\ end = e
    BY <1>2, <2>1, TimeAsWritten
  <2>. QED
    BY <1>3, <2>1, <2>2
<1>6. CASE /\ Half(s) = Half(e)
           /\ w = Meaning(s, e, [Written(s, Half(s)) EXCEPT !.meridiem = Bare],
                          Written(e, Half(e)))
  <2>1. /\ w.means = <<s, e>> /\ w.until = Written(e, Half(e))
        /\ w.from.meridiem = Bare
        /\ w.from.hour = Written(s, Half(s)).hour
        /\ w.from.minute = Written(s, Half(s)).minute
    BY <1>6 DEF Meaning, Written
  <2>2. start = s /\ end = e
    BY <1>2, <1>6, <2>1, TimeAsWritten
  <2>. QED
    BY <1>3, <2>1, <2>2
<1>7. CASE /\ Half(s) = "am" /\ e >= 12 * 60 /\ e - 12 * 60 <= s
           /\ w = Meaning(s, e, Written(s, Bare), Written(e - 12 * 60, Bare))
  <2>1. /\ w.means = <<s, e>> /\ w.from = Written(s, Bare)
        /\ w.until = Written(e - 12 * 60, Bare)
    BY <1>7 DEF Meaning
  <2>2. e - 12 * 60 \in DayTime
    BY <1>1, <1>7 DEF DayTime
  <2>3. start = s /\ end = e - 12 * 60 /\ w.until.meridiem = Bare
    BY <1>2, <2>1, <2>2, TimeAsWritten
  <2>4. end <= start /\ end < 12 * 60 /\ end + 12 * 60 = e
    BY <1>1, <1>7, <2>3 DEF DayTime
  <2>5. ReadRange(w.from, w.until) = <<start, end + 12 * 60>>
    BY <2>3, <2>4 DEF ReadRange
  <2>. QED
    BY <2>1, <2>3, <2>4, <2>5
<1>. QED
  BY <1>4, <1>5, <1>6, <1>7 DEF Notations

\* The times of a lesson are read as they were written, whatever the clock and
\* in each of the notations the parser promises.
THEOREM TimesReadAsWritten == ParserSpec => []TimesAsWritten
<1>1. ParserInit => TimesAsWritten
  BY DEF ParserInit, TimesAsWritten, NoTimes
<1>2. ASSUME TimesAsWritten, [ParserNext]_parserVars
      PROVE  TimesAsWritten'
  <2>1. CASE ParserNext
    <3>1. PICK line : times' \in TimesIn(line)
      BY <2>1 DEF ParserNext, ReadNext
    <3>2. CASE times' = NoTimes
      BY <3>2 DEF TimesAsWritten, NoTimes
    <3>3. CASE times' \in RangesRead
      <4>1. PICK p \in {q \in Clock \X Clock : q[1] < q[2]} :
              \E w \in Notations(p[1], p[2]) :
                times' = [means |-> w.means, read |-> ReadRange(w.from, w.until)]
        BY <3>3 DEF RangesRead
      <4>2. PICK w \in Notations(p[1], p[2]) :
              times' = [means |-> w.means, read |-> ReadRange(w.from, w.until)]
        BY <4>1
      <4>3. p[1] \in DayTime /\ p[2] \in DayTime /\ p[1] < p[2]
        BY TimetableAssumption DEF DayTime
      <4>4. ReadRange(w.from, w.until) = w.means
        BY <4>2, <4>3, RangeAsMeant
      <4>. QED
        BY <4>2, <4>4 DEF TimesAsWritten
    <3>. QED
      BY <3>1, <3>2, <3>3 DEF TimesIn
  <2>2. CASE UNCHANGED parserVars
    BY <1>2, <2>2 DEF parserVars, TimesAsWritten
  <2>. QED
    BY <1>2, <2>1, <2>2
<1>. QED
  BY <1>1, <1>2, PTL DEF ParserSpec

-----------------------------------------------------------------------------
(* What a line does                                                        *)

Courses == Course \union {AsWritten, NoCourse}

LessonRow ==
  [line : Nat, course : Courses, day : BOOLEAN, start : BOOLEAN, end : BOOLEAN]

ColumnMaps == {TableColumns(line) : line \in Lines} \union {NoTable}

ParserState ==
  [line : Nat, columns : ColumnMaps, inherited : Courses,
   rows : Seq(LessonRow), skipped : Nat]

ParserTypeOK ==
  /\ text \in Seq(Lines)
  /\ parsed \in ParserState
  /\ parsed.line = Len(text)

\* The cell of a line that stands in the column of the course.
Names(line, columns) ==
  columns["course"] \in DOMAIN line /\ line[columns["course"]] # {}

\* A cell gives a course.
LEMMA CourseInType == \A cell : CourseIn(cell) \in Courses
BY DEF CourseIn, Courses

\* A row has the place and the course it was made with.
LEMMA RowIs ==
  ASSUME NEW n \in Nat, NEW course \in Courses,
         NEW day \in BOOLEAN, NEW start \in BOOLEAN, NEW end \in BOOLEAN
  PROVE  /\ Row(n, course, day, start, end) \in LessonRow
         /\ Row(n, course, day, start, end).line = n
         /\ Row(n, course, day, start, end).course = course
BY DEF Row, LessonRow

\* A row of a table has the course in its own cell, or the one handed down.
LEMMA MappedRowIs ==
  ASSUME NEW n \in Nat, NEW line, NEW columns, NEW inherited \in Courses
  PROVE  /\ MappedRow(n, line, columns, inherited) \in LessonRow
         /\ MappedRow(n, line, columns, inherited).line = n
         /\ MappedRow(n, line, columns, inherited).course =
              IF Names(line, columns) THEN CourseIn(line[columns["course"]]) ELSE inherited
<1>. DEFINE Cell(field) == IF columns[field] \in DOMAIN line THEN line[columns[field]] ELSE {}
            single == columns["start"] # 0 \/ columns["end"] # 0
            ranged == "aRange" \in Cell("time")
            course == IF Cell("course") = {} THEN inherited ELSE CourseIn(Cell("course"))
            day    == "aDate" \in Cell("date")
            start  == IF single THEN "aTime" \in Cell("start") ELSE ranged
            end    == IF single THEN "aTime" \in Cell("end") ELSE ranged
<1>1. MappedRow(n, line, columns, inherited) = Row(n, course, day, start, end)
  BY Zenon DEF MappedRow
<1>2. course \in Courses
  BY CourseInType
<1>3. day \in BOOLEAN /\ start \in BOOLEAN /\ end \in BOOLEAN
  <2>. DEFINE one(field) == "aTime" \in Cell(field)
  <2>1. ranged \in BOOLEAN /\ day \in BOOLEAN /\ \A field : one(field) \in BOOLEAN
    OBVIOUS
  <2>2. start = IF single THEN one("start") ELSE ranged
    OBVIOUS
  <2>3. end = IF single THEN one("end") ELSE ranged
    OBVIOUS
  <2>. HIDE DEF one, ranged, single, day, start, end
  <2>. QED
    BY <2>1, <2>2, <2>3
<1>4. course = IF Names(line, columns) THEN CourseIn(line[columns["course"]]) ELSE inherited
  BY DEF Names
<1>. HIDE DEF course, day, start, end
<1>. QED
  BY <1>1, <1>2, <1>3, <1>4, RowIs

\* A loose line becomes a row of its own.
LEMMA LooseRowIs ==
  ASSUME NEW n \in Nat, NEW line
  PROVE  LooseRow(n, line) \in LessonRow /\ LooseRow(n, line).line = n
<1>. DEFINE cells  == SelectSeq(line, LAMBDA cell : cell # {})
            plain  == SelectSeq(cells, LAMBDA cell :
                                  {"aDate", "aRange", "aVenue"} \intersect cell = {})
            codes  == SelectSeq(plain, LAMBDA cell : cell \intersect Course # {})
            ranged == \/ "aRange" \in Tokens(cells)
                      \/ /\ line \notin Barred
                         /\ \E k \in 2 .. Len(cells) :
                              cells[k - 1] = {"aTime"} /\ cells[k] = {"aTime"}
            course == CASE Len(cells) = 1 ->
                             IF cells[1] \intersect Course = {} THEN NoCourse
                                                                ELSE CourseIn(cells[1])
                        [] Len(cells) # 1 /\ codes # << >> -> CourseIn(codes[1])
                        [] Len(cells) # 1 /\ codes = << >> /\ plain # << >> -> AsWritten
                        [] OTHER -> NoCourse
            day    == "aDate" \in Tokens(cells)
<1>1. LooseRow(n, line) = Row(n, course, day, ranged, ranged)
  BY Zenon DEF LooseRow
<1>2. course \in Courses
  <2>. HIDE DEF cells, plain, codes
  <2>1. AsWritten \in Courses /\ NoCourse \in Courses /\ \A cell : CourseIn(cell) \in Courses
    BY CourseInType DEF Courses
  <2>2. CASE Len(cells) = 1
    BY <2>1, <2>2, Zenon
  <2>3. CASE Len(cells) # 1 /\ codes # << >>
    BY <2>1, <2>3, Zenon
  <2>4. CASE Len(cells) # 1 /\ codes = << >> /\ plain # << >>
    BY <2>1, <2>4, Zenon
  <2>5. CASE Len(cells) # 1 /\ codes = << >> /\ plain = << >>
    BY <2>1, <2>5, Zenon
  <2>. QED
    BY <2>2, <2>3, <2>4, <2>5
<1>3. day \in BOOLEAN /\ ranged \in BOOLEAN
  OBVIOUS
<1>. HIDE DEF course, day, ranged
<1>. QED
  BY <1>1, <1>2, <1>3, RowIs

\* A line that has the titles of a table has no date.
LEMMA TitlesHaveNoDate ==
  ASSUME NEW line, IsHeader(line) \/ LooksLikeHeader(line)
  PROVE  "aDate" \notin Tokens(line)
BY DEF IsHeader, LooksLikeHeader

\* A row is kept, or counted as skipped; nothing else changes.
LEMMA KeepIs ==
  ASSUME NEW state \in ParserState, NEW row \in LessonRow
  PROVE  LET next == Keep(state, row)
         IN  /\ next \in ParserState
             /\ next.line = state.line /\ next.columns = state.columns
             /\ next.inherited = state.inherited
             /\ \/ next.rows = Append(state.rows, row) /\ next.skipped = state.skipped
                \/ next.rows = state.rows /\ next.skipped = state.skipped + 1
<1>1. CASE row.day \/ row.start
  <2>1. Keep(state, row) = [state EXCEPT !.rows = Append(state.rows, row)]
    BY <1>1 DEF Keep
  <2>2. Append(state.rows, row) \in Seq(LessonRow)
    BY AppendProperties DEF ParserState
  <2>. QED
    BY <2>1, <2>2 DEF ParserState
<1>2. CASE ~ (row.day \/ row.start)
  <2>1. Keep(state, row) = [state EXCEPT !.skipped = state.skipped + 1]
    BY <1>2 DEF Keep
  <2>. QED
    BY <2>1 DEF ParserState
<1>. QED
  BY <1>1, <1>2

\* A row of the table that was begun last.
InTable(state, line) == state.columns # NoTable /\ Len(line) > 1

CourseHere(state, line) ==
  IF Names(line, state.columns) THEN CourseIn(line[state.columns["course"]])
                                ELSE state.inherited

\* The rows change by at most one, which carries the number of the line; a line
\* that leaves no trace has no date.
TracesOf(state, next, line) ==
  \/ /\ next.rows = state.rows /\ next.skipped = state.skipped
     /\ "aDate" \notin Tokens(line)
  \/ next.rows = state.rows /\ next.skipped = state.skipped + 1
  \/ \E row \in LessonRow :
       /\ next.rows = Append(state.rows, row) /\ row.line = next.line
       /\ next.skipped = state.skipped
       /\ InTable(state, line) => row.course = CourseHere(state, line)

\* The four ways of the parser's loop.
LEMMA ReadLineCases ==
  ASSUME NEW state, NEW line
  PROVE  LET n      == state.line + 1
             now    == [state EXCEPT !.line = n]
             mapped == MappedRow(n, line, state.columns, state.inherited)
         IN  \/ line = << >> /\ ReadLine(state, line) = now
             \/ /\ line # << >> /\ IsHeader(line)
                /\ ReadLine(state, line) = EnterTable(now, line)
             \/ /\ line # << >> /\ ~ IsHeader(line) /\ InTable(state, line)
                /\ ReadLine(state, line) =
                     Keep([now EXCEPT !.inherited =
                             IF state.columns["course"] \in DOMAIN line
                                  /\ line[state.columns["course"]] # {}
                               THEN mapped.course ELSE @], mapped)
             \/ /\ line # << >> /\ ~ IsHeader(line) /\ ~ InTable(state, line)
                /\ ReadLine(state, line) =
                     IF LooksLikeHeader(line) THEN now ELSE Keep(now, LooseRow(n, line))
<1>1. CASE line = << >>
  BY <1>1, Zenon DEF ReadLine
<1>2. CASE line # << >> /\ IsHeader(line)
  BY <1>2, Zenon DEF ReadLine
<1>3. CASE line # << >> /\ ~ IsHeader(line) /\ InTable(state, line)
  BY <1>3, Zenon DEF ReadLine, InTable
<1>4. CASE line # << >> /\ ~ IsHeader(line) /\ ~ InTable(state, line)
  BY <1>4, Zenon DEF ReadLine, InTable
<1>. QED
  BY <1>1, <1>2, <1>3, <1>4, Zenon

\* A blank line is no header and has no cell.
LEMMA BlankLine ==
  /\ ~ IsHeader(<< >>) /\ Tokens(<< >>) = {} /\ Len(<< >>) = 0
<1>1. DOMAIN << >> = {} /\ Len(<< >>) = 0
  OBVIOUS
<1>2. \A field \in Field : TableColumns(<< >>)[field] = 0
  BY <1>1 DEF TableColumns, HeaderIndex
<1>3. {field \in Field : TableColumns(<< >>)[field] # 0} = {}
  BY <1>2
<1>4. Cardinality({field \in Field : TableColumns(<< >>)[field] # 0}) = 0
  BY <1>3, FS_EmptySet
<1>. QED
  BY <1>1, <1>4 DEF IsHeader, Tokens

\* A header has columns.
LEMMA HeaderHasColumns ==
  ASSUME NEW line, IsHeader(line)
  PROVE  TableColumns(line) # NoTable
<1>1. SUFFICES ASSUME TableColumns(line) = NoTable PROVE FALSE
  OBVIOUS
<1>2. {field \in Field : TableColumns(line)[field] # 0} = {}
  BY <1>1 DEF NoTable
<1>. QED
  BY <1>2, FS_EmptySet DEF IsHeader

\* What one line does to the state of the loop.
LEMMA LineIsRead ==
  ASSUME NEW state \in ParserState, NEW line \in Lines
  PROVE  LET next == ReadLine(state, line)
             here == CourseIn(line[state.columns["course"]])
         IN  /\ next \in ParserState
             /\ next.line = state.line + 1
             /\ next.columns = IF IsHeader(line) THEN TableColumns(line) ELSE state.columns
             /\ next.inherited =
                  IF IsHeader(line) THEN NoCourse
                  ELSE IF InTable(state, line) /\ Names(line, state.columns) THEN here
                  ELSE state.inherited
             /\ TracesOf(state, next, line)
<1>. DEFINE next   == ReadLine(state, line)
            n      == state.line + 1
            now    == [state EXCEPT !.line = n]
            mapped == MappedRow(n, line, state.columns, state.inherited)
            here   == CourseIn(line[state.columns["course"]])
            handed == IF Names(line, state.columns) THEN here ELSE state.inherited
<1>1. /\ n \in Nat /\ now \in ParserState /\ now.line = n
      /\ now.columns = state.columns /\ now.inherited = state.inherited
      /\ now.rows = state.rows /\ now.skipped = state.skipped
      /\ state.inherited \in Courses /\ state.rows \in Seq(LessonRow) /\ state.skipped \in Nat
  BY DEF ParserState
<1>2. NoCourse \in Courses /\ here \in Courses
  BY CourseInType DEF Courses
<1>3. mapped \in LessonRow /\ mapped.line = n /\ mapped.course = handed
  BY <1>1, MappedRowIs
<1>. HIDE DEF now, mapped
<1>4. CASE line = << >> /\ next = now
  <2>1. ~ IsHeader(line) /\ ~ InTable(state, line) /\ "aDate" \notin Tokens(line)
    BY <1>4, BlankLine DEF InTable
  <2>2. TracesOf(state, next, line)
    BY <1>1, <1>4, <2>1 DEF TracesOf
  <2>. QED
    BY <1>1, <1>4, <2>1, <2>2
<1>5. CASE IsHeader(line) /\ next = EnterTable(now, line)
  <2>1. next = [now EXCEPT !.columns = TableColumns(line), !.inherited = NoCourse]
    BY <1>5 DEF EnterTable
  <2>2. TableColumns(line) \in ColumnMaps
    BY DEF ColumnMaps
  <2>3. /\ next \in ParserState /\ next.line = n
        /\ next.columns = TableColumns(line) /\ next.inherited = NoCourse
        /\ next.rows = state.rows /\ next.skipped = state.skipped
    BY <1>1, <1>2, <2>1, <2>2 DEF ParserState
  <2>4. TracesOf(state, next, line)
    BY <1>5, <2>3, TitlesHaveNoDate DEF TracesOf
  <2>. QED
    BY <1>5, <2>3, <2>4
<1>6. CASE /\ ~ IsHeader(line) /\ InTable(state, line)
           /\ next = Keep([now EXCEPT !.inherited =
                             IF state.columns["course"] \in DOMAIN line
                                  /\ line[state.columns["course"]] # {}
                               THEN mapped.course ELSE @], mapped)
  <2>. DEFINE told == [now EXCEPT !.inherited = handed]
  <2>1. next = Keep(told, mapped)
    BY <1>1, <1>3, <1>6 DEF Names
  <2>2. /\ told \in ParserState /\ told.line = n /\ told.inherited = handed
        /\ told.columns = state.columns
        /\ told.rows = state.rows /\ told.skipped = state.skipped
    BY <1>1, <1>2 DEF ParserState
  <2>. HIDE DEF told
  <2>3. /\ next \in ParserState /\ next.line = n
        /\ next.columns = state.columns /\ next.inherited = handed
        /\ \/ next.rows = Append(state.rows, mapped) /\ next.skipped = state.skipped
           \/ next.rows = state.rows /\ next.skipped = state.skipped + 1
    BY <1>3, <2>1, <2>2, KeepIs
  <2>4. TracesOf(state, next, line)
    BY <1>3, <2>3 DEF TracesOf, CourseHere
  <2>. QED
    BY <1>6, <2>3, <2>4
<1>7. CASE /\ ~ IsHeader(line) /\ ~ InTable(state, line)
           /\ next = IF LooksLikeHeader(line) THEN now ELSE Keep(now, LooseRow(n, line))
  <2>1. CASE LooksLikeHeader(line)
    <3>1. next = now
      BY <1>7, <2>1
    <3>2. TracesOf(state, next, line)
      BY <1>1, <2>1, <3>1, TitlesHaveNoDate DEF TracesOf
    <3>. QED
      BY <1>1, <1>7, <3>1, <3>2
  <2>2. CASE ~ LooksLikeHeader(line)
    <3>1. next = Keep(now, LooseRow(n, line))
      BY <1>7, <2>2
    <3>2. PICK row : row = LooseRow(n, line)
      OBVIOUS
    <3>3. row \in LessonRow /\ row.line = n
      BY <1>1, <3>2, LooseRowIs
    <3>4. /\ next \in ParserState /\ next.line = n
          /\ next.columns = state.columns /\ next.inherited = state.inherited
          /\ \/ next.rows = Append(state.rows, row) /\ next.skipped = state.skipped
             \/ next.rows = state.rows /\ next.skipped = state.skipped + 1
      <4>1. next = Keep(now, row)
        BY <3>1, <3>2
      <4>2. now \in ParserState
        BY <1>1
      <4>3. /\ Keep(now, row) \in ParserState
            /\ Keep(now, row).line = now.line /\ Keep(now, row).columns = now.columns
            /\ Keep(now, row).inherited = now.inherited
            /\ \/ /\ Keep(now, row).rows = Append(now.rows, row)
                  /\ Keep(now, row).skipped = now.skipped
               \/ /\ Keep(now, row).rows = now.rows
                  /\ Keep(now, row).skipped = now.skipped + 1
        BY <3>3, <4>2, KeepIs
      <4>. QED
        BY <1>1, <4>1, <4>3
    <3>5. TracesOf(state, next, line)
      BY <1>7, <3>3, <3>4 DEF TracesOf
    <3>. QED
      BY <1>7, <3>4, <3>5
  <2>. QED
    BY <2>1, <2>2
<1>8. \/ line = << >> /\ next = now
      \/ IsHeader(line) /\ next = EnterTable(now, line)
      \/ /\ ~ IsHeader(line) /\ InTable(state, line)
         /\ next = Keep([now EXCEPT !.inherited =
                           IF state.columns["course"] \in DOMAIN line
                                /\ line[state.columns["course"]] # {}
                             THEN mapped.course ELSE @], mapped)
      \/ /\ ~ IsHeader(line) /\ ~ InTable(state, line)
         /\ next = IF LooksLikeHeader(line) THEN now ELSE Keep(now, LooseRow(n, line))
  BY ReadLineCases, Zenon DEF now, mapped
<1>. QED
  BY <1>4, <1>5, <1>6, <1>7, <1>8

-----------------------------------------------------------------------------
(* Dates                                                                   *)

Found == {parsed.rows[k].line : k \in DOMAIN parsed.rows}

Dated == {n \in DOMAIN text : "aDate" \in Tokens(text[n])}

\* The rows stand in the order of their lines, all of which have been read.
RowsInPlace ==
  /\ \A k \in DOMAIN parsed.rows : parsed.rows[k].line \in 1 .. parsed.line
  /\ \A k \in 2 .. Len(parsed.rows) : parsed.rows[k - 1].line < parsed.rows[k].line

DatesInv ==
  /\ ParserTypeOK
  /\ RowsInPlace
  /\ Cardinality(Dated \ Found) <= parsed.skipped

\* A line leaves the earlier rows where they are.
LEMMA DatesInvKept ==
  ASSUME DatesInv, NEW line \in Lines, ReadNext(line)
  PROVE  DatesInv'
<1>. DEFINE n == Len(text) + 1
<1>1. /\ text \in Seq(Lines) /\ parsed \in ParserState /\ parsed.line = Len(text)
      /\ RowsInPlace /\ Cardinality(Dated \ Found) <= parsed.skipped
  BY DEF DatesInv, ParserTypeOK
<1>2. /\ parsed.rows \in Seq(LessonRow) /\ parsed.skipped \in Nat
      /\ Len(text) \in Nat /\ DOMAIN text = 1 .. Len(text)
      /\ Len(parsed.rows) \in Nat /\ DOMAIN parsed.rows = 1 .. Len(parsed.rows)
  BY <1>1, LenProperties DEF ParserState
<1>3. /\ text' \in Seq(Lines) /\ Len(text') = n /\ DOMAIN text' = 1 .. n
      /\ text'[n] = line /\ \A m \in 1 .. Len(text) : text'[m] = text[m]
  <2>1. text' = Append(text, line)
    BY DEF ReadNext
  <2>2. /\ Append(text, line) \in Seq(Lines) /\ Len(Append(text, line)) = n
        /\ Append(text, line)[n] = line
        /\ \A m \in 1 .. Len(text) : Append(text, line)[m] = text[m]
    BY <1>1, AppendProperties
  <2>. QED
    BY <2>1, <2>2, LenProperties
<1>4. /\ parsed' \in ParserState /\ parsed'.line = n
      /\ TracesOf(parsed, parsed', line)
  <2>1. parsed' = ReadLine(parsed, line)
    BY DEF ReadNext
  <2>. QED
    BY <1>1, <2>1, LineIsRead
<1>5. ParserTypeOK'
  BY <1>3, <1>4 DEF ParserTypeOK
<1>6. /\ Dated' \subseteq Dated \union {n}
      /\ "aDate" \notin Tokens(line) => Dated' = Dated
  BY <1>2, <1>3 DEF Dated
<1>7. IsFiniteSet(Dated) /\ Cardinality(Dated \ Found) \in Nat
  <2>1. IsFiniteSet(1 .. Len(text))
    BY <1>2, FS_Interval
  <2>2. Dated \subseteq 1 .. Len(text)
    BY <1>2 DEF Dated
  <2>3. IsFiniteSet(Dated) /\ IsFiniteSet(Dated \ Found)
    BY <2>1, <2>2, FS_Subset
  <2>. QED
    BY <2>3, FS_CardinalityType
<1>8. CASE parsed'.rows = parsed.rows
  <2>1. RowsInPlace'
    <3>1. 1 .. parsed.line \subseteq 1 .. parsed'.line
      BY <1>1, <1>2, <1>4
    <3>. QED
      BY <1>1, <1>8, <3>1 DEF RowsInPlace
  <2>2. Found' = Found
    BY <1>8 DEF Found
  <2>3. CASE parsed'.skipped = parsed.skipped /\ "aDate" \notin Tokens(line)
    BY <1>1, <1>5, <1>6, <2>1, <2>2, <2>3 DEF DatesInv
  <2>4. CASE parsed'.skipped = parsed.skipped + 1
    <3>1. Dated' \ Found' \subseteq (Dated \ Found) \union {n}
      BY <1>6, <2>2
    <3>2. /\ IsFiniteSet((Dated \ Found) \union {n})
          /\ Cardinality((Dated \ Found) \union {n}) <= Cardinality(Dated \ Found) + 1
      <4>1. IsFiniteSet(Dated \ Found)
        BY <1>7, FS_Subset
      <4>2. \/ Cardinality((Dated \ Found) \union {n}) = Cardinality(Dated \ Found)
            \/ Cardinality((Dated \ Found) \union {n}) = Cardinality(Dated \ Found) + 1
        BY <4>1, FS_AddElement, Zenon
      <4>3. IsFiniteSet((Dated \ Found) \union {n})
        BY <4>1, FS_AddElement, Zenon
      <4>. QED
        BY <1>7, <4>2, <4>3
    <3>3. Cardinality(Dated' \ Found') <= Cardinality((Dated \ Found) \union {n})
      BY <3>1, <3>2, FS_Subset
    <3>4. /\ Cardinality(Dated' \ Found') \in Nat
          /\ Cardinality((Dated \ Found) \union {n}) \in Nat
      BY <3>1, <3>2, FS_Subset, FS_CardinalityType
    <3>5. Cardinality(Dated' \ Found') <= parsed'.skipped
      BY <1>1, <1>2, <1>7, <2>4, <3>2, <3>3, <3>4
    <3>. QED
      BY <1>5, <2>1, <3>5 DEF DatesInv
  <2>5. \/ parsed'.skipped = parsed.skipped /\ "aDate" \notin Tokens(line)
        \/ parsed'.skipped = parsed.skipped + 1
    <3>1. ASSUME NEW row \in LessonRow, parsed'.rows = Append(parsed.rows, row)
          PROVE  FALSE
      <4>1. Len(Append(parsed.rows, row)) = Len(parsed.rows) + 1
        BY <1>2, AppendProperties
      <4>. QED
        BY <1>2, <1>8, <3>1, <4>1
    <3>. QED
      BY <1>4, <3>1 DEF TracesOf
  <2>. QED
    BY <2>3, <2>4, <2>5
<1>9. ASSUME NEW row \in LessonRow, parsed'.rows = Append(parsed.rows, row), row.line = n,
             parsed'.skipped = parsed.skipped
      PROVE  DatesInv'
  <2>1. /\ DOMAIN parsed'.rows = 1 .. Len(parsed.rows) + 1
        /\ Len(parsed'.rows) = Len(parsed.rows) + 1
        /\ parsed'.rows[Len(parsed.rows) + 1] = row
        /\ \A k \in 1 .. Len(parsed.rows) : parsed'.rows[k] = parsed.rows[k]
    <3>1. /\ Append(parsed.rows, row) \in Seq(LessonRow)
          /\ Len(Append(parsed.rows, row)) = Len(parsed.rows) + 1
          /\ Append(parsed.rows, row)[Len(parsed.rows) + 1] = row
          /\ \A k \in 1 .. Len(parsed.rows) : Append(parsed.rows, row)[k] = parsed.rows[k]
      BY <1>2, AppendProperties
    <3>2. DOMAIN Append(parsed.rows, row) = 1 .. Len(parsed.rows) + 1
      BY <3>1, LenProperties
    <3>. QED
      BY <1>9, <3>1, <3>2
  <2>2. RowsInPlace'
    <3>1. \A k \in DOMAIN parsed'.rows : parsed'.rows[k].line \in 1 .. parsed'.line
      <4>1. ASSUME NEW k \in 1 .. Len(parsed.rows)
            PROVE  parsed'.rows[k].line \in 1 .. parsed'.line
        <5>1. parsed.rows[k].line \in 1 .. Len(text)
          BY <1>1, <1>2 DEF RowsInPlace
        <5>2. parsed'.rows[k] = parsed.rows[k]
          BY <2>1
        <5>. QED
          BY <1>2, <1>4, <5>1, <5>2
      <4>2. row.line \in 1 .. parsed'.line
        BY <1>2, <1>4, <1>9
      <4>. QED
        BY <1>2, <2>1, <4>1, <4>2
    <3>2. ASSUME NEW k \in 2 .. Len(parsed'.rows)
          PROVE  parsed'.rows[k - 1].line < parsed'.rows[k].line
      <4>1. CASE k = Len(parsed.rows) + 1
        <5>1. /\ k - 1 \in 1 .. Len(parsed.rows) /\ parsed'.rows[k] = row
              /\ parsed'.rows[k - 1] = parsed.rows[k - 1]
          BY <1>2, <2>1, <4>1
        <5>2. parsed.rows[k - 1].line \in 1 .. Len(text)
          BY <1>1, <1>2, <5>1 DEF RowsInPlace
        <5>. QED
          BY <1>2, <1>9, <5>1, <5>2
      <4>2. CASE k # Len(parsed.rows) + 1
        <5>1. /\ k \in 2 .. Len(parsed.rows) /\ k - 1 \in 1 .. Len(parsed.rows)
              /\ k \in 1 .. Len(parsed.rows)
          BY <1>2, <2>1, <4>2
        <5>. QED
          BY <1>1, <2>1, <5>1 DEF RowsInPlace
      <4>. QED
        BY <4>1, <4>2
    <3>. QED
      BY <3>1, <3>2 DEF RowsInPlace
  <2>3. Found \union {n} \subseteq Found'
    BY <1>2, <1>9, <2>1 DEF Found
  <2>4. Dated' \ Found' \subseteq Dated \ Found
    BY <1>6, <2>3
  <2>5. Cardinality(Dated' \ Found') <= Cardinality(Dated \ Found)
    BY <1>7, <2>4, FS_Subset
  <2>6. Cardinality(Dated' \ Found') \in Nat
    BY <1>7, <2>4, FS_Subset, FS_CardinalityType
  <2>7. Cardinality(Dated' \ Found') <= parsed'.skipped
    BY <1>1, <1>2, <1>7, <1>9, <2>5, <2>6
  <2>. QED
    BY <1>5, <2>2, <2>7 DEF DatesInv
<1>. QED
  BY <1>4, <1>8, <1>9 DEF TracesOf

\* The parser keeps its invariant.
LEMMA DatesInvariant == ParserSpec => []DatesInv
<1>1. ASSUME ParserInit
      PROVE  DatesInv
  <2>1. ParserTypeOK
    BY <1>1, EmptySeq DEF ParserInit, ParserTypeOK, ParserState, ColumnMaps, Courses
  <2>2. RowsInPlace
    BY <1>1 DEF ParserInit, RowsInPlace
  <2>3. Dated = {}
    BY <1>1 DEF ParserInit, Dated
  <2>4. Cardinality(Dated \ Found) = 0 /\ parsed.skipped = 0
    BY <1>1, <2>3, FS_EmptySet DEF ParserInit
  <2>. QED
    BY <2>1, <2>2, <2>4 DEF DatesInv
<1>2. ASSUME DatesInv, [ParserNext]_parserVars
      PROVE  DatesInv'
  <2>1. CASE ParserNext
    BY <1>2, <2>1, DatesInvKept DEF ParserNext
  <2>2. CASE UNCHANGED parserVars
    BY <1>2, <2>2
    DEF parserVars, DatesInv, ParserTypeOK, RowsInPlace, Dated, Found
  <2>. QED
    BY <1>2, <2>1, <2>2
<1>. QED
  BY <1>1, <1>2, PTL DEF ParserSpec

\* However headers, rows of tables, loose lines and titles follow each other, a
\* line with a date is a row of the preview, in its place, or is counted among
\* the lines that staff are told were skipped.
THEOREM DatesAreAccountedFor == ParserSpec => []NoDateDropped
<1>1. DatesInv => NoDateDropped
  BY DEF DatesInv, RowsInPlace, NoDateDropped, Dated, Found
<1>. QED
  BY <1>1, DatesInvariant, PTL

-----------------------------------------------------------------------------
(* Courses                                                                 *)

\* A set of numbers has a least one, which Min returns.
LEMMA MinIsLeast ==
  ASSUME NEW S \in SUBSET Nat, S # {}
  PROVE  Min(S) \in S /\ \A x \in S : Min(S) <= x
<1>1. PICK m \in S : \A x \in S : <<x, m>> \notin OpToRel(<, Nat)
  BY NatLessThanWellFounded, WFMin
<1>2. ASSUME NEW x \in S
      PROVE  m <= x
  <2>1. m \in Nat /\ x \in Nat /\ ~ (x < m)
    BY <1>1 DEF OpToRel
  <2>. QED
    BY <2>1
<1>3. \E g \in S : \A x \in S : g <= x
  BY <1>2
<1>. QED
  BY <1>3 DEF Min

\* Titles are ranked by numbers, and the cells of a line are numbered.
LEMMA TitlesAreRanked == \A field \in Field : DOMAIN Aliases[field] \in SUBSET Nat
<1>1. DOMAIN Aliases["course"] = 1 .. 6
  <2>1. Aliases["course"] = <<"module", "course module", "course", "module code",
                            "subject code", "subject">>
    BY DEF Aliases
  <2>2. DOMAIN <<"module", "course module", "course", "module code",
                            "subject code", "subject">> = 1 .. 6
    OBVIOUS
  <2>. QED
    BY <2>1, <2>2, Zenon
<1>2. DOMAIN Aliases["date"] = 1 .. 1
  <2>1. Aliases["date"] = <<"date">>
    BY DEF Aliases
  <2>2. DOMAIN <<"date">> = 1 .. 1
    OBVIOUS
  <2>. QED
    BY <2>1, <2>2, Zenon
<1>3. DOMAIN Aliases["time"] = 1 .. 2
  <2>1. Aliases["time"] = <<"time", "class time">>
    BY DEF Aliases
  <2>2. DOMAIN <<"time", "class time">> = 1 .. 2
    OBVIOUS
  <2>. QED
    BY <2>1, <2>2, Zenon
<1>4. DOMAIN Aliases["start"] = 1 .. 2
  <2>1. Aliases["start"] = <<"start time", "start">>
    BY DEF Aliases
  <2>2. DOMAIN <<"start time", "start">> = 1 .. 2
    OBVIOUS
  <2>. QED
    BY <2>1, <2>2, Zenon
<1>5. DOMAIN Aliases["end"] = 1 .. 2
  <2>1. Aliases["end"] = <<"end time", "end">>
    BY DEF Aliases
  <2>2. DOMAIN <<"end time", "end">> = 1 .. 2
    OBVIOUS
  <2>. QED
    BY <2>1, <2>2, Zenon
<1>6. DOMAIN Aliases["location"] = 1 .. 4
  <2>1. Aliases["location"] = <<"locations", "venue", "location", "room">>
    BY DEF Aliases
  <2>2. DOMAIN <<"locations", "venue", "location", "room">> = 1 .. 4
    OBVIOUS
  <2>. QED
    BY <2>1, <2>2, Zenon
<1>7. DOMAIN Aliases["notes"] = 1 .. 4
  <2>1. Aliases["notes"] = <<"remarks", "remark", "notes", "note">>
    BY DEF Aliases
  <2>2. DOMAIN <<"remarks", "remark", "notes", "note">> = 1 .. 4
    OBVIOUS
  <2>. QED
    BY <2>1, <2>2, Zenon
<1>. QED
  BY <1>1, <1>2, <1>3, <1>4, <1>5, <1>6, <1>7 DEF Field

\* The same of the cells of a line.
LEMMA CellsAreNumbered ==
  ASSUME NEW line \in Lines
  PROVE  DOMAIN line \in SUBSET (Nat \ {0})
<1>1. line \in Seq(SUBSET (Course \union Title \union Pattern))
  BY TimetableAssumption
<1>. QED
  BY <1>1, LenProperties

\* The cell of column k has the r-th title of a field.
HasTitle(line, field, k, r) == line[k] = {Aliases[field][r]}

\* What _header_index promises: if any cell has a title of the field, the one it
\* returns has a title that none of the others outranks.
LEMMA HeaderIndexIs ==
  ASSUME NEW line \in Lines, NEW field \in Field
  PROVE  LET index == HeaderIndex(line, field)
         IN  \/ /\ index = 0
                /\ \A k \in DOMAIN line : \A r \in DOMAIN Aliases[field] :
                     ~ HasTitle(line, field, k, r)
             \/ /\ index \in DOMAIN line
                /\ \E r \in DOMAIN Aliases[field] :
                     /\ HasTitle(line, field, index, r)
                     /\ \A j \in DOMAIN line : \A q \in DOMAIN Aliases[field] :
                          HasTitle(line, field, j, q) => r < q \/ (r = q /\ index <= j)
<1>. DEFINE At(r) == {k \in DOMAIN line : line[k] = {Aliases[field][r]}}
            found == {r \in DOMAIN Aliases[field] : At(r) # {}}
            best  == Min(found)
<1>1. CASE found = {}
  <2>1. HeaderIndex(line, field) = 0
    BY <1>1 DEF HeaderIndex
  <2>. QED
    BY <1>1, <2>1 DEF HasTitle
<1>2. CASE found # {}
  <2>1. HeaderIndex(line, field) = Min(At(best))
    BY <1>2 DEF HeaderIndex
  <2>2. best \in found /\ \A r \in found : best <= r
    BY <1>2, TitlesAreRanked, MinIsLeast
  <2>3. At(best) # {} /\ At(best) \in SUBSET Nat
    BY <2>2, CellsAreNumbered
  <2>. DEFINE index == Min(At(best))
  <2>4. index \in At(best) /\ \A k \in At(best) : index <= k
    BY <2>3, MinIsLeast
  <2>5. ASSUME NEW j \in DOMAIN line, NEW q \in DOMAIN Aliases[field],
               HasTitle(line, field, j, q)
        PROVE  best < q \/ (best = q /\ index <= j)
    <3>1. j \in At(q) /\ q \in found
      BY <2>5 DEF HasTitle
    <3>2. best <= q /\ best \in Nat /\ q \in Nat
      BY <2>2, <3>1, TitlesAreRanked
    <3>3. best = q => index <= j
      BY <2>4, <3>1
    <3>. HIDE DEF best, index
    <3>. QED
      BY <3>2, <3>3
  <2>6. best \in DOMAIN Aliases[field] /\ HasTitle(line, field, index, best)
        /\ index \in DOMAIN line
    BY <2>2, <2>4 DEF HasTitle
  <2>. HIDE DEF best, index
  <2>7. HeaderIndex(line, field) = index
    BY <2>1 DEF index
  <2>. QED
    BY <2>5, <2>6, <2>7
<1>. QED
  BY <1>1, <1>2

\* The course column of the parser is the one whose title no other outranks.
LEMMA CourseColumnIs ==
  ASSUME NEW line \in Lines, NEW k \in DOMAIN line
  PROVE  IsCourseColumn(line, k) <=> k = HeaderIndex(line, "course")
<1>. DEFINE index == HeaderIndex(line, "course")
<1>1. "course" \in Field
  BY DEF Field
<1>2. DOMAIN line \in SUBSET (Nat \ {0}) /\ DOMAIN Aliases["course"] \in SUBSET Nat
  BY <1>1, CellsAreNumbered, TitlesAreRanked
<1>3. \/ /\ index = 0
         /\ \A j \in DOMAIN line : \A r \in DOMAIN Aliases["course"] :
              ~ HasTitle(line, "course", j, r)
      \/ /\ index \in DOMAIN line
         /\ \E r \in DOMAIN Aliases["course"] :
              /\ HasTitle(line, "course", index, r)
              /\ \A j \in DOMAIN line : \A q \in DOMAIN Aliases["course"] :
                   HasTitle(line, "course", j, q) => r < q \/ (r = q /\ index <= j)
  BY <1>1, HeaderIndexIs
<1>. HIDE DEF index
<1>4. ASSUME k = index
      PROVE  IsCourseColumn(line, k)
  BY <1>2, <1>3, <1>4 DEF IsCourseColumn, HasTitle
<1>5. ASSUME IsCourseColumn(line, k)
      PROVE  k = index
  <2>1. PICK q \in DOMAIN Aliases["course"] :
          /\ HasTitle(line, "course", k, q)
          /\ \A j \in DOMAIN line : \A r \in DOMAIN Aliases["course"] :
               HasTitle(line, "course", j, r) => q < r \/ (q = r /\ k <= j)
    BY <1>5 DEF IsCourseColumn, HasTitle
  <2>2. PICK r \in DOMAIN Aliases["course"] :
          /\ index \in DOMAIN line
          /\ HasTitle(line, "course", index, r)
          /\ \A j \in DOMAIN line : \A s \in DOMAIN Aliases["course"] :
               HasTitle(line, "course", j, s) => r < s \/ (r = s /\ index <= j)
    BY <1>3, <2>1
  <2>3. /\ q < r \/ (q = r /\ k <= index)
        /\ r < q \/ (r = q /\ index <= k)
    BY <2>1, <2>2
  <2>4. q \in Nat /\ r \in Nat /\ k \in Nat /\ index \in Nat
    BY <1>2, <2>2
  <2>. QED
    BY <2>3, <2>4
<1>. QED
  BY <1>4, <1>5 DEF index

\* A line is read as a header exactly if it names two fields, and no date.
LEMMA HeaderIsTitled ==
  ASSUME NEW line \in Lines
  PROVE  IsHeader(line) <=> Titled(line)
<1>. DEFINE Named(field) == \E k \in DOMAIN line : \E r \in DOMAIN Aliases[field] :
                              line[k] = {Aliases[field][r]}
            S == {field \in Field : TableColumns(line)[field] # 0}
<1>1. ASSUME NEW field \in Field
      PROVE  field \in S <=> Named(field)
  <2>1. TableColumns(line)[field] = HeaderIndex(line, field)
    BY DEF TableColumns
  <2>2. DOMAIN line \in SUBSET (Nat \ {0})
    BY CellsAreNumbered
  <2>3. HeaderIndex(line, field) # 0 <=> Named(field)
    BY <2>2, HeaderIndexIs DEF HasTitle
  <2>. QED
    BY <2>1, <2>3
<1>2. IsFiniteSet(S) /\ Cardinality(S) \in Nat
  <2>1. IsFiniteSet(Field)
    <3>1. \A x : \A F : IsFiniteSet(F) => IsFiniteSet(F \union {x})
      BY FS_AddElement
    <3>2. IsFiniteSet({} \union {"course"} \union {"date"} \union {"time"})
      BY <3>1, FS_EmptySet
    <3>3. IsFiniteSet({} \union {"course"} \union {"date"} \union {"time"}
                         \union {"start"} \union {"end"} \union {"location"})
      BY <3>1, <3>2
    <3>4. IsFiniteSet({} \union {"course"} \union {"date"} \union {"time"}
                         \union {"start"} \union {"end"} \union {"location"}
                         \union {"notes"})
      BY <3>1, <3>3
    <3>5. Field = {} \union {"course"} \union {"date"} \union {"time"}
                     \union {"start"} \union {"end"} \union {"location"} \union {"notes"}
      BY DEF Field
    <3>. QED
      BY <3>4, <3>5
  <2>. QED
    BY <2>1, FS_Subset, FS_CardinalityType
<1>3. IsHeader(line) <=> Cardinality(S) >= 2 /\ "aDate" \notin Tokens(line)
  BY DEF IsHeader
<1>4. Titled(line) <=> /\ "aDate" \notin Tokens(line)
                       /\ \E f, g \in S : f # g
  BY <1>1 DEF Titled
<1>. HIDE DEF S
<1>5. ASSUME Cardinality(S) >= 2
      PROVE  \E f, g \in S : f # g
  <2>1. S # {}
    BY <1>5, FS_EmptySet
  <2>2. PICK f \in S : TRUE
    BY <2>1
  <2>3. S # {f}
    <3>1. Cardinality({f}) = 1
      BY FS_Singleton
    <3>. QED
      BY <1>5, <3>1
  <2>. QED
    BY <2>2, <2>3
<1>6. ASSUME NEW f \in S, NEW g \in S, f # g
      PROVE  Cardinality(S) >= 2
  <2>1. IsFiniteSet({f}) /\ Cardinality({f}) = 1
    BY FS_Singleton
  <2>2. Cardinality({f} \union {g}) = 2
    BY <1>6, <2>1, FS_AddElement
  <2>3. Cardinality({f} \union {g}) <= Cardinality(S)
    BY <1>2, FS_Subset
  <2>. QED
    BY <1>2, <2>2, <2>3
<1>. QED
  BY <1>3, <1>4, <1>5, <1>6

\* HeaderAbove and the course handed down, of any lines.
HeaderIn(lines, n) ==
  LET headers == {h \in 1 .. n - 1 : IsHeader(lines[h])}
  IN  IF headers = {} THEN 0 ELSE Max(headers)

Naming(lines, header, n) ==
  {m \in header + 1 .. n - 1 :
     Len(lines[m]) > 1 /\ Names(lines[m], TableColumns(lines[header]))}

CourseNamed(line, columns) == CourseIn(line[columns["course"]])

HandedDown(lines, header, n) ==
  LET naming == Naming(lines, header, n)
  IN  IF naming = {} THEN NoCourse
                     ELSE CourseNamed(lines[Max(naming)], TableColumns(lines[header]))

\* The course of a row is the one of its cell, or handed down in its table.
RowHasCourse(lines, row) ==
  LET header  == HeaderIn(lines, row.line)
      columns == TableColumns(lines[header])
      line    == lines[row.line]
  IN  header # 0 /\ Len(line) > 1 =>
        row.course = IF Names(line, columns) THEN CourseNamed(line, columns)
                                             ELSE HandedDown(lines, header, row.line)

\* The inductive invariant: the loop has the columns of the last header and the
\* course of the last row of its table that names one.
CourseInv ==
  LET next   == parsed.line + 1
      header == HeaderIn(text, next)
  IN  /\ parsed.columns = IF header = 0 THEN NoTable ELSE TableColumns(text[header])
      /\ header # 0 => parsed.inherited = HandedDown(text, header, next)
      /\ \A k \in DOMAIN parsed.rows : RowHasCourse(text, parsed.rows[k])

\* A bounded set of numbers has a greatest one, which Max returns.
LEMMA MaxIsGreatest ==
  ASSUME NEW n \in Nat, NEW S \in SUBSET (1 .. n), S # {}
  PROVE  Max(S) \in S /\ \A x \in S : x <= Max(S)
<1>. DEFINE T == {n - x : x \in S}
<1>1. T \subseteq Nat /\ T # {}
  <2>1. \A x \in S : x \in Int /\ n - x \in Nat
    <3>1. ASSUME NEW x \in S
          PROVE  x \in Int /\ n - x \in Nat
      <4>1. x \in 1 .. n
        OBVIOUS
      <4>. QED
        BY <4>1
    <3>. QED
      BY <3>1
  <2>2. PICK x : x \in S
    OBVIOUS
  <2>. QED
    BY <2>1, <2>2
<1>2. PICK d \in T : \A y \in T : <<y, d>> \notin OpToRel(<, Nat)
  BY <1>1, NatLessThanWellFounded, WFMin
<1>3. PICK m \in S : d = n - m
  BY <1>2
<1>4. ASSUME NEW x \in S
      PROVE  m >= x
  <2>1. n - x \in T /\ n - x \in Nat /\ d \in Nat
    BY <1>1, <1>2
  <2>2. ~ (n - x < d)
    BY <1>2, <2>1 DEF OpToRel
  <2>. QED
    BY <1>3, <2>2
<1>5. \E g \in S : \A x \in S : g >= x
  BY <1>4
<1>6. Max(S) \in S /\ \A x \in S : Max(S) >= x
  BY <1>5 DEF Max
<1>. QED
  BY <1>6

\* Max of a set with a known greatest element.
LEMMA MaxIsLast ==
  ASSUME NEW n \in Nat, NEW S \in SUBSET (1 .. n), n \in S
  PROVE  Max(S) = n
<1>1. Max(S) \in S /\ n <= Max(S)
  BY MaxIsGreatest
<1>2. Max(S) \in 1 .. n
  BY <1>1
<1>. QED
  BY <1>1, <1>2

\* The last header lies above the line it is asked for.
LEMMA HeaderIsAbove ==
  ASSUME NEW lines, NEW n \in Nat \ {0}
  PROVE  /\ HeaderIn(lines, n) \in 0 .. n - 1
         /\ HeaderIn(lines, n) # 0 => IsHeader(lines[HeaderIn(lines, n)])
<1>. DEFINE headers == {h \in 1 .. n - 1 : IsHeader(lines[h])}
<1>1. CASE headers = {}
  BY <1>1 DEF HeaderIn
<1>2. CASE headers # {}
  <2>1. headers \in SUBSET (1 .. n - 1) /\ n - 1 \in Nat
    OBVIOUS
  <2>2. Max(headers) \in headers
    BY <1>2, <2>1, MaxIsGreatest
  <2>3. HeaderIn(lines, n) = Max(headers)
    BY <1>2 DEF HeaderIn
  <2>. QED
    BY <2>2, <2>3
<1>. QED
  BY <1>1, <1>2

\* A new line changes neither the header nor the course of the lines before it.
LEMMA EarlierLinesStay ==
  ASSUME NEW n \in Nat, NEW lines, NEW more, \A i \in 1 .. n : more[i] = lines[i],
         NEW m \in 1 .. n + 1
  PROVE  /\ HeaderIn(more, m) = HeaderIn(lines, m)
         /\ \A h \in 1 .. n : HandedDown(more, h, m) = HandedDown(lines, h, m)
<1>1. \A i \in 1 .. m - 1 : i \in 1 .. n /\ more[i] = lines[i]
  OBVIOUS
<1>2. {h \in 1 .. m - 1 : IsHeader(more[h])} = {h \in 1 .. m - 1 : IsHeader(lines[h])}
  BY <1>1
<1>3. ASSUME NEW h \in 1 .. n
      PROVE  HandedDown(more, h, m) = HandedDown(lines, h, m)
  <2>1. \A i \in h + 1 .. m - 1 : i \in 1 .. n /\ more[i] = lines[i]
    BY <1>1
  <2>2. Naming(more, h, m) = Naming(lines, h, m)
    BY <1>3, <2>1 DEF Naming
  <2>3. CASE Naming(lines, h, m) = {}
    BY <2>2, <2>3 DEF HandedDown
  <2>4. CASE Naming(lines, h, m) # {}
    <3>1. Naming(lines, h, m) \in SUBSET (1 .. n)
      BY <2>1 DEF Naming
    <3>2. Max(Naming(lines, h, m)) \in 1 .. n
      BY <2>4, <3>1, MaxIsGreatest
    <3>. QED
      BY <2>2, <2>4, <3>2 DEF HandedDown
  <2>. QED
    BY <2>3, <2>4
<1>. QED
  BY <1>2, <1>3 DEF HeaderIn

\* What a new line does to the header and the course for the line after it.
LEMMA NewLineCounts ==
  ASSUME NEW n \in Nat, NEW lines, NEW m, m = n + 1
  PROVE  /\ HeaderIn(lines, m + 1) = IF IsHeader(lines[m]) THEN m ELSE HeaderIn(lines, m)
         /\ HandedDown(lines, m, m + 1) = NoCourse
         /\ \A h \in 1 .. n :
              HandedDown(lines, h, m + 1) =
                IF Len(lines[m]) > 1 /\ Names(lines[m], TableColumns(lines[h]))
                  THEN CourseNamed(lines[m], TableColumns(lines[h]))
                  ELSE HandedDown(lines, h, m)
<1>. DEFINE headers(k) == {h \in 1 .. k - 1 : IsHeader(lines[h])}
<1>1. HeaderIn(lines, m + 1) = IF IsHeader(lines[m]) THEN m ELSE HeaderIn(lines, m)
  <2>1. CASE IsHeader(lines[m])
    <3>1. headers(m + 1) \in SUBSET (1 .. m) /\ m \in headers(m + 1) /\ m \in Nat
      BY <2>1
    <3>2. Max(headers(m + 1)) = m
      BY <3>1, MaxIsLast
    <3>. QED
      BY <2>1, <3>1, <3>2 DEF HeaderIn
  <2>2. CASE ~ IsHeader(lines[m])
    <3>1. headers(m + 1) = headers(m)
      BY <2>2
    <3>. QED
      BY <2>2, <3>1 DEF HeaderIn
  <2>. QED
    BY <2>1, <2>2
<1>2. HandedDown(lines, m, m + 1) = NoCourse
  BY DEF HandedDown, Naming
<1>3. ASSUME NEW h \in 1 .. n
      PROVE  HandedDown(lines, h, m + 1) =
               IF Len(lines[m]) > 1 /\ Names(lines[m], TableColumns(lines[h]))
                 THEN CourseNamed(lines[m], TableColumns(lines[h]))
                 ELSE HandedDown(lines, h, m)
  <2>1. CASE Len(lines[m]) > 1 /\ Names(lines[m], TableColumns(lines[h]))
    <3>1. /\ Naming(lines, h, m + 1) \in SUBSET (1 .. m) /\ m \in Naming(lines, h, m + 1)
          /\ m \in Nat
      BY <2>1 DEF Naming
    <3>2. Max(Naming(lines, h, m + 1)) = m
      BY <3>1, MaxIsLast
    <3>. QED
      BY <2>1, <3>1, <3>2 DEF HandedDown
  <2>2. CASE ~ (Len(lines[m]) > 1 /\ Names(lines[m], TableColumns(lines[h])))
    <3>1. Naming(lines, h, m + 1) = Naming(lines, h, m)
      BY <2>2 DEF Naming
    <3>. QED
      BY <2>2, <3>1 DEF HandedDown
  <2>. QED
    BY <2>1, <2>2
<1>. QED
  BY <1>1, <1>2, <1>3

\* A line keeps the course of every row, and hands down the right one.
LEMMA CourseInvKept ==
  ASSUME DatesInv, CourseInv, NEW line \in Lines, ReadNext(line)
  PROVE  CourseInv'
<1>. DEFINE n == Len(text)
            m == n + 1
            h == HeaderIn(text, m)
            u == text'
<1>1. /\ text \in Seq(Lines) /\ parsed \in ParserState /\ parsed.line = n /\ n \in Nat
      /\ parsed.rows \in Seq(LessonRow) /\ DOMAIN parsed.rows = 1 .. Len(parsed.rows)
      /\ Len(parsed.rows) \in Nat
      /\ \A k \in DOMAIN parsed.rows : parsed.rows[k].line \in 1 .. n
  BY LenProperties DEF DatesInv, ParserTypeOK, ParserState, RowsInPlace
<1>2. /\ u[m] = line /\ \A i \in 1 .. n : u[i] = text[i]
  BY <1>1, AppendProperties DEF ReadNext
<1>3. /\ parsed'.line = m
      /\ parsed'.columns = IF IsHeader(line) THEN TableColumns(line) ELSE parsed.columns
      /\ parsed'.inherited =
           IF IsHeader(line) THEN NoCourse
           ELSE IF InTable(parsed, line) /\ Names(line, parsed.columns)
             THEN CourseIn(line[parsed.columns["course"]]) ELSE parsed.inherited
      /\ TracesOf(parsed, parsed', line)
  <2>1. parsed' = ReadLine(parsed, line)
    BY DEF ReadNext
  <2>. QED
    BY <1>1, <2>1, LineIsRead
<1>4. /\ parsed.columns = IF h = 0 THEN NoTable ELSE TableColumns(text[h])
      /\ h # 0 => parsed.inherited = HandedDown(text, h, m)
      /\ \A k \in DOMAIN parsed.rows : RowHasCourse(text, parsed.rows[k])
  BY <1>1 DEF CourseInv
<1>5. h \in 0 .. n /\ (h # 0 => IsHeader(text[h]))
  <2>1. m \in Nat \ {0} /\ m - 1 = n
    BY <1>1
  <2>. HIDE DEF m, h
  <2>2. HeaderIn(text, m) \in 0 .. m - 1
        /\ (HeaderIn(text, m) # 0 => IsHeader(text[HeaderIn(text, m)]))
    BY <2>1, HeaderIsAbove
  <2>. QED
    BY <2>1, <2>2 DEF h
<1>6. h # 0 => parsed.columns # NoTable
  BY <1>4, <1>5, HeaderHasColumns
<1>7. \A i \in 1 .. m :
         /\ HeaderIn(u, i) = HeaderIn(text, i)
         /\ \A g \in 1 .. n : HandedDown(u, g, i) = HandedDown(text, g, i)
  <2>. HIDE DEF n, u
  <2>1. ASSUME NEW i \in 1 .. n + 1
        PROVE  /\ HeaderIn(u, i) = HeaderIn(text, i)
               /\ \A g \in 1 .. n : HandedDown(u, g, i) = HandedDown(text, g, i)
    <3>1. n \in Nat /\ \A j \in 1 .. n : u[j] = text[j]
      BY <1>1, <1>2
    <3>. QED
      BY <2>1, <3>1, EarlierLinesStay, Zenon
  <2>. QED
    BY <2>1 DEF m
<1>8. h # 0 => h \in 1 .. n /\ u[h] = text[h]
  BY <1>1, <1>2, <1>5
<1>9. /\ HeaderIn(u, m + 1) = IF IsHeader(line) THEN m ELSE h
      /\ HandedDown(u, m, m + 1) = NoCourse
      /\ h # 0 => HandedDown(u, h, m + 1) =
                    IF Len(line) > 1 /\ Names(line, TableColumns(text[h]))
                      THEN CourseNamed(line, TableColumns(text[h]))
                      ELSE HandedDown(text, h, m)
  <2>1. m \in 1 .. m
    BY <1>1
  <2>2. /\ HeaderIn(u, m + 1) = IF IsHeader(u[m]) THEN m ELSE HeaderIn(u, m)
        /\ HandedDown(u, m, m + 1) = NoCourse
        /\ \A g \in 1 .. n : HandedDown(u, g, m + 1) =
             IF Len(u[m]) > 1 /\ Names(u[m], TableColumns(u[g]))
               THEN CourseNamed(u[m], TableColumns(u[g])) ELSE HandedDown(u, g, m)
    BY <1>1, NewLineCounts
  <2>. HIDE DEF m, n, h, u
  <2>3. HeaderIn(u, m) = h
    BY <1>7, <2>1 DEF h
  <2>. QED
    BY <1>2, <1>7, <1>8, <2>1, <2>2, <2>3
<1>10. (parsed'.columns = IF HeaderIn(u, m + 1) = 0 THEN NoTable
                                                   ELSE TableColumns(u[HeaderIn(u, m + 1)]))
       /\ (HeaderIn(u, m + 1) # 0 =>
            parsed'.inherited = HandedDown(u, HeaderIn(u, m + 1), m + 1))
  <2>1. CASE IsHeader(line)
    <3>1. HeaderIn(u, m + 1) = m /\ m # 0
      BY <1>1, <1>9, <2>1
    <3>. QED
      BY <1>2, <1>3, <1>9, <2>1, <3>1
  <2>2. CASE ~ IsHeader(line)
    <3>1. HeaderIn(u, m + 1) = h
      BY <1>9, <2>2
    <3>2. CASE h = 0
      BY <1>3, <1>4, <2>2, <3>1, <3>2
    <3>3. CASE h # 0
      <4>1. parsed'.columns = TableColumns(u[h])
        BY <1>3, <1>4, <1>8, <2>2, <3>3
      <4>2. parsed'.inherited = HandedDown(u, h, m + 1)
        BY <1>3, <1>4, <1>6, <1>9, <2>2, <3>3 DEF InTable, CourseNamed
      <4>. QED
        BY <3>1, <3>3, <4>1, <4>2
    <3>. QED
      BY <3>2, <3>3
  <2>. QED
    BY <2>1, <2>2
<1>11. \A k \in DOMAIN parsed.rows : RowHasCourse(u, parsed.rows[k])
  <2>1. SUFFICES ASSUME NEW k \in DOMAIN parsed.rows
                 PROVE  RowHasCourse(u, parsed.rows[k])
    OBVIOUS
  <2>. DEFINE row == parsed.rows[k]
              g   == HeaderIn(text, row.line)
  <2>2. /\ row.line \in 1 .. n /\ row.line \in 1 .. m /\ row.line \in Nat \ {0}
        /\ u[row.line] = text[row.line] /\ HeaderIn(u, row.line) = g
    BY <1>1, <1>2, <1>7
  <2>3. g # 0 => g \in 1 .. n /\ u[g] = text[g]
                 /\ HandedDown(u, g, row.line) = HandedDown(text, g, row.line)
    <3>1. g \in 0 .. row.line - 1
      BY <2>2, HeaderIsAbove
    <3>2. g # 0 => g \in 1 .. n
      BY <1>1, <2>2, <3>1
    <3>. QED
      BY <1>2, <1>7, <2>2, <3>2
  <2>4. RowHasCourse(text, row)
    BY <1>4
  <2>. QED
    BY <2>2, <2>3, <2>4 DEF RowHasCourse
<1>12. ASSUME NEW row \in LessonRow, row.line = m,
              InTable(parsed, line) => row.course = CourseHere(parsed, line)
       PROVE  RowHasCourse(u, row)
  <2>1. HeaderIn(u, m) = h /\ (h # 0 => HandedDown(u, h, m) = HandedDown(text, h, m))
    BY <1>1, <1>7, <1>8
  <2>2. SUFFICES ASSUME h # 0, Len(line) > 1
                 PROVE  row.course = IF Names(line, TableColumns(u[h]))
                                       THEN CourseNamed(line, TableColumns(u[h]))
                                       ELSE HandedDown(u, h, m)
    BY <1>2, <1>12, <2>1 DEF RowHasCourse
  <2>3. row.course = CourseHere(parsed, line)
    BY <1>6, <1>12, <2>2 DEF InTable
  <2>4. parsed.columns = TableColumns(u[h]) /\ parsed.inherited = HandedDown(u, h, m)
    BY <1>4, <1>8, <2>1, <2>2
  <2>. QED
    BY <2>3, <2>4 DEF CourseHere, CourseNamed
<1>13. \A k \in DOMAIN parsed'.rows : RowHasCourse(u, parsed'.rows[k])
  <2>1. CASE parsed'.rows = parsed.rows
    BY <1>11, <2>1
  <2>2. ASSUME NEW row \in LessonRow, parsed'.rows = Append(parsed.rows, row),
               row.line = parsed'.line,
               InTable(parsed, line) => row.course = CourseHere(parsed, line)
        PROVE  \A k \in DOMAIN parsed'.rows : RowHasCourse(u, parsed'.rows[k])
    <3>1. /\ Append(parsed.rows, row) \in Seq(LessonRow)
          /\ Len(Append(parsed.rows, row)) = Len(parsed.rows) + 1
          /\ Append(parsed.rows, row)[Len(parsed.rows) + 1] = row
          /\ \A k \in 1 .. Len(parsed.rows) : Append(parsed.rows, row)[k] = parsed.rows[k]
      BY <1>1, AppendProperties
    <3>2. DOMAIN Append(parsed.rows, row) = 1 .. Len(parsed.rows) + 1
      BY <3>1, LenProperties
    <3>3. RowHasCourse(u, row)
      BY <1>3, <1>12, <2>2
    <3>4. ASSUME NEW k \in DOMAIN parsed'.rows
          PROVE  RowHasCourse(u, parsed'.rows[k])
      <4>1. k \in DOMAIN parsed.rows \/ k = Len(parsed.rows) + 1
        BY <1>1, <2>2, <3>2
      <4>. QED
        BY <1>1, <1>11, <2>2, <3>1, <3>3, <4>1
    <3>. QED
      BY <3>4
  <2>. QED
    BY <1>3, <2>1, <2>2 DEF TracesOf
<1>. QED
  BY <1>3, <1>10, <1>13 DEF CourseInv

\* What the parser reads in a row is what the titles of its table say.
LEMMA NamingIsByTitle ==
  ASSUME ParserTypeOK, NEW header \in DOMAIN text, NEW n \in DOMAIN text, NEW c
  PROVE  NamesCourse(header, n, c) <=>
           /\ Len(text[n]) > 1
           /\ Names(text[n], TableColumns(text[header]))
           /\ c = CourseNamed(text[n], TableColumns(text[header]))
<1>. DEFINE index == HeaderIndex(text[header], "course")
<1>1. text[header] \in Lines /\ text[n] \in Lines
  BY ElementOfSeq, LenProperties DEF ParserTypeOK
<1>2. TableColumns(text[header])["course"] = index
  BY DEF TableColumns, Field
<1>3. \A k \in DOMAIN text[header] :
        IsCourseColumn(text[header], k) <=> k = index
  BY <1>1, CourseColumnIs
<1>4. index = 0 \/ index \in DOMAIN text[header]
  BY <1>1, HeaderIndexIs DEF Field
<1>5. 0 \notin DOMAIN text[n]
  BY <1>1, CellsAreNumbered
<1>. HIDE DEF index
<1>. QED
  BY <1>2, <1>3, <1>4, <1>5 DEF NamesCourse, Names, CourseNamed

\* What the invariant says of a row is what the preview promises.
LEMMA CourseInvIsEnough ==
  ASSUME CourseInv, DatesInv
  PROVE  CourseOfTheTable
<1>. SUFFICES ASSUME NEW k \in DOMAIN parsed.rows,
                     NEW header \in 1 .. parsed.rows[k].line - 1,
                     Titled(text[header]),
                     \A m \in header + 1 .. parsed.rows[k].line : ~ Titled(text[m]),
                     Len(text[parsed.rows[k].line]) > 1
              PROVE  LET row   == parsed.rows[k]
                         below == header + 1 .. row.line
                         named == {m \in below : \E c \in Course \union {AsWritten} :
                                                   NamesCourse(header, m, c)}
                     IN  IF named = {} THEN row.course = NoCourse
                                       ELSE NamesCourse(header, Max(named), row.course)
  BY DEF CourseOfTheTable
<1>. DEFINE row     == parsed.rows[k]
            n       == row.line
            columns == TableColumns(text[header])
            named   == {m \in header + 1 .. n : \E c \in Course \union {AsWritten} :
                                                NamesCourse(header, m, c)}
<1>1. /\ ParserTypeOK /\ n \in 1 .. Len(text) /\ Len(text) \in Nat
      /\ DOMAIN text = 1 .. Len(text)
      /\ \A m \in DOMAIN text : text[m] \in Lines
  BY LenProperties, ElementOfSeq DEF DatesInv, RowsInPlace, ParserTypeOK
<1>2. header \in DOMAIN text /\ header # 0
      /\ \A m \in header + 1 .. n : m \in DOMAIN text
  BY <1>1
<1>3. HeaderIn(text, n) = header
  <2>. DEFINE headers == {h \in 1 .. n - 1 : IsHeader(text[h])}
  <2>1. header \in headers
    BY <1>1, <1>2, HeaderIsTitled
  <2>2. headers \in SUBSET (1 .. n - 1) /\ n - 1 \in Nat
    BY <1>1
  <2>3. Max(headers) \in headers /\ header <= Max(headers)
    BY <2>1, <2>2, MaxIsGreatest
  <2>4. ~ (Max(headers) \in header + 1 .. n)
    BY <1>1, <1>2, <2>3, HeaderIsTitled
  <2>5. HeaderIn(text, n) = Max(headers)
    BY <2>1 DEF HeaderIn
  <2>6. Max(headers) \in 1 .. n - 1
    BY <2>3
  <2>. HIDE DEF headers
  <2>. QED
    BY <1>1, <2>3, <2>4, <2>5, <2>6
<1>4. \A m \in header + 1 .. n : \A c :
        NamesCourse(header, m, c) <=>
          Len(text[m]) > 1 /\ Names(text[m], columns) /\ c = CourseNamed(text[m], columns)
  BY <1>1, <1>2, NamingIsByTitle
<1>5. \A m : CourseNamed(text[m], columns) \in Course \union {AsWritten}
  BY DEF CourseNamed, CourseIn
<1>6. named = {m \in header + 1 .. n : Len(text[m]) > 1 /\ Names(text[m], columns)}
  BY <1>4, <1>5
<1>7. row.course = IF Names(text[n], columns) THEN CourseNamed(text[n], columns)
                                              ELSE HandedDown(text, header, n)
  <2>1. RowHasCourse(text, row)
    BY DEF CourseInv
  <2>. QED
    BY <1>2, <1>3, <2>1 DEF RowHasCourse
<1>. HIDE DEF named
<1>8. CASE Names(text[n], columns)
  <2>1. named \in SUBSET (1 .. n) /\ n \in named /\ n \in Nat
    BY <1>1, <1>6, <1>8
  <2>2. Max(named) = n
    BY <2>1, MaxIsLast
  <2>3. NamesCourse(header, n, row.course)
    BY <1>1, <1>4, <1>7, <1>8
  <2>. QED
    BY <2>1, <2>2, <2>3 DEF named
<1>9. CASE ~ Names(text[n], columns)
  <2>1. named = Naming(text, header, n)
    BY <1>1, <1>6, <1>9 DEF Naming
  <2>2. CASE named = {}
    BY <1>7, <1>9, <2>1, <2>2 DEF HandedDown, named
  <2>3. CASE named # {}
    <3>1. Max(named) \in named
      <4>1. named \in SUBSET (1 .. n) /\ n \in Nat
        BY <1>1, <1>6
      <4>. QED
        BY <2>3, <4>1, MaxIsGreatest
    <3>2. row.course = CourseNamed(text[Max(named)], columns)
      BY <1>7, <1>9, <2>1, <2>3 DEF HandedDown
    <3>3. /\ Max(named) \in header + 1 .. n /\ Len(text[Max(named)]) > 1
          /\ Names(text[Max(named)], columns)
      BY <1>6, <3>1
    <3>4. NamesCourse(header, Max(named), row.course)
      BY <1>4, <3>2, <3>3
    <3>. QED
      BY <2>3, <3>4 DEF named
  <2>. QED
    BY <2>2, <2>3
<1>. QED
  BY <1>8, <1>9

\* Over all tables of a text, whatever titles rival for the course and whichever
\* rows leave its cell empty, a row has the course that its own table last named
\* in the column of the best title, never that of an earlier table.
THEOREM CoursesAreOfTheirTable == ParserSpec => []CourseOfTheTable
<1>1. ASSUME ParserInit
      PROVE  CourseInv
  <2>1. parsed.line = 0 /\ parsed.columns = NoTable /\ DOMAIN parsed.rows = {}
    BY <1>1 DEF ParserInit
  <2>2. HeaderIn(text, 1) = 0
    BY DEF HeaderIn
  <2>. QED
    BY <2>1, <2>2 DEF CourseInv
<1>2. ASSUME DatesInv, CourseInv, [ParserNext]_parserVars
      PROVE  CourseInv'
  <2>1. CASE ParserNext
    BY <1>2, <2>1, CourseInvKept DEF ParserNext
  <2>2. CASE UNCHANGED parserVars
    BY <1>2, <2>2 DEF parserVars, CourseInv
  <2>. QED
    BY <1>2, <2>1, <2>2
<1>3. CourseInv /\ DatesInv => CourseOfTheTable
  BY CourseInvIsEnough
<1>. QED
  BY <1>1, <1>2, <1>3, DatesInvariant, PTL DEF ParserSpec

=============================================================================
