# Robot booking system: specifications and proofs

TLA+ specifications of the robot booking system in `app/`: a FastAPI web
application over one SQLite database, and a queue worker in a process of its
own that imports application files. Staff turn applications into booking
requests, approve them onto robots, amend, release and cancel them, and put
lessons and maintenance on the same calendar. What has to be right is the
agreement of three things: the request list, the reservations on the calendar,
and what the availability engine says is free.

## The system

| Part | State | Operations | Talks to |
|---|---|---|---|
| Database schema (`models.py`, `config.py`) | tables `resources`, `booking_requests`, `reservations`, `applicants` | – | everything |
| Availability engine (`services/availability.py`) | none | `expand_slots`, `overlaps`, `active_reservations`, `check_resource`, `build_report` | reads the database |
| Booking service (`services/booking_service.py`) | none of its own | `save_request`, `approve_request`, `amend_request`, `reject_request`, `cancel_request`, `reopen_request`, `cancel_reservation`, `create_manual_reservation`, `check_lesson_conflicts`, `import_lessons`, `upsert_applicant`, `lookup_applicant_history`, search | engine, database |
| Request pages (`routes/requests.py`) | one session per request; rows loaded before `await request.form()` | create, update, reopen, approve, reject, cancel (coroutines) | booking service |
| Calendar actions (`routes/calendar.py`) | one session per request | manual entry, release of one slot (thread pool) | booking service |
| Robot administration (`routes/resources.py`) | – | add a robot, change its status | database |
| Lesson import (`routes/lessons.py`, `lesson_parser.py`) | what the browser displays: rows, clashes, a box to confirm them | parse, check, confirm, import | booking service |
| Queue worker (`services/queue_processor.py`) | the registry, in memory and in `processed.json` | `scan_queue`, `process_file`, `auto_import` | folder, engine, booking service, database |
| Sessions (`db.py`) | identity map per session | load, flush, commit, rollback | SQLite |
| Calendar views (`calendar_view.py`, `blocked_periods`, colours of `models.py`) | – | week grid, hand-back notice, colours | reads only |
| Presentation | – | banner, search, e-mail parser | reads only |

What makes it hard:

* **Interleaving.** Coroutines give way only at `await`, but threads and the
  worker interleave with them anywhere, and checks (`_recheck`,
  `response_id_errors`, the clash test of the calendar) read before the
  transaction writes and locks.
* **Stale rows.** SQLAlchemy does not refresh a row that is in the session, so
  the status on which a handler decides is the one from before the form was
  awaited; an `UPDATE` then writes the changed columns only.
* **Long lives.** A request may be approved, amended, partly released,
  cancelled, reopened and approved again; its old reservations stay in the table.
* **Pages.** What a browser displays (clashes, an edit form, a free cell) is
  acted upon after anything may have happened.
* **Faults.** Files arrive half-synchronised, change between two reads or hold
  something else than an application, the worker dies at any point, the registry is
  rewritten in place, files and database are locked at times.

What makes each part correct:

* engine: exactly the entries that share time with a slot are reported, own
  slots and adjacent times excepted;
* booking service: a request is APPROVED exactly while it holds slots, those it
  asks for, each once; overlaps are on record; a Response ID names one live
  request; the reservations are a history; a decision is all or nothing;
* handlers: every interleaving amounts to some order of decisions (it does not;
  see the findings), and the worker never books over anything;
* worker: every application that is read reaches the booking list (it does not; see the
  findings) and comes to stay there; none is imported twice without a cause; two live
  requests never have one Response ID (they may, after a race);
* lesson import: what a timetable overlaps was shown to staff or is newer than
  the check; each pasted lesson arrives with its own course and times;
* applicants: one SID/NetID is one record, a request belongs to whom its form
  names, and an edit corrects a record instead of forking it;
* views: nothing on the calendar is hidden, a cell shown as free can be booked,
  and the hand-back day is the day before the first blocked one.

## Modules

| Module | Models | Extends |
|---|---|---|
| `BookingTables` | rows, statuses, the clock | – |
| `Availability` | the availability engine, as operators over tables | `BookingTables` |
| `BookingRules` | the checks and row updates of the booking service, as operators over tables | `Availability` |
| `BookingService` | every decision as one atomic step; the properties | `BookingRules` |
| `WebHandlers` | coroutines, threads and the worker's import, each in its read and write steps; refines `BookingService` when nothing overlaps | `BookingRules` |
| `CalendarViews` | the week grid and the blocked periods, as operators over tables | `Availability` |
| `LessonPages` | the lesson import page in its steps, next to every other decision; what the calendar pages say | `BookingService`, `CalendarViews` |
| `TimetableParser` | how the lines of a timetable become rows, and times of day are read | – |
| `BorrowerColours` | how borrowers get their colours | – |
| `Applicants` | who a request is for: forms and worker in their read and write steps | `BorrowerColours` |
| `QueueWorker` | folder, registry, scan, crash, restart | – |
| `BookingRulesProofs` | lemmas about the operators of the engine and the rules | `BookingRules` |
| `BookingServiceProofs` | theorems about `BookingService`: types, Response IDs, history, who holds slots | `BookingService`, `BookingRulesProofs` |
| `BookingSlotsProofs` | theorems about `BookingService`: overlaps, sessions, whole decisions | `BookingServiceProofs` |
| `WebHandlersProofs` | theorems about `WebHandlers`, its refinement of `BookingService` among them | `WebHandlers`, `BookingRulesProofs`; an instance of `BookingSlotsProofs` |
| `LessonPagesProofs` | theorems about `LessonPages` and `CalendarViews` | `LessonPages`, `BookingSlotsProofs` |
| `TimetableParserProofs` | theorems about `TimetableParser` | `TimetableParser` |
| `ApplicantsProofs` | theorems about `Applicants` | `Applicants` |
| `QueueWorkerProofs` | theorems about `QueueWorker` | `QueueWorker` |
| `MCBookingService`, `MCWebHandlers`, `MCQueueWorker`, `MCApplicants` | values for the constants | the module in their name |
| `MCLessonPages` | values for the constants; `LessonPages` and `TimetableParser` side by side | both |

**Tables.** A table is a sequence. No code deletes a row, so a row's index is
its primary key. An instant is a number of minutes from midnight of day 0. A
conflict note is only present or absent. Contact data, remarks and
timestamps are left out: no decision depends on them. Applicants are in a module of
their own, since no booking decision reads them. A robot has a status, or is
`Missing` while staff have not added it.

**BookingService.** One action per service function, with its early returns as
guards. A call that ends in a `ValidationError` rolls back and is no step.
`Approve(q, r, allow)` and `Amend` read the verdict of the engine and write the rows
with their conflict notes; `CancelReservation` includes the change of the request that
follows the last slot. `ImportApproved` is the worker's import and approval in one
transaction. `CreateManual` checks for clashes (`allow_overlap` is passed by no
caller), `ImportLessons` does not: staff confirm the clashes on the preview page.

**WebHandlers.** Each handler is one read step (`Load`, for those that have loaded a
row when they await), one check (`CheckApprove`, ...) and one write (`Commit`,
`CommitAmend`, ...). From its first flush to the commit a session holds SQLite's
only write lock, so that is one step. `LoopIsFree` says that no coroutine runs while
another is between its check and its commit: neither awaits there. `WriteBack` is
the column-wise `UPDATE`. `amend_request` flushes the new fields before its
re-check, so `CommitAmend` re-checks under the lock; if the form changes no column
there is nothing to flush, and the re-check is unlocked (`CheckAmend`, first
alternative; a change of a column that is not modelled, such as the purpose, keeps
the other alternative always possible). `ReadApplication` and `CommitImport` are the
worker's `auto_import`. `Rollback` lets every actor give up at any point, which stands for
validation errors, `database is locked`, and a client that disconnects. Lesson imports
are in `LessonPages`.

**LessonPages.** The decisions of `BookingService` in one step each, and the import page in
three: a submission is checked (`ShowClashes`, `CheckImport` or, when its rows are
incomplete or a robot is missing in the end, `ReturnRows`), and written (`CommitImport`). `page` is what a tab displays. After a submission went through, the tab is
still there: a double click, another tab or the browser's way back submits it
again. `Confirmed` is the box of `templates/lessons.html:111`: it is `required`, so
once clashes are displayed every submission comes with it, corrected rows or not.
Handlers are coroutines that do not await after the form (`LoopIsFree`); the worker
and the calendar's threads commit between a check and its write (`OutsideStep`).
`known`, the length of the calendar at the time of a check, is there for the properties.

**CalendarViews.** `WeekGrid` is `build_week_grid`, `BlockedPeriods` is `blocked_periods`. The code
sorts the blocked days and lengthens the last run or opens another; `RunsOfDays` takes the days of the
period one by one, in the same order, and passes over the free ones. It is a recursive function. The
invariants of `LessonPages` evaluate these operators in every reachable state.

**TimetableParser.** A line is its cells, a cell the set of what the patterns find in
it; which text matches a pattern is an input. One step reads a line: a header opens a
table, a row of a table is read by its columns, a line outside any table by what its
cells hold. A field may be called several things, and `HeaderIndex` takes the best of them
that is there (`Aliases`, in the code's order): a Module column wins over a Subject column
to its left. A loose line is taken for a header by another, shorter list of words
(`HeaderWord`). Single times side by side are a range unless bars stand between them
(`Barred`). `times` pairs what the author of a range meant with what is read, for the
four notations the parser's comments and tests promise. `CourseOfTheTable` does not
use `HeaderIndex`: it finds the column of the course by comparing titles (`IsCourseColumn`).

**Applicants.** `Targets` is the choice of `upsert_applicant`: the SID decides, then the
applicant the request had when it was loaded, then a name among people without SID.
Check and commit are apart; the flush and the commit are one step, as from the flush
on SQLite's write lock is held. `DistinctSids` is the unique constraint, which makes one
SID one record; no handler catches its error, so `RefusedOnlyByARace` says that it needs a commit
of somebody else between the check and the flush.

**BorrowerColours.** Linear probing in the palette, for arbitrary hashes; ids stand for
their keys. `Resolved` is the code's loop as a recursive function of the number of
borrowers served, `Probe` its body.

**QueueWorker.** A file holds one of a few contents: applications, complete or not,
`Partial` (what does not parse) and `NoObject` (JSON that is no object). A hash is the content.
The three reads of a pass (`ReadHash`, `ProcessFile`, `StartImport`) are separate steps, and
the sender may replace the file between them, also by what it held before: the
registry keeps one hash per file. `process_file` judges (`VerdictOn`), and calls
`outer.get` outside any `try`: JSON that is no object ends the scan (`AbortScan`), so the files
after it are not visited and the registry is not saved. `auto_import` drops
what has no name, no date or no session, and what shares its Response ID with a live
request (`DropImport`). Its test of the Response ID (`StartImport`) and its insert (`CommitImport`)
are two steps, and so are those of staff who reopen a request (`StartReopen`, `CommitReopen`): one can
commit between the two of the other. Saving the registry is two steps:
opening the file empties it. A corrupt registry starts fresh, as in
`_Registry._load`. `imported` is the part of the request table that comes from
files. Two kinds of history variables are there for the properties: `overtaken` marks a request that was
made live although its Response ID had been taken since its test, and `torn` has the contents a
file was registered with by passes that read another content, too.

## Runs

| Run | Module | Checks | Result |
|---|---|---|---|
| `OneRobot` | `MCBookingService` | `TypeOK`, `NoSilentOverlap`, `ApprovedHoldsSlots`, `NoSlotHeldTwice`, `UniqueLiveResponseId`, `HistoryKept` | hold |
| `Timetables` | `MCLessonPages` | `NoSilentOverlap`, `SlotsMatchRequest`, `DecisionIsWhole`, `LessonsKeepApart`, `UnseenClashIsNewer`, `NothingHidden`, `FreeCellIsFree`, `HandBackIsRight`, `TimesAsWritten`, `NoDateDropped`, `CourseOfTheTable` | hold |
| `Serial` | `MCWebHandlers` | `ImplementsService` | holds |
| `WithWorker` | `MCWebHandlers` | `ApprovedHoldsSlots`, `SlotsMatchRequest`, `NoSlotHeldTwice`, `DatesInOrder`, `WorkerBooksOnlyFreeSlots` | hold |
| `Queue` | `MCQueueWorker` | `TypeOK`, `NothingLost`, `OneLiveUnlessOvertaken`, `ReimportHasCause`, `EventuallyImported` | hold |
| `Applicants` | `MCApplicants` | `TypeOK`, `RefusedOnlyByARace`, `PreviewCoversChoice`, `ColoursApart`, `MovesOnlyToHolder`, `SavedUnderItsSid` | hold |
| `TwoForms` | `MCWebHandlers` | `DatesBreakOnlyByOvertaking`, `BookingsBreakOnlyByOvertaking`, `StaffBookInService`, `HistoryKept` | hold |
| `DoubleApproval` | `MCWebHandlers` | `NoSlotHeldTwice` | violated |
| `StaleAvailability` | `MCWebHandlers` | `NoSilentOverlap` | violated |
| `DuplicateResponseId` | `MCWebHandlers` | `UniqueLiveResponseId` | violated |
| `LostFile` | `MCQueueWorker` | `RegisteredMeansImported` | violated |
| `NeverQueued` | `MCQueueWorker` | `EveryApplicationIsQueued` | violated |

`tlc -config OneRobot.cfg MCBookingService.tla` runs the first; the others
likewise. The largest (`TwoForms`, `Queue`: about a million distinct states each) take
two minutes with two workers.

*Bounds.* `MaxRequests` and `MaxReservations` cap the tables. Two requests are
needed for anything that relates two (a Response ID, a clash between bookings);
`OneRobot`, `Serial` and `WithWorker` have them. Four reservations are a booking of two sessions and its
amendment to two others, or two bookings that clash with a lesson; `WithWorker` has
four, with forms that move the start of a booking (`MCStarts`), `Serial` three (one session
amended to two, or two bookings and an entry). `TwoForms` needs one request, whose
two edits meet: its forms (`MCForms`) move one end of the dates, both, or give them the wrong
way round; two reservations are a session and its amendment, or one that is released while it
is amended; its thread may release a slot of the booking and enter something else at any moment. The calendar's threads meet the worker in no run that lets them interleave: there
`WorkerNeverOverlaps` and `HandlersKeepHistory` speak for both. An amendment moves a booking to another
robot in `Timetables` only; that it does so correctly next to the worker is `LoneSlotsMatch`. The dates of the other runs are a full day, two mornings, and an interval that is the wrong way
round; the entry from 11:00 to 14:00 straddles lunch and meets both sessions. `Timetables` lies around the
turn of a week: a booking of Sunday and Monday morning, a lesson entered by hand from
Sunday 23:00 to Monday 11:45, and timetables on one robot, or on that and another, whose rows run against
the calendar, touch across lunch with each other, or have their times swapped; one tab is
enough for a double submission, since nothing tells two submissions of one tab
from those of two, except that the clashes displayed are another's. One Response
ID is enough, since the rules never relate two different ones. A timetable has up to four lines out of twelve kinds: three headers
with their columns in different order, one of which has both a Subject and a Module; rows with a
course cell, with one of two, without, and with the wrong number of cells; a row pasted as Markdown, a loose
line, a title with a date, two titles of one field, and a blank line: a course can
be carried over from one table to the next in four. Times of day are around
midnight, noon and 9:30. Two SIDs, two names and three requests let two people with and without a
SID share a name; two forms and the worker save at once; three colours under hashes that
all collide, collide in two and wrap round, or leave a gap. The queue has two files. The first may hold an
application, its correction under the same Response ID, or no object; the second one that is
half-synchronised, an application without a Response ID, or one without a name, or without a date. They are
written three times in all (`MCWriteCounts`), so that a file may return to what it held, or be replaced
once beside the other; one first read fails, and one late read or one crash
(`MCFaultCounts`); one request is closed at a time (`MaxClosed`), which is what a reopening needs to
meet an import. In the two violated runs a file is written once. `CHECK_DEADLOCK FALSE` appears in the runs over the bounded tables: at the
bound, with every request closed, nothing is left to do. The worker never stops, so its run checks
deadlock.

`Timetables` explores the pages while no text has been read and the parser while the
calendar is as it was at the start: the two share no state, so their product has nothing to
show (`SideBySide`).

*Symmetry.* `TwoForms` permutes the staff, `Applicants` the forms, SIDs and names:
no rule prefers one, and neither of the two checks liveness.

*Fairness.* Only `QueueWorker` has any: `WF_vars(WorkerStep)`. The worker is an
endless loop without blocking calls other than `sleep`, and systemd restarts it when it
fails (`deploy/robot-booking-queue.service`). Crashes and faults are bounded, and nothing is asked of
the sender or of staff.

## What the violated runs show

* `DoubleApproval`: two approvals load the same pending request, both await
  their forms, both find it pending. Every slot is written twice
  (`routes/requests.py:447`). The same gap lets an edit or an amendment act on a request
  that was decided meanwhile, and a rejection loaded before an approval overwrite its status, while the
  slots stay on the calendar and block the robot (`routes/requests.py:487`). That is the only
  way for a booking to come apart: `BookingsBreakOnlyByOvertaking` of `TwoForms`.
* `StaleAvailability`: between `_recheck` and the first `INSERT` nothing is
  locked; an import of the worker that commits there is overlapped without a
  note (`booking_service.py:405`).
* `DuplicateResponseId`: the uniqueness test and the insert are apart, and the
  column is not unique in the database (`booking_service.py:137`).
* `LostFile`: a file that is complete when hashed and locked when read again comes
  back as ERROR and is marked as processed with the good hash
  (`queue_processor.py:526`); the design documents promise a retry. `Queue` shows
  what remains true: nothing is lost that could be read in all three reads of a pass.
* `NeverQueued`: an application without a date or a session is read without any fault, is not
  imported (`queue_processor.py:322`, `:399`) and is marked as processed. The module's own docstring
  (`queue_processor.py:5`), README.md:188 and line 17 of
  docs/plans/2026-09-09-queue-autoimport-design.md promise a PENDING request for each; line 64
  of the same plan says what the code does. The same becomes of one without a name.

Other disagreements, met in the code and not given a run: `start-queue.sh:9` and
`deploy/robot-booking-queue.service:26` say the worker only reads the booking
database, but `auto_import` creates and approves requests. A corrected
re-export with the Response ID of a live request is dropped, and stays dropped after that
request is closed. A file without a Response ID that is rewritten between the first and the third
read is imported twice with the same content, and one that is rewritten and then put back is imported again.
The reverse exists, too: a content that stood in the file at the first read only is registered
unread, and skipped when it comes back (`torn`; `NothingLost` excepts it).
`process_file` "never raises" (`queue_processor.py:270`), but does on JSON that is no object: no file
that sorts after such a one is imported while it is there (`AbortScan`;
`EventuallyImported` excepts those files). After a lost registry a request that staff had closed comes
back as a new one (`ReimportHasCause` counts these).

* SPEC.md 13.4 asks for clashes to be shown before a lesson import. Not shown are
  the clashes of rows that were corrected on a page that already displayed some
  (the box is `required`), of entries newer than the page that was
  confirmed, and of two rows of one timetable with each other.
  `UnseenClashIsNewer` says these are all.
* An ambiguous facility is said to stay PENDING (`queue_processor.py:5`, README.md:189,
  docs/plans/2026-09-09-queue-autoimport-design.md:66), but `resolve_facility` takes the
  first robot whose name contains the facility: "UR10e" is in five names of
  `seed.py`, and the first of them is approved without a question.
* `models.py:86` promises a borrower the same colour on every page; `distinct_borrower_names` picks
  it by who else is on the page.
* `upsert_applicant` corrects the applicant its request had *when it was loaded*. If another form
  moved the request in the meantime, the new name and SID go to a person the
  request no longer belongs to, or the SID of the form stays with neither
  (`SavedUnderItsSid` excepts this case).
* The preview matches an application without a known SID to somebody of the same name, but
  saving it with a SID creates a new record: the history shown is not the one it joins
  (`PreviewCoversChoice` is the direction that holds).
* Two forms can leave a request that ends before it begins. It asks for days 0 and 1; one form brings
  the end forward to day 0, another, loaded before that was saved, moves the start to day 1. Each is
  valid, each `UPDATE` writes the one column it changed (`booking_service.py:256`). SPEC.md:982 and
  `booking_service.py:116` refuse such dates. `TwoForms` shows that nothing but an overtaken edit does this.
* The worker may book a robot that was set Out of Service while it imports: its session holds the row
  that `resolve_facility` loaded, and `approve_request` tests that one (`booking_service.py:292`).
  `TwoForms` shows that staff are spared, since the robot pages share the event loop with theirs.
* A row of a timetable that is skipped for want of a date and a time still hands its course
  to the rows below it, which is also what makes a section title in the course
  column work.

## Proofs

| Theorem | States | For |
|---|---|---|
| `TypeCorrect`, `LiveResponseIdsUnique`, `ReservationsAreAHistory`, `ApprovedExactlyWithSlots` | `TypeOK`, `UniqueLiveResponseId`, `HistoryKept`, `ApprovedHoldsSlots` | `BookingService` |
| `OverlapsAreAnnounced`, `SessionsAreHeldOnce`, `SlotsAreThoseAskedFor`, `DecisionsAreWhole` | `NoSilentOverlap`, `NoSlotHeldTwice`, `SlotsMatchRequest`, `DecisionIsWhole` | `BookingService` |
| `HandlersKeepHistory`, `WorkerNeverOverlaps` | `HistoryKept`, `WorkerBooksOnlyFreeSlots` | `WebHandlers`, all interleavings |
| `SerialHandlersDecide` | `ImplementsService` | `WebHandlers`, one actor at a time |
| `SerialOverlapsAnnounced`, `SerialResponseIdsUnique`, `SerialBookingsWhole` | `NoSilentOverlap`; `UniqueLiveResponseId`; `ApprovedHoldsSlots`, `SlotsMatchRequest` and `NoSlotHeldTwice` | `WebHandlers`, one actor at a time |
| `LoneApprovedHolds`, `LoneSlotsMatch`, `LoneNotTwice` | `ApprovedHoldsSlots`, `SlotsMatchRequest`, `NoSlotHeldTwice` | `WebHandlers`, one coroutine and any workers |
| `OnlyOvertakingBreaksBookings`, `OnlyOvertakingTurnsDates`, `StaffNeverBookOutOfService` | `BookingsBreakOnlyByOvertaking`, `DatesBreakOnlyByOvertaking`, `StaffBookInService` | `WebHandlers`, all interleavings |
| `LoneDatesInOrder` | `DatesInOrder` | `WebHandlers`, one member of staff, any threads and workers |
| `ImportIsADecision`, `PagesKeepTheRules` | `LessonSpec => Spec`, and what follows from it | `LessonPages` |
| `FreeCellsAreFree`, `NoEntryIsHidden`, `NoticesAreRight`, `ImportsKeepApart`, `UnseenClashesAreNewer` | `FreeCellIsFree`, `NothingHidden`, `HandBackIsRight`, `LessonsKeepApart`, `UnseenClashIsNewer` | `LessonPages` |
| `TimesReadAsWritten`, `DatesAreAccountedFor`, `CoursesAreOfTheirTable` | `TimesAsWritten`, `NoDateDropped`, `CourseOfTheTable` | `TimetableParser` |
| `TypeCorrect`, `NoLoneRefusal`, `RequestsStayWithTheirApplicant`, `FormsSaveTheirSid`, `PreviewShowsTheChoice`, `BorrowersApart` | `TypeOK`, `RefusedOnlyByARace`, `MovesOnlyToHolder`, `SavedUnderItsSid`, `PreviewCoversChoice`, `ColoursApart` | `Applicants` |
| `WorkerTypeCorrect`, `TwoLiveOnlyByARace`, `RegisteredIsImported`, `ImportsHaveACause` | `TypeOK`, `OneLiveUnlessOvertaken`, `NothingLost`, `ReimportHasCause` | `QueueWorker` |

All of them are for any sets of robots, actors, forms, files and so on, and for
any bounds. The assumptions are on the inputs alone: NULL is no robot and no
Response ID (`NullAssumption`), and the inputs have their types
(`InputAssumption` and its like in `WebHandlers`, `LessonPages`, `Applicants`,
`QueueWorker` and `TimetableParser`).

### The booking service

`BookingRulesProofs` has no specification: its lemmas say what the operators
return. `ExpandSlots` yields a list of slots (which needs the quotient and remainder that
pick day and session), in the order of time and apart from each other; the window of
the conflict query covers every slot, so a report misses nothing
(`availability.py` asks once for the whole period, then compares slot by slot); each
row writer yields rows.

* `TypeCorrect` is inductive as it stands.
* `LiveResponseIdsUnique`. The key is
  `OldestHolderDecides`: `response_id_errors` looks only at the oldest live holder
  (`ORDER BY id`, first row) and is satisfied when that is the request itself; this
  is enough *because* the invariant holds before the step. The oldest holder exists
  by well-foundedness of the naturals. `OneRowKeepsUnique` then covers each
  decision, all of which change or add one request.
* `ReservationsAreAHistory`, from type correctness: every
  decision leaves the table, cancels rows in place, or appends.
* `ApprovedExactlyWithSlots`. Not inductive alone: a new
  request could find slots already waiting under its number. `SlotsInv` adds that
  every reservation belongs to an existing request or to none. `ConcatSlots`,
  `ReleasedSlots` and `BookedSlots` say what appending, releasing and booking do to
  the set of requests with an active slot.

`BookingSlotsProofs` first shows that each of the actions is, for the calendar, one
of three things: a release of rows in place, a whole booking (the old slots of the
request are released, then all of its new ones are appended), or an entry. The four
theorems are then about these three, not about the actions one by one.
`OverlapsAreAnnounced` is the completeness of the report, moved from slots to rows.
`SessionsAreHeldOnce` and `SlotsAreThoseAskedFor` need that nothing of the old booking
is active when a new one is written, which is `SlotsInv` again for a first approval and the
release for an amendment.

### The interleaved handlers

`WebHandlersProofs` states for each property how much concurrency it bears; the
violated runs show that the narrower settings are needed.

* For **any** interleaving, `HandlersKeepHistory` and `WorkerNeverOverlaps`. The second
  rests on `CommitImport` re-checking under the lock. The
  invariant, `HandlersTypeOK`, carries the type of what each actor has in hand, for each
  state of its task.
* `OnlyOvertakingTurnsDates` and `StaffNeverBookOutOfService`, also for **any** interleaving,
  share the invariant `FormsOK` on the decisions in hand. Their dates
  run forward or are those that were loaded, and the robots they book are in service. The second
  part survives `CommitResource`, the step that sets a robot's status, because of
  `LoopIsFree`: then no decision is in hand. The first part carries over to
  the table column by column (`DatesWrittenBack`): an edit that loaded the dates it overwrites
  leaves the very dates of its form.
* `OnlyOvertakingBreaksBookings`, again for **any** interleaving. Every commit writes to one request
  (`Touches`): what it cancels was that request's, what it adds is that request's, and all others keep their
  rows, so their bookings stay as they were (`LessIsWhole`). For the request itself, a decision on an unchanged
  row gives it nothing or all its slots (`GivenIsWhole`), provided it also releases whatever the request
  holds by now. This is the part that needs an invariant, `DecisionsInv`: the slots were read before the
  commit, and nothing is added to them in between because only one decision is in hand
  at a time (`LoopIsFree`), while threads only take slots away and the worker books requests of its own.
* While **no two actors overlap** (`OneAtATime`), `SerialHandlersDecide`: load, check and write add up
  to the atomic decision of `BookingService`. `SerialInv` says that what an actor has in
  hand is up to date: its row is the row of the table, its verdict the one the engine
  would give now. Then the write is the decision, although it writes columns of a
  stale row, and all steps before it are stutters. `SerialOverlapsAnnounced`,
  `SerialResponseIdsUnique` and `SerialBookingsWhole` bring the theorems about the booking service down
  along this refinement: `Decisions` is an instance of the module that proves them, with no
  timetables and no lists of robots to import, and `SameDecisions` says that
  its next-state relation is the one refined.
* For **one coroutine and any number of workers** (`OneCoroutine`), bookings stay whole:
  `LoneApprovedHolds`, `LoneSlotsMatch`, `LoneNotTwice`. Verdicts do get out of date here, since
  workers import between a form and its commit. `LoneInv` is what survives: a worker adds
  requests of its own and touches no other, so the row of the coroutine, and what its
  request holds, stay as they were (`StaysSound`). A second
  coroutine breaks it (`DoubleApproval`), and so does a calendar thread that releases
  the last slot of a booking while it is being amended: the request ends CANCELLED, the
  amended slots stay (`WithWorker` with a thread finds it).
* For **one member of staff** and any threads and workers (`LoneStaff`), `LoneDatesInOrder`. Nobody but
  staff touches the dates of a request (`OthersKeepPeriods`), so what a form has loaded is what it
  overwrites (`DatesInv`), and `OnlyOvertakingTurnsDates` has nothing left to except.

### The lesson import and the calendar pages

`ImportIsADecision`: the check and the commit of an import are two steps, with threads and workers
in between, and yet every behaviour of `LessonPages` is one of `BookingService`. `InProgress` says why:
what the commit assumes (robots in service, rows in order) can be
changed by the event loop only, which the import occupies. Hence
`PagesKeepTheRules`: the theorems about the booking service hold here, too.

`FreeCellsAreFree` and `NoEntryIsHidden` are about the pages in every reachable state. They need
that a row begins before it ends (`RowsAreProper`), which forms and imports enforce
separately. `UnseenClashesAreNewer` comes from `PagesAnswer`: the clashes a tab
displays are complete as of the time they were looked up, however old the tab is.
`ImportsKeepApart` needs `ImportAnswers`: between the check and
the commit of an import no other import commits, though a thread may enter a lesson by
hand. The proof is where that exception came from: the property used to exclude overlaps with
any lesson, and the step of the thread could not be proved. It now names the
exception, and the entry of `Timetables` is a lesson, so that the run reaches it.

`NoticesAreRight` is about a loop. `RunsBefore(d)` is the set of the lists of runs that are right
as far as day `d`: each is a stretch of blocked days that cannot begin earlier, with the sessions and
the kinds of the entries in it, and together they hold every blocked day before `d`, up to the
end of the last. `NoRunsBeforeTheFirstDay` and `NextRunsAreRight` are base and step,
and `RecursiveFunction` is the induction that joins them: a function defined by recursion on `0..N` exists
and has its values in sets `S[n]` when each step leads from `S[n - 1]` to `S[n]`. It is stated with
a function for the step and a family of sets for the invariant, so that it needs no operator
as a parameter, and is proved with the least number at which it could fail (`LeastNumber`).

### The timetable parser

`TimesReadAsWritten` is a lemma about one range (`RangeAsMeant`), by cases on the notation and
the hour; it covers every minute of the day. `DatesAreAccountedFor` and `CoursesAreOfTheirTable` are about
the loop (`ParserSpec`, the parser by itself). Their invariants: `DatesInv`, that rows stand in the order of
their lines and that the dated lines without a row are no more than those
counted; `CourseInv`, that the loop's columns are those of the last header and its inherited
course the one last named below it. `CourseInv` describes the state of the loop
by what stands in the text, so the proof is what a new last line changes in that
description (`NewLineCounts`) and that it changes nothing for earlier lines
(`EarlierLinesStay`). `HeaderIndexIs` says what the choice by rank comes to, and `CourseColumnIs`
that the column it finds is the one no other outranks, in the property's own words. `Max` and `Min` exist by
well-foundedness (`MaxIsGreatest`, `MinIsLeast`).

### Applicants

One inductive invariant, `IInv`, and four theorems from it (assumption
`ApplicantAssumption`: NULL and the empty field are no SIDs):

* `TypeCorrect`.
* `NoLoneRefusal`. The part of the invariant it needs is
  `LookupHolds`: until somebody else commits, the record to be corrected is as it was
  read, and a SID that is new to it is nobody's. With `DistinctSids` of the table this
  says that the flush keeps the SIDs distinct (`WrittenBack`: the SID of an updated row
  is the one of two it may be).
* `RequestsStayWithTheirApplicant`. `EditHasRecord`: an edit
  settles on its own record or on the one that carries the SID of its form. The second
  must *still* carry it at the commit, which is why the invariant goes on:
* `FormsSaveTheirSid`. `FormSidStays` says that the record a form
  found under its SID keeps that SID until the form is saved. Other forms cannot
  change it, since only one is between its lookup and its commit (`OneForm`); the worker
  can, but it edits nothing and a new application corrects no SID (`NewKeepsSids`). An import
  has no such protection, and the property does not claim it.

`PreviewShowsTheChoice` needs no invariant: it holds of `Targets` and `ShownOnPreview`
over any table.

`BorrowersApart` uses `RecursiveFunction` as above, with `Apart(n)` for the choices of colours for `n`
borrowers in which no two are alike. The step (`ServesOneMore`) is that probing finds a free colour
while there are fewer borrowers than colours (`ProbeFindsFree`): going round the palette from any
place one comes to every other (`WrapsAround`), and the next borrower is always one of those that wait
(`NextServedWaits`). `RecordsAreInUse` bounds the keys: only a new application adds a record.

### The queue worker

The properties of the worker are each about all of its state, so each has an
invariant of its own, over files, registry, pass and faults:

* `PassInv`: a pass is over a file that is still to be done, and an import or a reopening in hand is
  of something that is there. With it `WorkerTypeCorrect`.
* `RaceInv` for `TwoLiveOnlyByARace`. Worker and staff test and write in two steps each, so a
  Response ID found free need not be free any more. The invariant says that whoever has tested and not yet
  written either finds no other holder still, or is marked as overtaken; `RacesAreSeen` shows that
  each commit marks the other one.
* `PromiseInv` for `RegisteredIsImported`: while no late read failed, an importable
  application the registry lists is known to staff or torn, and, from the first read on, a file
  that has not changed has the verdict, then the import, that its mark will promise. `AbortScan` keeps
  it because it marks nothing.
* `PriceInv` for `ImportsHaveACause`, a count: the imports of a file, plus those it is still good for
  without another write or crash (`Due`), are no more than its writes
  plus the crashes. `Due` is what makes it inductive: a pass that has read one content may import
  another, and the next scan may find the file different from what was registered. It counts
  writes and not contents, since a file that returns to what it held is imported again.

### Only model-checked

`EventuallyImported`, which is liveness under fairness and beyond the prover. All other
properties of the passing runs are theorems. `DatesInOrder`, `NoSilentOverlap`, `UniqueLiveResponseId`,
`NoSlotHeldTwice` and `ApprovedHoldsSlots` of `WebHandlers` are theorems in the settings named above
and false without them (`DatesInOrder` by the example above); `RegisteredMeansImported` is false,
and `NothingLost` is what is true instead.

## Not modelled

The import banner (one query of ten rows, hidden by the browser), the e-mail parser (regular
expressions on one text), the search pages, migrations, response headers and
templates other than the confirmation box; `PROJECT.json` gives the reasons. How a facility name resolves
to robots is an input of the worker's actions: `facility` is the robot the verdict is about, `r` the
one the request is given. What the patterns of the timetable parser accept is an input of
`TimetableParser`. The ranking of alternative robots is left out since staff may take any.

## Plan

1. `SlotsMatchRequest` with one coroutine and threads that only enter, never release: the
   release of a last slot is what keeps threads out of `LoneSlotsMatch`.
2. `resolve_facility` as operators of the worker.
3. The ranking of alternative robots, against what its order promises.
