------------------------- MODULE BookingRulesProofs -------------------------
(***************************************************************************)
(* What the availability engine and the rules of the booking service do to *)
(* the tables they are given, for any tables: the lemmas that the proofs   *)
(* about BookingService, LessonPages and WebHandlers share.                *)
(***************************************************************************)
EXTENDS BookingRules, SequenceTheorems, FiniteSetTheorems, WellFoundedInduction,
        TLAPS

-----------------------------------------------------------------------------
(* Sequences and numbers                                                   *)

\* A function on 1..n is a sequence of length n (the row lists of the model
\* are written as functions).
LEMMA FunctionIsSeq ==
  ASSUME NEW S, NEW n \in Nat, NEW f \in [1 .. n -> S]
  PROVE  f \in Seq(S) /\ Len(f) = n
BY SeqDef

\* A finite list of numbers has a least one.
LEMMA LeastElement ==
  ASSUME NEW n \in Nat, n # 0, NEW f, \A i \in 1 .. n : f[i] \in Int
  PROVE  \E m \in 1 .. n : \A i \in 1 .. n : f[m] <= f[i]
<1>. DEFINE S == 1 .. n
            Below(i) == {j \in S : f[j] < f[i]}
            T == {Below(i) : i \in S}
<1>1. IsFiniteSet(S)
  BY FS_Interval
<1>2. IsWellFoundedOn(StrictSubsetOrdering(S), FiniteSubsetsOf(S))
  BY FS_StrictSubsetOrderingWellFounded
<1>3. T \subseteq FiniteSubsetsOf(S) /\ T # {}
  <2>1. 1 \in S
    OBVIOUS
  <2>2. T # {}
    BY <2>1
  <2>3. \A i \in S : Below(i) \in SUBSET S
    OBVIOUS
  <2>. QED
    BY <1>1, <2>2, <2>3, FS_Subset DEF FiniteSubsetsOf
<1>. HIDE DEF S
<1>4. PICK x \in T : \A y \in T : <<y, x>> \notin StrictSubsetOrdering(S)
  <2>. HIDE DEF T
  <2>. QED
    BY <1>2, <1>3, WFMin
<1>5. PICK m \in S : x = Below(m)
  OBVIOUS
<1>6. ASSUME NEW i \in S, f[i] < f[m]
      PROVE  FALSE
  <2>1. \A j \in S : f[j] \in Int
    BY DEF S
  <2>2. Below(i) \subseteq Below(m) /\ Below(i) # Below(m)
    <3>1. i \in Below(m) /\ i \notin Below(i)
      BY <1>6, <2>1
    <3>2. \A j \in Below(i) : j \in Below(m)
      BY <1>6, <2>1
    <3>. QED
      BY <3>1, <3>2
  <2>3. Below(i) \in SUBSET S /\ Below(m) \in SUBSET S /\ Below(i) \in T
    OBVIOUS
  <2>. HIDE DEF Below
  <2>4. <<Below(i), Below(m)>> \in StrictSubsetOrdering(S)
    BY <2>2, <2>3 DEF StrictSubsetOrdering
  <2>. QED
    BY <1>4, <1>5, <2>3, <2>4
<1>. QED
  BY <1>5, <1>6 DEF S

-----------------------------------------------------------------------------
(* The slots of a period                                                   *)

\* The sessions of a period come out as a list of at most two.
LEMMA OrderedSessionsShape ==
  ASSUME NEW sessions \in SUBSET Session
  PROVE  /\ OrderedSessions(sessions) \in Seq(Session)
         /\ Len(OrderedSessions(sessions)) \in 0 .. 2
         /\ OrderedSessions(sessions) = << >> <=> sessions = {}
<1>1. CASE sessions = Session
  <2> "AM" \in sessions /\ "PM" \in sessions
    BY <1>1 DEF Session
  <2>1. OrderedSessions(sessions) = <<"AM", "PM">>
    <3>1. sessions # {"AM"} /\ sessions # {"PM"}
      OBVIOUS
    <3>2. QED
      BY <1>1, <3>1, Zenon DEF OrderedSessions
  <2>2. <<"AM", "PM">> \in Seq(Session) /\ Len(<<"AM", "PM">>) = 2
    BY DEF Session
  <2>3. sessions # {}
    BY <1>1 DEF Session
  <2>4. QED
    BY <2>1, <2>2, <2>3, EmptySeq
<1>2. CASE sessions = {"AM"}
  <2>1. OrderedSessions(sessions) = <<"AM">>
    BY <1>2 DEF OrderedSessions, Session
  <2>2. <<"AM">> \in Seq(Session) /\ Len(<<"AM">>) = 1
    BY DEF Session
  <2>3. sessions # {}
    BY <1>2 DEF Session
  <2>4. QED
    BY <2>1, <2>2, <2>3, EmptySeq
<1>3. CASE sessions = {"PM"}
  <2>1. OrderedSessions(sessions) = <<"PM">>
    BY <1>3 DEF OrderedSessions, Session
  <2>2. <<"PM">> \in Seq(Session) /\ Len(<<"PM">>) = 1
    BY DEF Session
  <2>3. sessions # {}
    BY <1>3 DEF Session
  <2>4. QED
    BY <2>1, <2>2, <2>3, EmptySeq
<1>4. CASE sessions = {}
  <2>1. OrderedSessions(sessions) = << >>
    BY <1>4 DEF OrderedSessions, Session
  <2>2. << >> \in Seq(Session) /\ Len(<< >>) = 0
    BY EmptySeq
  <2>3. OrderedSessions(sessions) \in Seq(Session)
    BY <2>1, <2>2, Zenon
  <2>4. Len(OrderedSessions(sessions)) \in 0 .. 2
    <3>1. Len(OrderedSessions(sessions)) = 0
      BY <2>1, <2>2, Zenon
    <3>2. QED
      BY <3>1
  <2>5. QED
    BY <1>4, <2>1, <2>3, <2>4, Zenon
<1>5. sessions \in {Session, {"AM"}, {"PM"}, {}}
  BY DEF Session
<1>6. QED
  BY <1>1, <1>2, <1>3, <1>4, <1>5

\* A session of a day is a slot.
LEMMA SlotOnType ==
  ASSUME NEW day \in Int, NEW s
  PROVE  SlotOn(day, s) \in Slot
BY DEF SlotOn, Slot, SessionStart, SessionEnd, DayMinutes

\* ExpandSlots yields a list of slots.
LEMMA ExpandSlotsType ==
  ASSUME NEW p \in Period
  PROVE  ExpandSlots(p) \in Seq(Slot)
<1> DEFINE ordered == OrderedSessions(p.sessions)
           perDay  == Len(ordered)
           days    == p.endDate - p.startDate + 1
<1>1. /\ p.startDate \in Int /\ p.endDate \in Int
      /\ p.sessions \in SUBSET Session
  BY DEF Period
<1>2. /\ ordered \in Seq(Session)
      /\ perDay \in 0 .. 2
  BY <1>1, OrderedSessionsShape
<1>3. CASE ordered = << >> \/ p.endDate < p.startDate
  BY <1>3 DEF ExpandSlots
<1>4. CASE ordered # << >> /\ p.endDate >= p.startDate
  <2> DEFINE f == [i \in 1 .. days * perDay |->
                     SlotOn(p.startDate + ((i - 1) \div perDay),
                            ordered[1 + ((i - 1) % perDay)])]
  <2>1. perDay \in {1, 2}
    BY <1>2, <1>4, EmptySeq
  <2>2. days * perDay \in Nat
    BY <1>1, <1>4, <2>1
  <2>3. ASSUME NEW i \in 1 .. days * perDay
        PROVE  SlotOn(p.startDate + ((i - 1) \div perDay),
                      ordered[1 + ((i - 1) % perDay)]) \in Slot
    <3>1. (i - 1) \div perDay \in Int
      <4>1. CASE perDay = 1
        BY <2>2, <4>1
      <4>2. CASE perDay = 2
        BY <2>2, <4>2
      <4>3. QED
        BY <2>1, <4>1, <4>2
    <3>2. QED
      BY <1>1, <3>1, SlotOnType
  <2>4. f \in [1 .. days * perDay -> Slot]
    BY <2>3
  <2>5. f \in Seq(Slot)
    BY <2>2, <2>4, FunctionIsSeq
  <2>6. ExpandSlots(p) = f
    BY <1>1, <1>4 DEF ExpandSlots
  <2>7. QED
    BY <2>5, <2>6
<1>5. QED
  BY <1>1, <1>3, <1>4

OneSessionADay(slots, first) ==
  \E s \in Session : \A k \in DOMAIN slots :
    slots[k] = SlotOn(first + (k - 1), s)

BothSessionsADay(slots, first) ==
  \A k \in DOMAIN slots :
    slots[k] = SlotOn(first + ((k - 1) \div 2),
                      IF (k - 1) % 2 = 0 THEN "AM" ELSE "PM")

\* One session on each day, or both of them in turn.
LEMMA SlotsByDay ==
  ASSUME NEW p \in Period
  PROVE  /\ DOMAIN ExpandSlots(p) \subseteq Nat \ {0}
         /\ \/ OneSessionADay(ExpandSlots(p), p.startDate)
            \/ BothSessionsADay(ExpandSlots(p), p.startDate)
<1>. DEFINE slots   == ExpandSlots(p)
            ordered == OrderedSessions(p.sessions)
            perDay  == Len(ordered)
            days    == p.endDate - p.startDate + 1
<1>1. /\ p.startDate \in Int /\ p.endDate \in Int
      /\ p.sessions \in SUBSET Session
  BY DEF Period
<1>2. DOMAIN slots \subseteq Nat \ {0}
  BY ExpandSlotsType, LenProperties
<1>. SUFFICES OneSessionADay(slots, p.startDate) \/ BothSessionsADay(slots, p.startDate)
  BY <1>2
<1>3. CASE ordered = << >> \/ p.endDate < p.startDate
  <2>1. slots = << >>
    BY <1>3 DEF ExpandSlots
  <2>. QED
    BY <2>1 DEF BothSessionsADay
<1>4. CASE ordered # << >> /\ p.endDate >= p.startDate
  <2>1. slots = [i \in 1 .. days * perDay |->
                   SlotOn(p.startDate + ((i - 1) \div perDay),
                          ordered[1 + ((i - 1) % perDay)])]
    BY <1>1, <1>4 DEF ExpandSlots
  <2>2. CASE p.sessions = Session
    <3>1. ordered = <<"AM", "PM">>
      <4>1. p.sessions # {"AM"} /\ p.sessions # {"PM"}
        <5>1. "AM" \in p.sessions /\ "PM" \in p.sessions
          BY <2>2 DEF Session
        <5>. QED
          BY <5>1
      <4>. QED
        BY <2>2, <4>1, Zenon DEF OrderedSessions
    <3>2. perDay = 2 /\ ordered[1] = "AM" /\ ordered[2] = "PM"
      BY <3>1
    <3>. HIDE DEF ordered, perDay, slots
    <3>3. BothSessionsADay(slots, p.startDate)
      <4>. SUFFICES ASSUME NEW k \in DOMAIN slots
                    PROVE  slots[k] = SlotOn(p.startDate + ((k - 1) \div 2),
                                             IF (k - 1) % 2 = 0 THEN "AM" ELSE "PM")
        BY DEF BothSessionsADay
      <4>1. slots[k] = SlotOn(p.startDate + ((k - 1) \div 2), ordered[1 + ((k - 1) % 2)])
        BY <2>1, <3>2
      <4>2. (k - 1) % 2 \in {0, 1}
        BY <1>2 DEF slots
      <4>3. ordered[1 + ((k - 1) % 2)] = IF (k - 1) % 2 = 0 THEN "AM" ELSE "PM"
        BY <3>2, <4>2
      <4>. QED
        BY <4>1, <4>3
    <3>. QED
      BY <3>3
  <2>3. CASE p.sessions # Session
    <3>1. \E s \in Session : ordered = <<s>>
      <4>1. p.sessions = {"AM"} \/ p.sessions = {"PM"}
        <5>1. p.sessions # {}
          BY <1>1, <1>4, OrderedSessionsShape
        <5>. QED
          BY <1>1, <2>3, <5>1 DEF Session
      <4>. QED
        BY <2>3, <4>1, Zenon DEF OrderedSessions, Session
    <3>2. PICK s \in Session : ordered = <<s>>
      BY <3>1
    <3>3. perDay = 1 /\ ordered[1] = s
      BY <3>2
    <3>. HIDE DEF ordered, perDay, slots
    <3>4. OneSessionADay(slots, p.startDate)
      BY <1>2, <2>1, <3>3 DEF slots, OneSessionADay
    <3>. QED
      BY <3>4
  <2>. QED
    BY <2>2, <2>3
<1>. QED
  BY <1>1, <1>3, <1>4

\* The slots of a period are slots of a day and a session.
LEMMA SlotsAreSessions ==
  ASSUME NEW p \in Period, NEW k \in DOMAIN ExpandSlots(p)
  PROVE  \E day \in Int, s \in Session : ExpandSlots(p)[k] = SlotOn(day, s)
<1>1. p.startDate \in Int
  BY DEF Period
<1>2. k \in Nat \ {0}
  BY SlotsByDay
<1>3. k - 1 \in Int /\ (k - 1) \div 2 \in Int
  BY <1>2
<1>4. (IF (k - 1) % 2 = 0 THEN "AM" ELSE "PM") \in Session
  BY DEF Session
<1>. QED
  BY <1>1, <1>3, <1>4, SlotsByDay DEF OneSessionADay, BothSessionsADay

\* A slot ends after it begins.
LEMMA SlotsAreProper ==
  ASSUME NEW p \in Period, NEW k \in DOMAIN ExpandSlots(p)
  PROVE  /\ ExpandSlots(p)[k] \in Slot
         /\ ExpandSlots(p)[k].start < ExpandSlots(p)[k].end
<1>1. \A day \in Int : \A s \in Session : SlotOn(day, s).start < SlotOn(day, s).end
  BY DEF SlotOn, SessionStart, SessionEnd, DayMinutes
<1>. QED
  BY <1>1, SlotsAreSessions, SlotOnType

\* The slots of a period are in chronological order, so no two overlap.
LEMMA SlotsInOrder ==
  ASSUME NEW p \in Period, NEW k \in DOMAIN ExpandSlots(p),
         NEW l \in DOMAIN ExpandSlots(p), k < l
  PROVE  ExpandSlots(p)[k].end <= ExpandSlots(p)[l].start
<1>. DEFINE slots == ExpandSlots(p)
            first == p.startDate
<1>1. first \in Int
  BY DEF Period
<1>2. k \in Nat \ {0} /\ l \in Nat \ {0}
  BY SlotsByDay
<1>3. ASSUME NEW s \in Session,
             slots[k] = SlotOn(first + (k - 1), s),
             slots[l] = SlotOn(first + (l - 1), s)
      PROVE  slots[k].end <= slots[l].start
  BY <1>1, <1>2, <1>3 DEF SlotOn, SessionStart, SessionEnd, DayMinutes
<1>4. ASSUME slots[k] = SlotOn(first + ((k - 1) \div 2),
                               IF (k - 1) % 2 = 0 THEN "AM" ELSE "PM"),
             slots[l] = SlotOn(first + ((l - 1) \div 2),
                               IF (l - 1) % 2 = 0 THEN "AM" ELSE "PM")
      PROVE  slots[k].end <= slots[l].start
  <2>. DEFINE kd == (k - 1) \div 2
              ld == (l - 1) \div 2
              km == (k - 1) % 2
              lm == (l - 1) % 2
  <2>1. /\ kd \in Int /\ ld \in Int /\ km \in {0, 1} /\ lm \in {0, 1}
        /\ k - 1 = 2 * kd + km /\ l - 1 = 2 * ld + lm
    BY <1>2
  <2>. HIDE DEF kd, ld, km, lm
  <2>2. kd < ld \/ (kd = ld /\ km = 0 /\ lm = 1)
    BY <1>2, <2>1
  <2>3. /\ slots[k].end = (first + kd) * DayMinutes + (IF km = 0 THEN 720 ELSE 1020)
        /\ slots[l].start = (first + ld) * DayMinutes + (IF lm = 0 THEN 510 ELSE 810)
    BY <1>4, <2>1 DEF SlotOn, SessionStart, SessionEnd, kd, ld, km, lm
  <2>. QED
    BY <1>1, <2>1, <2>2, <2>3 DEF DayMinutes
<1>. QED
  BY <1>3, <1>4, SlotsByDay DEF OneSessionADay, BothSessionsADay

\* Dates that pass the form's checks have a slot.
LEMMA ValidPeriodHasSlots ==
  ASSUME NEW p \in Period, ValidPeriod(p)
  PROVE  ExpandSlots(p) # << >>
<1>. DEFINE ordered == OrderedSessions(p.sessions)
            perDay  == Len(ordered)
            days    == p.endDate - p.startDate + 1
            f       == [i \in 1 .. days * perDay |->
                          SlotOn(p.startDate + ((i - 1) \div perDay),
                                 ordered[1 + ((i - 1) % perDay)])]
<1>1. /\ p.startDate \in Int /\ p.endDate \in Int /\ p.sessions \in SUBSET Session
      /\ p.endDate >= p.startDate /\ p.sessions # {}
  BY DEF Period, ValidPeriod
<1>2. ordered # << >> /\ perDay \in 1 .. 2
  <2>1. ordered \in Seq(Session) /\ perDay \in 0 .. 2 /\ ordered # << >>
    BY <1>1, OrderedSessionsShape
  <2>. QED
    BY <2>1, EmptySeq
<1>. HIDE DEF ordered, perDay
<1>3. days * perDay \in Nat \ {0}
  <2>1. CASE perDay = 1
    BY <1>1, <2>1
  <2>2. CASE perDay = 2
    BY <1>1, <2>2
  <2>. QED
    BY <1>2, <2>1, <2>2
<1>4. ExpandSlots(p) = f
  BY <1>1, <1>2 DEF ExpandSlots, ordered, perDay
<1>. HIDE DEF days
<1>5. 1 \in DOMAIN f
  BY <1>3
<1>6. DOMAIN << >> = {}
  OBVIOUS
<1>. QED
  BY <1>4, <1>5, <1>6

-----------------------------------------------------------------------------
(* The conflict query                                                      *)

\* The window that is searched covers the slots, in whatever order they come.
LEMMA WindowCovers ==
  ASSUME NEW slots \in Seq(Slot), slots # << >>, NEW k \in DOMAIN slots
  PROVE  /\ WindowStart(slots) \in Int /\ WindowEnd(slots) \in Int
         /\ WindowStart(slots) <= slots[k].start
         /\ slots[k].end <= WindowEnd(slots)
<1>. DEFINE n == Len(slots)
<1>1. /\ n \in Nat /\ n # 0 /\ DOMAIN slots = 1 .. n
      /\ \A i \in 1 .. n : slots[i].start \in Int /\ slots[i].end \in Int
  <2>1. \A i \in DOMAIN slots : slots[i] \in Slot
    BY LenProperties, ElementOfSeq
  <2>2. n \in Nat /\ n # 0 /\ DOMAIN slots = 1 .. n
    BY EmptySeq, LenProperties
  <2>. QED
    BY <2>1, <2>2 DEF Slot
<1>. HIDE DEF n
<1>2. \E m \in 1 .. n : \A i \in 1 .. n : slots[m].start <= slots[i].start
  <2>. DEFINE f == [i \in 1 .. n |-> slots[i].start]
  <2>1. \A i \in 1 .. n : f[i] \in Int
    BY <1>1
  <2>. HIDE DEF f
  <2>2. \E m \in 1 .. n : \A i \in 1 .. n : f[m] <= f[i]
    BY <1>1, <2>1, LeastElement
  <2>. QED
    BY <2>2 DEF f
<1>3. \E m \in 1 .. n : \A i \in 1 .. n : slots[i].end <= slots[m].end
  <2>. DEFINE f == [i \in 1 .. n |-> - slots[i].end]
  <2>1. \A i \in 1 .. n : f[i] \in Int
    BY <1>1
  <2>. HIDE DEF f
  <2>2. \E m \in 1 .. n : \A i \in 1 .. n : f[m] <= f[i]
    BY <1>1, <2>1, LeastElement
  <2>3. PICK m \in 1 .. n : \A i \in 1 .. n : f[m] <= f[i]
    BY <2>2
  <2>4. \A i \in 1 .. n : f[i] = - slots[i].end
    BY DEF f
  <2>5. \A i \in 1 .. n : slots[i].end <= slots[m].end
    BY <1>1, <2>3, <2>4
  <2>. QED
    BY <2>5
<1>4. /\ WindowStart(slots) \in {slots[i].start : i \in 1 .. n}
      /\ \A i \in 1 .. n : WindowStart(slots) <= slots[i].start
  <2>. DEFINE S == {slots[i].start : i \in 1 .. n}
  <2>1. \E t \in S : \A i \in 1 .. n : t <= slots[i].start
    BY <1>2
  <2>2. WindowStart(slots) = CHOOSE t \in S : \A i \in 1 .. n : t <= slots[i].start
    BY <1>1 DEF WindowStart
  <2>. HIDE DEF S
  <2>3. WindowStart(slots) \in S /\ \A i \in 1 .. n : WindowStart(slots) <= slots[i].start
    BY <2>1, <2>2
  <2>. QED
    BY <2>3 DEF S
<1>5. /\ WindowEnd(slots) \in {slots[i].end : i \in 1 .. n}
      /\ \A i \in 1 .. n : slots[i].end <= WindowEnd(slots)
  <2>. DEFINE S == {slots[i].end : i \in 1 .. n}
  <2>1. \E t \in S : \A i \in 1 .. n : slots[i].end <= t
    BY <1>3
  <2>2. WindowEnd(slots) = CHOOSE t \in S : \A i \in 1 .. n : slots[i].end <= t
    BY <1>1 DEF WindowEnd
  <2>. HIDE DEF S
  <2>3. WindowEnd(slots) \in S /\ \A i \in 1 .. n : slots[i].end <= WindowEnd(slots)
    BY <2>1, <2>2
  <2>. QED
    BY <2>3 DEF S
<1>. QED
  BY <1>1, <1>4, <1>5

\* So it does for the slots of a period.
LEMMA WindowCoversSlots ==
  ASSUME NEW p \in Period, NEW k \in DOMAIN ExpandSlots(p)
  PROVE  /\ WindowStart(ExpandSlots(p)) <= ExpandSlots(p)[k].start
         /\ ExpandSlots(p)[k].end <= WindowEnd(ExpandSlots(p))
         /\ WindowStart(ExpandSlots(p)) \in Int
         /\ WindowEnd(ExpandSlots(p)) \in Int
<1>1. ExpandSlots(p) \in Seq(Slot) /\ ExpandSlots(p) # << >>
  BY ExpandSlotsType
<1>. QED
  BY <1>1, WindowCovers

\* The availability report of a slot names everyone else who is in the way.
LEMMA ReportIsComplete ==
  ASSUME NEW table \in Seq(ReservationRow),
         NEW p \in Period, NEW r \in Resource, NEW q \in Nat,
         NEW k \in DOMAIN ExpandSlots(p), NEW i \in DOMAIN table,
         ActiveRow(table[i]), table[i].resource = r,
         table[i].request # q, Overlaps(ExpandSlots(p)[k], table[i])
  PROVE  i \in SlotConflicts(table, r, ExpandSlots(p), q)[k]
<1>. DEFINE slots == ExpandSlots(p)
<1>1. table[i].start \in Int /\ table[i].end \in Int
  <2>1. table[i] \in ReservationRow
    BY LenProperties, ElementOfSeq
  <2>. QED
    BY <2>1 DEF ReservationRow
<1>2. slots[k].start \in Int /\ slots[k].end \in Int
  BY SlotsAreProper DEF Slot
<1>3. /\ WindowStart(slots) <= slots[k].start /\ slots[k].end <= WindowEnd(slots)
      /\ WindowStart(slots) \in Int /\ WindowEnd(slots) \in Int
  BY WindowCoversSlots
<1>4. k \in DOMAIN slots /\ Overlaps(slots[k], table[i])
  OBVIOUS
<1>. HIDE DEF slots
<1>5. slots[k].start < table[i].end /\ slots[k].end > table[i].start
  BY <1>4 DEF Overlaps
<1>6. i \in ActiveReservations(table, r, WindowStart(slots), WindowEnd(slots), q)
  BY <1>1, <1>2, <1>3, <1>5 DEF ActiveReservations
<1>7. i \in SlotConflicts(table, r, slots, q)[k]
  BY <1>4, <1>6 DEF SlotConflicts
<1>. QED
  BY <1>7 DEF slots

-----------------------------------------------------------------------------
(* Rows                                                                    *)

\* The rows of a decision: one per slot, ACTIVE, for that request and robot.
LEMMA BookingRowsType ==
  ASSUME NEW q \in Nat, NEW r \in Resource, NEW slots \in Seq(Slot),
         NEW conflicts
  PROVE  LET rows == BookingRows(q, r, slots, conflicts)
         IN  /\ rows \in Seq(ReservationRow)
             /\ Len(rows) = Len(slots)
             /\ \A k \in 1 .. Len(slots) :
                  rows[k] = [resource |-> r, source |-> "BOOKING", request |-> q,
                             start |-> slots[k].start, end |-> slots[k].end,
                             status |-> "ACTIVE", note |-> conflicts[k] # {}]
<1> DEFINE rows == BookingRows(q, r, slots, conflicts)
<1>1. Len(slots) \in Nat /\ DOMAIN slots = 1 .. Len(slots)
  BY LenProperties
<1>2. \A k \in 1 .. Len(slots) : slots[k] \in Slot
  BY ElementOfSeq
<1>3. rows \in [1 .. Len(slots) -> ReservationRow]
  BY <1>1, <1>2 DEF BookingRows, ReservationRow, SourceType, Slot
<1>4. rows \in Seq(ReservationRow) /\ Len(rows) = Len(slots)
  BY <1>1, <1>3, FunctionIsSeq
<1>5. QED
  BY <1>1, <1>4 DEF BookingRows

\* The rows written for a period are well formed.
LEMMA RowsForPeriod ==
  ASSUME NEW q \in Nat, NEW r \in Resource, NEW p \in Period, NEW conflicts
  PROVE  BookingRows(q, r, ExpandSlots(p), conflicts) \in Seq(ReservationRow)
<1>1. ExpandSlots(p) \in Seq(Slot)
  BY ExpandSlotsType
<1>2. QED
  BY <1>1, BookingRowsType

\* A lesson or manual entry is a row of no request.
LEMMA EntryRowType ==
  ASSUME NEW r \in Resource, NEW source \in SourceType, NEW interval \in Slot
  PROVE  EntryRow(r, source, interval) \in ReservationRow
BY DEF EntryRow, ReservationRow, Slot, NoRequest

\* A timetable becomes a list of lesson rows.
LEMMA LessonRowsType ==
  ASSUME NEW robots \in Seq(Resource), robots # << >>,
         NEW lessons \in Seq(Slot), lessons # << >>
  PROVE  LET rows == LessonRows(robots, lessons)
         IN  /\ rows \in Seq(ReservationRow)
             /\ \A k \in 1 .. Len(rows) :
                  \E a \in DOMAIN robots, b \in DOMAIN lessons :
                    rows[k] = EntryRow(robots[a], "LESSON", lessons[b])
<1> DEFINE n == Len(robots)
           m == Len(lessons)
           rows == LessonRows(robots, lessons)
<1>1. n \in Nat \ {0} /\ m \in Nat \ {0}
  BY EmptySeq
<1>2. n * m \in Nat
  BY <1>1
<1>3. ASSUME NEW k \in 1 .. n * m
      PROVE  /\ 1 + ((k - 1) \div m) \in 1 .. n
             /\ 1 + ((k - 1) % m) \in 1 .. m
  <2> DEFINE d == (k - 1) \div m
             e == (k - 1) % m
  <2>1. d \in Int /\ e \in 0 .. m - 1 /\ k - 1 = m * d + e
    BY <1>1, <1>2
  <2> HIDE DEF d, e
  <2>2. d >= 0
    <3>1. SUFFICES ASSUME d <= -1 PROVE FALSE
      BY <2>1
    <3>2. m * d <= m * (-1)
      BY <1>1, <2>1, <3>1
    <3>3. QED
      BY <1>1, <1>2, <2>1, <3>2
  <2>3. d < n
    <3>1. SUFFICES ASSUME d >= n PROVE FALSE
      BY <1>1, <2>1
    <3>2. m * d >= m * n
      BY <1>1, <2>1, <3>1
    <3>3. QED
      BY <1>1, <1>2, <2>1, <3>2
  <2>4. QED
    BY <1>1, <2>1, <2>2, <2>3 DEF d, e
<1>4. ASSUME NEW k \in 1 .. n * m
      PROVE  /\ robots[1 + ((k - 1) \div m)] \in Resource
             /\ lessons[1 + ((k - 1) % m)] \in Slot
  BY <1>3, ElementOfSeq
<1>5. rows \in [1 .. n * m -> ReservationRow]
  BY <1>4, EntryRowType DEF LessonRows, SourceType
<1>6. rows \in Seq(ReservationRow) /\ Len(rows) = n * m
  BY <1>2, <1>5, FunctionIsSeq
<1>7. \A k \in 1 .. n * m :
        rows[k] = EntryRow(robots[1 + ((k - 1) \div m)], "LESSON",
                           lessons[1 + ((k - 1) % m)])
  BY DEF LessonRows
<1>8. DOMAIN robots = 1 .. n /\ DOMAIN lessons = 1 .. m
  BY LenProperties
<1>. HIDE DEF rows, n, m
<1>9. \A k \in 1 .. n * m :
        \E a \in DOMAIN robots, b \in DOMAIN lessons :
          rows[k] = EntryRow(robots[a], "LESSON", lessons[b])
  BY <1>3, <1>7, <1>8
<1>10. QED
  BY <1>6, <1>9 DEF rows

\* Releasing a request changes nothing but the status of its rows.
LEMMA ReleasedType ==
  ASSUME NEW table \in Seq(ReservationRow), NEW q
  PROVE  /\ Released(table, q) \in Seq(ReservationRow)
         /\ Len(Released(table, q)) = Len(table)
         /\ \A i \in 1 .. Len(table) :
              Released(table, q)[i] =
                IF table[i].request = q THEN [table[i] EXCEPT !.status = "CANCELLED"]
                                        ELSE table[i]
<1>1. Len(table) \in Nat /\ DOMAIN table = 1 .. Len(table)
  BY LenProperties
<1>2. \A i \in 1 .. Len(table) : table[i] \in ReservationRow
  BY ElementOfSeq
<1>3. Released(table, q) \in [1 .. Len(table) -> ReservationRow]
  BY <1>1, <1>2 DEF Released, ReservationRow
<1>4. QED
  BY <1>1, <1>3, FunctionIsSeq DEF Released

\* Replacing one row of a table leaves a table.
LEMMA StatusUpdateType ==
  ASSUME NEW requests \in Seq(RequestRow), NEW q \in DOMAIN requests,
         NEW status \in RequestStatus
  PROVE  /\ WithStatus(requests, q, status) \in Seq(RequestRow)
         /\ Len(WithStatus(requests, q, status)) = Len(requests)
         /\ \A j \in 1 .. Len(requests) :
              WithStatus(requests, q, status)[j] =
                IF j = q THEN [requests[q] EXCEPT !.status = status] ELSE requests[j]
<1>1. DOMAIN requests = 1 .. Len(requests)
  BY LenProperties
<1>2. requests[q] \in RequestRow
  BY <1>1, ElementOfSeq
<1>3. [requests[q] EXCEPT !.status = status] \in RequestRow
  BY <1>2 DEF RequestRow
<1>4. WithStatus(requests, q, status)
        = [requests EXCEPT ![q] = [requests[q] EXCEPT !.status = status]]
  BY <1>1 DEF WithStatus
<1>5. QED
  BY <1>1, <1>3, <1>4, ExceptSeq

\* What _apply_fields stores, and that it leaves the status alone.
LEMMA WithFieldsType ==
  ASSUME NEW row \in RequestRow, NEW p \in Period,
         NEW rid \in ResponseId \union {NoResponseId},
         NEW r \in Resource \union {NoResource}
  PROVE  /\ WithFields(row, p, rid, r) \in RequestRow
         /\ WithFields(row, p, rid, r).status = row.status
         /\ WithFields(row, p, rid, r).period = p
         /\ WithFields(row, p, rid, r).responseId = rid
         /\ r # NoResource => WithFields(row, p, rid, r).assigned = r
BY DEF WithFields, RequestRow

\* A new application is a well-formed row.
LEMMA NewRequestType ==
  ASSUME NEW p \in Period, NEW rid \in ResponseId \union {NoResponseId}
  PROVE  NewRequest(p, rid) \in RequestRow
BY DEF NewRequest, RequestRow, RequestStatus

-----------------------------------------------------------------------------
(* Response IDs                                                            *)

\* UniqueLiveResponseId of any table, without an order on the two requests.
UniqueIn(requests) ==
  \A q, o \in DOMAIN requests :
    q # o /\ LiveRequest(requests[q]) /\ LiveRequest(requests[o])
      /\ requests[q].responseId # NoResponseId
      => requests[q].responseId # requests[o].responseId

\* Looking at the oldest holder is enough: when response_id_errors finds
\* nothing, no other live request carries the Response ID.
LEMMA OldestHolderDecides ==
  ASSUME NEW requests \in Seq(RequestRow), UniqueIn(requests), NEW q,
         NEW rid \in ResponseId, ~ ResponseIdTaken(requests, rid, q),
         NEW h \in DOMAIN requests \ {q}
  PROVE  ~ HoldsResponseId(requests, h, rid)
<1> DEFINE holders == {j \in DOMAIN requests : HoldsResponseId(requests, j, rid)}
<1>1. SUFFICES ASSUME HoldsResponseId(requests, h, rid) PROVE FALSE
  OBVIOUS
<1>2. DOMAIN requests = 1 .. Len(requests) /\ Len(requests) \in Nat
  BY LenProperties
<1>3. h \in holders
  BY <1>1
<1>4. PICK m \in holders : \A j \in holders : m <= j
  <2>1. holders \subseteq Nat
    BY <1>2
  <2>2. PICK m \in holders : \A j \in holders : <<j, m>> \notin OpToRel(<, Nat)
    BY <1>3, <2>1, NatLessThanWellFounded, WFMin
  <2>3. ASSUME NEW j \in holders
        PROVE  m <= j
    <3>1. m \in Nat /\ j \in Nat
      BY <2>1
    <3>2. ~ (j < m)
      BY <2>2, <3>1 DEF OpToRel
    <3>3. QED
      BY <3>1, <3>2
  <2>4. QED
    BY <2>3
<1>5. \A older \in 1 .. m - 1 : ~ HoldsResponseId(requests, older, rid)
  BY <1>2, <1>4
<1>6. CASE m = q
  BY <1>1, <1>4, <1>6, NullAssumption DEF UniqueIn, HoldsResponseId
<1>7. CASE m # q
  BY <1>4, <1>5, <1>7, NullAssumption DEF ResponseIdTaken
<1>8. QED
  BY <1>6, <1>7

\* Adding or changing one row keeps uniqueness when its Response ID is free.
LEMMA OneRowKeepsUnique ==
  ASSUME NEW old \in Seq(RequestRow), NEW new \in Seq(RequestRow), NEW q,
         UniqueIn(old),
         \A j \in DOMAIN new \ {q} : j \in DOMAIN old /\ new[j] = old[j],
         LiveRequest(new[q]) /\ new[q].responseId # NoResponseId
           => \A j \in DOMAIN old \ {q} :
                ~ HoldsResponseId(old, j, new[q].responseId)
  PROVE  UniqueIn(new)
BY DEF UniqueIn, HoldsResponseId

-----------------------------------------------------------------------------
(* Who holds slots                                                         *)

\* Every reservation of a table belongs to one of the owners.
OwnedBy(reservations, owners) ==
  \A i \in DOMAIN reservations : reservations[i].request \in owners

\* Adding rows adds their slots.
LEMMA ConcatSlots ==
  ASSUME NEW old \in Seq(ReservationRow), NEW rows \in Seq(ReservationRow),
         NEW q, NEW owners
  PROVE  /\ HoldsActiveSlot(old \o rows, q)
              <=> HoldsActiveSlot(old, q) \/ HoldsActiveSlot(rows, q)
         /\ OwnedBy(old, owners) /\ OwnedBy(rows, owners)
              => OwnedBy(old \o rows, owners)
<1> DEFINE both == old \o rows
           n == Len(old)
           m == Len(rows)
<1>1. /\ n \in Nat /\ DOMAIN old = 1 .. n
      /\ m \in Nat /\ DOMAIN rows = 1 .. m
  BY LenProperties
<1>2. /\ both \in Seq(ReservationRow)
      /\ Len(both) = n + m
      /\ \A i \in 1 .. n + m : both[i] = IF i <= n THEN old[i] ELSE rows[i - n]
  BY ConcatProperties
<1>3. DOMAIN both = 1 .. n + m
  BY <1>2, LenProperties
<1> HIDE DEF both, n, m
<1>4. \A i \in DOMAIN old : i \in DOMAIN both /\ both[i] = old[i]
  BY <1>1, <1>2, <1>3
<1>5. ASSUME NEW k \in DOMAIN rows
      PROVE  n + k \in DOMAIN both /\ both[n + k] = rows[k]
  <2>1. n + k \in 1 .. n + m /\ ~ (n + k <= n) /\ (n + k) - n = k
    BY <1>1
  <2>2. QED
    BY <1>2, <1>3, <2>1
<1>6. ASSUME NEW i \in DOMAIN both
      PROVE  \/ i \in DOMAIN old /\ both[i] = old[i]
             \/ i - n \in DOMAIN rows /\ both[i] = rows[i - n]
  BY <1>1, <1>2, <1>3
<1>7. HoldsActiveSlot(both, q) => HoldsActiveSlot(old, q) \/ HoldsActiveSlot(rows, q)
  BY <1>6 DEF HoldsActiveSlot
<1>8. HoldsActiveSlot(old, q) => HoldsActiveSlot(both, q)
  BY <1>4 DEF HoldsActiveSlot
<1>9. HoldsActiveSlot(rows, q) => HoldsActiveSlot(both, q)
  BY <1>5 DEF HoldsActiveSlot
<1>10. OwnedBy(old, owners) /\ OwnedBy(rows, owners) => OwnedBy(both, owners)
  BY <1>6 DEF OwnedBy
<1>11. QED
  BY <1>7, <1>8, <1>9, <1>10 DEF both

\* A release takes every slot of one request and none of another.
LEMMA ReleasedSlots ==
  ASSUME NEW table \in Seq(ReservationRow), NEW q, NEW o, NEW owners
  PROVE  /\ HoldsActiveSlot(Released(table, q), o)
              <=> o # q /\ HoldsActiveSlot(table, o)
         /\ OwnedBy(table, owners) => OwnedBy(Released(table, q), owners)
<1>1. \A i \in DOMAIN table : table[i] \in ReservationRow
  BY LenProperties, ElementOfSeq
<1>2. /\ DOMAIN Released(table, q) = DOMAIN table
      /\ \A i \in DOMAIN table :
           Released(table, q)[i] =
             IF table[i].request = q THEN [table[i] EXCEPT !.status = "CANCELLED"]
                                     ELSE table[i]
  BY DEF Released
<1>3. \A i \in DOMAIN table :
        /\ Released(table, q)[i].request = table[i].request
        /\ Released(table, q)[i].status =
             IF table[i].request = q THEN "CANCELLED" ELSE table[i].status
  BY <1>1, <1>2 DEF ReservationRow
<1>4. QED
  BY <1>2, <1>3 DEF HoldsActiveSlot, OwnedBy, ActiveRow

\* The rows of a decision are slots of its request, and there is at least one.
LEMMA BookedSlots ==
  ASSUME NEW q \in Nat, NEW r \in Resource, NEW p \in Period,
         ExpandSlots(p) # << >>, NEW conflicts, NEW o
  PROVE  LET rows == BookingRows(q, r, ExpandSlots(p), conflicts)
         IN  /\ HoldsActiveSlot(rows, o) <=> o = q
             /\ OwnedBy(rows, {q})
<1> DEFINE slots == ExpandSlots(p)
           rows == BookingRows(q, r, slots, conflicts)
<1>1. slots \in Seq(Slot)
  BY ExpandSlotsType
<1>2. 1 \in DOMAIN slots
  BY <1>1, EmptySeq, LenProperties
<1>3. /\ DOMAIN rows = DOMAIN slots
      /\ \A k \in DOMAIN rows : rows[k].request = q /\ rows[k].status = "ACTIVE"
  BY DEF BookingRows
<1> HIDE DEF rows, slots
<1>4. QED
  BY <1>2, <1>3 DEF HoldsActiveSlot, OwnedBy, ActiveRow, rows, slots

\* A request that holds nothing loses nothing.
LEMMA NothingToRelease ==
  ASSUME NEW table \in Seq(ReservationRow), NEW q, ~ HoldsActiveSlot(table, q)
  PROVE  Released(table, q) = table
<1>1. /\ Released(table, q) \in Seq(ReservationRow)
      /\ Len(Released(table, q)) = Len(table)
      /\ Len(table) \in Nat
  BY ReleasedType, LenProperties
<1>2. ASSUME NEW i \in 1 .. Len(table)
      PROVE  Released(table, q)[i] = table[i]
  <2>1. table[i] \in ReservationRow /\ i \in DOMAIN table
    BY LenProperties, ElementOfSeq
  <2>2. table[i].request = q => table[i].status = "CANCELLED"
    BY <2>1 DEF HoldsActiveSlot, ActiveRow, ReservationRow
  <2>3. table[i].status = "CANCELLED" => [table[i] EXCEPT !.status = "CANCELLED"] = table[i]
    BY <2>1 DEF ReservationRow
  <2>. QED
    BY <2>2, <2>3, ReleasedType
<1>. QED
  BY <1>1, <1>2, SeqEqual

=============================================================================
