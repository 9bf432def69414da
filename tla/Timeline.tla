------------------------------ MODULE Timeline ------------------------------
(* One customer's story in the journey report: the contacts and the        *)
(* bankers' log rows of an account as they come in, and what every run     *)
(* makes of those that exist by then: the bankers' sessions (sessions.py,  *)
(* importers/atlas.py), the contact each session served (timeline.py), the *)
(* promises and the status (rules.py), and the figures                     *)
(* (session_analysis.py, analysis.py).                                     *)
(*                                                                         *)
(* The world moves in the actions; the code is the operators, which read   *)
(* `contacts` and `rows` anew in every run.  What a recorded call or a     *)
(* correspondence says comes with it: its outcome and the bank's promise   *)
(* (the line it stands in; 0 for none).                                    *)
EXTENDS Integers, Sequences, FiniteSets, SequencesExt, FiniteSetsExt, Ranking

CONSTANTS
    Gap,            \* gap_min
    StartOp,        \* the code that opens the customer screen
    CallOutBefore, CallInAfter, MsgOutBefore, MsgInAfter,  \* AtlasRules
    BusinessDays,   \* callback_business_days
    DayLength,      \* the ticks of a day
    FirstDay,       \* the weekday of tick 0, Monday being 0
    QuietDays,      \* quiet_days, in ticks
    Branch,         \* the unit that is the account's own branch
    Center,         \* the units of the banking centre
    Bankers,        \* [banker -> the unit he works in]
    Bursts,         \* what one second of the log may hold: banker and code
    Steps,          \* how far apart two events are
    MaxEvents,      \* bound of the instance
    NoTime          \* None

ASSUME TimelineAssumption ==
    /\ {BusinessDays, DayLength} \subseteq Nat \ {0} /\ FirstDay \in Nat
    /\ Steps \subseteq Nat
    /\ Bursts \subseteq Seq([banker : DOMAIN Bankers, op : STRING])
    /\ NoTime \notin Nat

VARIABLES
    now,            \* the last moment
    contacts,       \* the story's contacts, in time order
    rows,           \* the log, in the order of the export
    covered,        \* the log goes back to the story's first day
    fresh,          \* the last run saw everything that happened
    report          \* what the last run made of it

vars == <<now, contacts, rows, covered, fresh, report>>

-----------------------------------------------------------------------------
(* Sessions.                                                               *)

ByTime(S) == Ranked(S, LAMBDA i, j : rows[i].at < rows[j].at
                                       \/ (rows[i].at = rows[j].at /\ i < j))

OpensSession(prev, row) ==
    \/ row.banker # prev.banker
    \/ row.at - prev.at > Gap
    \/ row.op = StartOp

\* The sessions of the rows up to the n-th, from those of the rows before it.
Extended(ordered, n, built) ==
    IF n = 1 \/ OpensSession(ordered[n - 1], ordered[n])
    THEN Append(built, <<ordered[n]>>)
    ELSE [built EXCEPT ![Len(built)] = Append(@, ordered[n])]

Grouped(ordered) ==
    LET Built[n \in 0 .. Len(ordered)] ==
          IF n = 0 THEN <<>> ELSE Extended(ordered, n, Built[n - 1])
    IN  Built[Len(ordered)]

\* Seeded defect: the rows are taken as the export lists them.
BuildAsListed == Grouped(rows)

\* Seeded defect: every banker's rows are cut into sessions by themselves.
BuildByBanker ==
    FlattenSeq([k \in 1 .. Cardinality(DOMAIN Bankers) |->
      LET b == Ranked(DOMAIN Bankers, <)[k]
          S == {i \in DOMAIN rows : rows[i].banker = b}
      IN  Grouped([i \in 1 .. Cardinality(S) |-> rows[ByTime(S)[i]]])])

\* The rows cut into sessions, in time order; those of one second keep the
\* order of the export.
BuildSessions ==
    LET order == ByTime(DOMAIN rows)
    IN  Grouped([i \in DOMAIN order |-> rows[order[i]]])

StartOf(s) == s[1].at
EndOf(s) == Last(s).at

\* The numbers of a sequence, added up.
Total(numbers) ==
    LET Upto[n \in 0 .. Len(numbers)] ==
          IF n = 0 THEN 0 ELSE Upto[n - 1] + numbers[n]
    IN  Upto[Len(numbers)]

\* The minutes of those sessions whose numbers are in S.
Minutes(sessions, S) ==
    Total([i \in DOMAIN sessions |-> IF i \in S THEN EndOf(sessions[i]) - StartOf(sessions[i])
                                     ELSE 0])
HasExecute(s) == \E i \in DOMAIN s : s[i].op = "execute"

\* The class of the unit of a session's first row.
UnitClass(s) ==
    LET unit == Bankers[s[1].banker]
    IN  CASE unit \in Center -> "center"
          [] unit = Branch -> "own"
          [] OTHER -> "other"

-----------------------------------------------------------------------------
(* The contact a session served.                                           *)

Point(at, lo, hi) == [at |-> at, lo |-> lo, hi |-> hi]

\* The moments of a contact a session can serve, each with its window.
TouchPoints(c) ==
    CASE c.channel = "call" /\ c.direction = "outbound" ->
           {Point(c.at, c.at - CallOutBefore, c.end)}
      [] c.channel = "call" /\ c.direction = "inbound" ->
           {Point(c.at, c.at, c.end + CallInAfter)}
      [] OTHER ->
           {IF m.direction = "outbound"
            THEN Point(m.at, m.at - MsgOutBefore, m.at)
            ELSE Point(m.at, m.at, m.at + MsgInAfter) : m \in ToSet(c.messages)}

Away(s, p) == IF StartOf(s) >= p.at THEN StartOf(s) - p.at ELSE p.at - StartOf(s)
Holding(s, p) == p.lo <= StartOf(s) /\ StartOf(s) <= p.hi

Candidates == UNION {{<<p, c>> : p \in TouchPoints(contacts[c])} : c \in DOMAIN contacts}
Nearer(s, x, y) ==
    \/ Away(s, x[1]) < Away(s, y[1])
    \/ Away(s, x[1]) = Away(s, y[1]) /\ x[1].at < y[1].at
    \/ Away(s, x[1]) = Away(s, y[1]) /\ x[1].at = y[1].at /\ x[2] <= y[2]

\* Seeded defect: the nearest moment is looked for first, then its window.
NearestThenWindow(s) ==
    LET near == CHOOSE x \in Candidates : \A y \in Candidates : Nearer(s, x, y)
    IN  IF Candidates # {} /\ Holding(s, near[1]) THEN near[2] ELSE 0

\* The number of the contact whose window holds the session's start, the
\* nearest if several do; 0 for work with no documented contact.
ServedBy(s) ==
    LET in == {x \in Candidates : Holding(s, x[1])}
    IN  IF in = {} THEN 0
        ELSE (CHOOSE x \in in : \A y \in in : Nearer(s, x, y))[2]

SessionsFor(c) == {i \in DOMAIN BuildSessions : ServedBy(BuildSessions[i]) = c}

-----------------------------------------------------------------------------
(* Promises.                                                               *)

WorkingDay(moment) == (FirstDay + moment \div DayLength) % 7 \notin {4, 5}

\* Seeded defect: any day counts.
CalendarDays(moment) == moment + BusinessDays * DayLength

\* BusinessDays Sunday-to-Thursday days later, at the same hour: a day at a
\* time, of which every third at least is one that counts.
AddBusinessDays(moment) ==
    LET Passing[n \in Nat] ==
          IF n = 0 THEN [at |-> moment, left |-> BusinessDays]
          ELSE LET last == Passing[n - 1]
                   next == last.at + DayLength
               IN  IF last.left = 0 THEN last
                   ELSE [at |-> next,
                         left |-> IF WorkingDay(next) THEN last.left - 1 ELSE last.left]
    IN  Passing[3 * BusinessDays].at

NoEarlier(times) == IF times = {} THEN NoTime ELSE Min(times)

\* The next contact of the customer, or of unknown direction.
NextContactAfter(moment) ==
    NoEarlier({c.at : c \in {c \in ToSet(contacts) :
                               c.at > moment /\ c.direction # "outbound"}})

\* The bank's first contact, message or executing operation in (from, to].
BankActed(from, to) ==
    LET outbound == {c.at : c \in {c \in ToSet(contacts) : c.direction = "outbound"}}
        replies == UNION {{m.at : m \in {m \in ToSet(c.messages) : m.direction = "outbound"}} :
                            c \in ToSet(contacts)}
        executed == {r.at : r \in {r \in ToSet(rows) : r.op = "execute"}}
    IN  NoEarlier({t \in outbound \cup replies \cup executed : from < t /\ t <= to})

PromiseTime(c) ==
    IF c.channel = "message" THEN c.messages[c.promise].at ELSE c.end

\* The last moment the data covers: messages inside a thread do not count.
DataEnd == Max({c.at : c \in ToSet(contacts)} \cup {r.at : r \in ToSet(rows)})

\* Seeded defect: the bank's action counts whoever came first.
CheckIgnoringReturn(c) ==
    LET made == PromiseTime(c)
        due == AddBusinessDays(made)
        next == NextContactAfter(made)
    IN  CASE BankActed(made, due) # NoTime -> "kept"
          [] BankActed(made, due) = NoTime /\ next # NoTime /\ next <= due -> "broken"
          [] OTHER -> IF covered /\ DataEnd >= due THEN "broken" ELSE "unknown"

\* Seeded defect: the log is taken to say everything, wherever it begins.
CheckUncovered(c) ==
    LET made == PromiseTime(c)
        due == AddBusinessDays(made)
        next == NextContactAfter(made)
        horizon == IF next # NoTime /\ next < due THEN next ELSE due
    IN  CASE BankActed(made, horizon) # NoTime -> "kept"
          [] BankActed(made, horizon) = NoTime /\ next # NoTime /\ next <= due -> "broken"
          [] OTHER -> IF DataEnd >= due THEN "broken" ELSE "unknown"

\* What became of the promise made in a contact.
CheckPromise(c) ==
    LET made == PromiseTime(c)
        due == AddBusinessDays(made)
        next == NextContactAfter(made)
        horizon == IF next # NoTime /\ next < due THEN next ELSE due
    IN  CASE BankActed(made, horizon) # NoTime -> "kept"
          [] BankActed(made, horizon) = NoTime /\ next # NoTime /\ next <= due -> "broken"
          [] OTHER -> IF covered /\ DataEnd >= due THEN "broken" ELSE "unknown"

Promises == {i \in DOMAIN contacts : contacts[i].promise > 0}

-----------------------------------------------------------------------------
(* Classes of the returns, and how the story ended.                        *)

HasContent(c) == c.kind \in {"recorded_call", "message"}

\* What the log says of a call that was answered and not recorded.
TraceOf(i) ==
    LET behind == SessionsFor(i)
    IN  IF ~covered THEN "unrecorded_no_cover"
        ELSE IF \E s \in behind : HasExecute(BuildSessions[s]) THEN "answered_execute"
        ELSE IF behind # {} THEN "answered_info" ELSE "answered_no_trace"

ObjectiveClass(i) ==
    LET c == contacts[i]
    IN  CASE c.kind = "abandoned" -> "abandoned"
          [] c.kind # "abandoned" /\ c.direction = "outbound" -> "bank_initiated"
          [] c.direction = "inbound" /\ HasContent(c) -> "content"
          [] OTHER -> TraceOf(i)

\* [status, basis] from the rules alone.
InferStatus ==
    LET last == Last(contacts)
        pending == {i \in Promises : /\ CheckPromise(contacts[i]) # "kept"
                                     /\ PromiseTime(contacts[i]) >= last.at}
        after == {r.at : r \in {r \in ToSet(rows) : r.op = "execute" /\ r.at > last.at}}
        Is(status, basis) == [status |-> status, basis |-> basis]
    IN  IF HasContent(last) /\ last.outcome = "resolved" /\ pending = {}
        THEN Is("closed", "content")
        ELSE IF HasContent(last) /\ (last.outcome = "not_resolved" \/ pending # {})
        THEN Is("open", "content")
        ELSE IF after # {} /\ DataEnd - Max(after) >= QuietDays
        THEN Is("closed", "inference")
        ELSE IF last.kind = "abandoned" THEN Is("open", "fact")
        ELSE Is("unclear", "none")

\* Seeded defect: the model's verdict stands unless the rules only inferred.
ModelBeatsFact(verdict) ==
    IF InferStatus.basis = "inference" THEN InferStatus.status ELSE verdict

\* The status the report shows when the model's verdict on the story is given.
ShownStatus(verdict) ==
    IF InferStatus.basis \in {"fact", "inference"} THEN InferStatus.status ELSE verdict

-----------------------------------------------------------------------------
(* Figures of a story.                                                     *)

Classes ==
    LET built == BuildSessions
    IN  [i \in DOMAIN built |-> UnitClass(built[i])]

\* Seeded defect: whatever comes after the last contact served none.
CountedAfter ==
    LET all == DOMAIN BuildSessions
        late == {i \in all : StartOf(BuildSessions[i]) > Last(contacts).at}
    IN  [sessions |-> Cardinality(all), bankers |-> Cardinality(all),
         handoffs |-> Cardinality({i \in all \ {1} : Classes[i - 1] # Classes[i]}),
         minutes |-> Minutes(BuildSessions, all), backgroundMinutes |-> Minutes(BuildSessions, late),
         executeAfter |-> Cardinality(late),
         crossed |-> Cardinality(ToSet(Classes)) > 1]

StorySessions ==
    LET built == BuildSessions
        classes == Classes
        all == DOMAIN built
        background == {i \in all : ServedBy(built[i]) = 0}
        executing == {i \in all : HasExecute(built[i])}
    IN  [sessions |-> Cardinality(all),
         bankers |-> Cardinality({built[i][1].banker : i \in all}),
         handoffs |-> Cardinality({i \in all \ {1} : classes[i - 1] # classes[i]}),
         minutes |-> Minutes(built, all), backgroundMinutes |-> Minutes(built, background),
         executeAfter |-> Cardinality({i \in executing :
                                        StartOf(built[i]) > Last(contacts).at}),
         crossed |-> "center" \in ToSet(classes)
                     /\ {"own", "other"} \cap ToSet(classes) # {}]

\* Seeded defect: a session counts when it ends, not when it starts.
FirstMoveByEnd(i) ==
    LET s == NoEarlier({t \in {EndOf(x) : x \in ToSet(BuildSessions)} : t > contacts[i].at})
        c == NoEarlier({t \in {x.at : x \in ToSet(contacts)} : t > contacts[i].at})
    IN  IF s # NoTime /\ (c = NoTime \/ s < c) THEN "bank"
        ELSE IF c # NoTime THEN "customer" ELSE "none"

\* Who acted first after a contact the customer abandoned.
FirstMoveAfter(i) ==
    LET s == NoEarlier({t \in {StartOf(x) : x \in ToSet(BuildSessions)} : t > contacts[i].at})
        c == NoEarlier({t \in {x.at : x \in ToSet(contacts)} : t > contacts[i].at})
    IN  IF s # NoTime /\ (c = NoTime \/ s < c) THEN "bank"
        ELSE IF c # NoTime THEN "customer" ELSE "none"
-----------------------------------------------------------------------------
(* What happens on the account.                                            *)

Events == Len(contacts) + Len(rows)
                 + MapThenSumSet(LAMBDA i : Len(contacts[i].messages), DOMAIN contacts)

Contact(channel, direction, kind, at, end, messages, outcome, promise) ==
    [channel |-> channel, direction |-> direction, kind |-> kind, at |-> at,
     end |-> end, messages |-> messages, outcome |-> outcome, promise |-> promise]

Init ==
    /\ now = 0 /\ contacts = <<>> /\ rows = <<>>
    /\ covered \in BOOLEAN
    /\ fresh = TRUE
    /\ report = [sessions |-> <<>>, served |-> <<>>, promises |-> <<>>, moves |-> <<>>,
                 classes |-> <<>>, status |-> [status |-> "unclear", basis |-> "none"],
                 figures |-> <<>>]

\* A run follows every event: what stays from each run to the next stays.
Later ==
    /\ fresh /\ fresh' = FALSE
    /\ Events < MaxEvents
    /\ now' \in {now + d : d \in Steps}
    /\ UNCHANGED report

\* A call, recorded or not; only a recorded one has a content to read.
Call(direction, kind, outcome, promise) ==
    /\ Later
    /\ contacts' = Append(contacts, Contact("call", direction, kind, now', now' + 1,
                                            <<>>, outcome, promise))
    /\ UNCHANGED <<rows, covered>>

\* The customer, or the bank, begins a correspondence.
Write(direction) ==
    /\ Later
    /\ contacts' = Append(contacts, Contact("message", direction, "message", now', now',
                            <<[at |-> now', direction |-> direction]>>, "none", 0))
    /\ UNCHANGED <<rows, covered>>

\* One more message in the last correspondence, perhaps with a promise.
Reply(direction, promises) ==
    /\ Later
    /\ \E i \in DOMAIN contacts :
         /\ contacts[i].channel = "message"
         /\ \A j \in DOMAIN contacts : j > i => contacts[j].channel # "message"
         /\ promises => contacts[i].promise = 0
         /\ LET n == Len(contacts[i].messages) + 1
            IN  contacts' = [contacts EXCEPT
                  ![i].messages = Append(@, [at |-> now', direction |-> direction]),
                  ![i].promise = IF promises THEN n ELSE @]
    /\ UNCHANGED <<rows, covered>>

\* Bankers work on the account: one row, or those of one second, in an export
\* that lists the log forwards, or backwards.
Act(burst, forwards) ==
    /\ contacts # <<>>
    /\ Later
    /\ LET new == [i \in DOMAIN burst |->
                     [at |-> now', banker |-> burst[i].banker, op |-> burst[i].op]]
       IN  rows' = IF forwards THEN rows \o new ELSE new \o rows
    /\ UNCHANGED <<contacts, covered>>

Of(f(_)) == [i \in DOMAIN contacts |-> f(i)]

Run ==
    /\ ~fresh /\ fresh' = TRUE
    /\ report' =
         [sessions |-> BuildSessions,
          served |-> [i \in DOMAIN BuildSessions |-> ServedBy(BuildSessions[i])],
          promises |-> Of(LAMBDA i : IF i \in Promises THEN CheckPromise(contacts[i])
                                     ELSE "none"),
          moves |-> Of(LAMBDA i : IF contacts[i].kind = "abandoned" THEN FirstMoveAfter(i)
                                  ELSE "none"),
          classes |-> Of(ObjectiveClass),
          status |-> InferStatus,
          figures |-> StorySessions]
    /\ UNCHANGED <<now, contacts, rows, covered>>

Over == fresh /\ Events >= MaxEvents /\ UNCHANGED vars

Next ==
    \/ Call("inbound", "abandoned", "none", 0)
    \/ Call("inbound", "unrecorded_answered", "none", 0)
    \/ \E outcome \in {"resolved", "not_resolved"} :
         Call("inbound", "recorded_call", outcome, 0)
    \/ \E direction \in {"inbound", "outbound"} :
         Call(direction, "recorded_call", "none", 1)
    \/ \E direction \in {"inbound", "outbound"} : Write(direction)
    \/ Reply("inbound", FALSE)
    \/ \E promises \in BOOLEAN : Reply("outbound", promises)
    \/ \E burst \in Bursts, forwards \in BOOLEAN : Act(burst, forwards)
    \/ Run
    \/ Over

Spec == Init /\ [][Next]_vars

-----------------------------------------------------------------------------
(* Properties.                                                             *)

\* Whatever the order of the export, a session goes forward in time, its rows
\* are one banker's, and every row is in one session (sessions.py:55-80).
SessionsAreSound ==
    LET built == report.sessions
    IN  /\ \A i \in DOMAIN built :
             /\ built[i] # <<>> /\ StartOf(built[i]) <= EndOf(built[i])
             /\ \A j \in DOMAIN built[i] : built[i][j].banker = built[i][1].banker
             /\ i > 1 => EndOf(built[i - 1]) <= StartOf(built[i])
        /\ fresh => Total([i \in DOMAIN built |-> Len(built[i])]) = Len(rows)

\* What is logged later never re-cuts the sessions of an earlier run: it
\* lengthens the last one or opens a new one (sessions.py:55-80).
SessionsStay ==
    LET n == Len(report.sessions)
    IN  /\ n <= Len(report'.sessions)
        /\ \A i \in 1 .. n - 1 : report'.sessions[i] = report.sessions[i]
        /\ n > 0 => IsPrefix(report.sessions[n], report'.sessions[n])

\* A session that served a contact still serves one in every later run: it
\* never turns into work with no documented contact (timeline.py:138-159).
ServedStaysServed ==
    \A i \in DOMAIN report.served : report.served[i] # 0 => report'.served[i] # 0

\* A promise that was found kept, or broken, is found so in every later run
\* (rules.py:115-146).
SettledStaysSettled ==
    \A i \in DOMAIN report.promises :
      report.promises[i] \in {"kept", "broken"}
        => report'.promises[i] = report.promises[i]

\* Who acted first after an abandoned call is settled once somebody has
\* (session_analysis.py:212-223).
FirstMoveStays ==
    \A i \in DOMAIN report.moves :
      report.moves[i] # "none" => report'.moves[i] = report.moves[i]

\* A longer export of the same story says of the past what a shorter one said:
\* the sessions, whom they served, promises settled and first moves made.
PastStays ==
    [][SessionsStay /\ ServedStaysServed /\ SettledStaysSettled /\ FirstMoveStays]_vars

\* The bank never keeps a promise by what it does after the customer came
\* back (rules.py:17-22).
KeptFirst ==
    fresh => \A i \in Promises : report.promises[i] = "kept" =>
      \E t \in PromiseTime(contacts[i]) + 1 .. now :
        /\ \/ \E r \in ToSet(rows) : r.at = t /\ r.op = "execute"
           \/ \E c \in ToSet(contacts) :
                \/ c.at = t /\ c.direction = "outbound"
                \/ \E m \in ToSet(c.messages) : m.at = t /\ m.direction = "outbound"
        /\ \A c \in ToSet(contacts) :
             PromiseTime(contacts[i]) < c.at /\ c.at < t => c.direction = "outbound"

\* A promise is due on a working day, with so many working days up to it and
\* no more (timeparse.py:117-130).
DueOnAWorkingDay ==
    fresh => \A i \in Promises :
      LET made == PromiseTime(contacts[i])
          due == AddBusinessDays(made)
          days == {d \in 1 .. 3 * BusinessDays : made + d * DayLength <= due}
      IN  /\ WorkingDay(due)
          /\ (due - made) % DayLength = 0
          /\ Cardinality({d \in days : WorkingDay(made + d * DayLength)}) = BusinessDays

\* Of an account whose log begins too late nothing is said that only the log
\* could tell: no return is one without activity, and no promise is broken
\* but by a return of the customer (session_analysis.py:14-17).
NoDataIsNoVerdict ==
    fresh /\ ~covered => \A i \in DOMAIN contacts :
      /\ report.classes[i] \notin {"answered_execute", "answered_info", "answered_no_trace"}
      /\ i \in Promises /\ report.promises[i] = "broken" =>
           \E c \in ToSet(contacts) :
             PromiseTime(contacts[i]) < c.at /\ c.direction = "inbound"

\* A promise is judged by the clock the rules give, and only on evidence: kept
\* by the bank alone, due on a working day, never broken by a deadline that
\* the log does not reach back to.
PromisesAreFair == KeptFirst /\ DueOnAWorkingDay /\ NoDataIsNoVerdict

\* The bankers' time in a story is the time behind its contacts and the time
\* with none, each minute once; and a story that crossed from the centre to a
\* branch was handed over (session_analysis.py:165-199).
FiguresAgree ==
    fresh /\ contacts # <<>> =>
      LET behind == {i \in DOMAIN report.sessions : report.served[i] # 0}
      IN  /\ report.figures.minutes =
               report.figures.backgroundMinutes + Minutes(report.sessions, behind)
          /\ report.figures.crossed => report.figures.handoffs > 0

\* A story whose last contact the customer abandoned, and on whose account
\* nothing was executed since, is shown open whatever the model says
\* (analysis.py:166-185).
FactBeatsModel ==
    /\ contacts # <<>> /\ Last(contacts).kind = "abandoned"
    /\ \A r \in ToSet(rows) : r.op = "execute" => r.at <= Last(contacts).at
    => \A verdict \in {"closed", "open", "unclear"} : ShownStatus(verdict) = "open"

\* What the page shows of a story agrees with the log and with itself, with
\* rows of several bankers in one tick, in whatever order they were exported.
PageAgrees == SessionsAreSound /\ FiguresAgree /\ FactBeatsModel

=============================================================================
