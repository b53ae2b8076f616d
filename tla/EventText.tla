------------------------------ MODULE EventText ------------------------------
(***************************************************************************)
(* The events of the client as texts: event.cpp, and what StompProtocol.cpp *)
(* writes of an event into a message and into a summary.                   *)
(*                                                                         *)
(* A text is its place in the alphabetical order, 0 for the empty one, and *)
(* whether there is a colon in it.  It is one line without blanks at its   *)
(* ends.  A description is the lengths of its lines, joined by line breaks. *)
(***************************************************************************)
EXTENDS Naturals, Sequences, FiniteSets, SequencesExt

CONSTANT TrueText    \* the place of the text "true"

Text(n) == [order |-> n, colon |-> FALSE]
Empty   == Text(0)

\* A line of a message: blanks, a key, a colon, and a text.  A line of a
\* description has no key that anything asks for, and its length for a text.
Line(indent, key, val) == [indent |-> indent, key |-> key, val |-> val]
-----------------------------------------------------------------------------
(* From a file: parseEventsFile *)

\* A text or a time that is missing makes it throw; information that is missing
\* is none.  A value that is not a string becomes its text.
CanParse(f) ==
    \A i \in DOMAIN f.events :
        {"event_name", "city", "date_time", "description"} \subseteq DOMAIN f.events[i]

InformationIn(item) ==
    IF "general_information" \in DOMAIN item THEN item.general_information ELSE <<>>

ParseEventsFile(f) ==
    [i \in DOMAIN f.events |->
        [eventOwnerUser      |-> Empty,
         city                |-> f.events[i].city,
         name                |-> f.events[i].event_name,
         date_time           |-> f.events[i].date_time,
         description         |-> f.events[i].description,
         general_information |-> InformationIn(f.events[i])]]
-----------------------------------------------------------------------------
(* Into a message *)

\* formatEventMessage
FormatEvent(user, event) ==
    LET keys == SetToSeq(DOMAIN event.general_information) IN
    << Line(0, "user", user),
       Line(0, "city", event.city),
       Line(0, "event name", event.name),
       Line(0, "date time", Text(event.date_time)),
       Line(0, "general information", Empty) >>
    \o [i \in DOMAIN keys |->
            Line(2, keys[i], event.general_information[keys[i]])]
    \o << Line(0, "description", Empty) >>
    \o [i \in DOMAIN event.description |->
            Line(0, "", Text(event.description[i]))]

\* The server splits a frame into lines, without the empty ones at its end,
\* and joins them.
ThroughServer(body) ==
    SubSeq(body, 1,
        Max({i \in DOMAIN body : body[i].key # "" \/ body[i].val # Empty}))
-----------------------------------------------------------------------------
(* Out of a message: the constructor Event(frame_body) *)

\* split_str finds more than two parts of a line with another colon: then the
\* text is left out.
ValueOf(line) == IF line.val.colon THEN Empty ELSE line.val

\* The place of the line that begins with key.
LineOf(body, key) ==
    CHOOSE i \in DOMAIN body : body[i].key = key /\ body[i].indent = 0

Field(body, key) == ValueOf(body[LineOf(body, key)])

\* The first character of a key is cut off and the blanks are trimmed.  The
\* line "description:" comes here as well, and is not indented.
InfoKey(line) == IF line.indent > 0 THEN line.key ELSE "escription"

\* The line "general information:" itself is passed over.
InfoLines(body) ==
    {i \in DOMAIN body : i > LineOf(body, "general information")
                            /\ i <= LineOf(body, "description")}

GeneralInformation(body) ==
    [k \in {InfoKey(body[i]) : i \in InfoLines(body)} |->
        ValueOf(body[CHOOSE i \in InfoLines(body) : InfoKey(body[i]) = k])]

\* What follows the line "description:", every line with a line break.
Description(body) ==
    LET first == LineOf(body, "description") IN
    Append([i \in 1..Len(body) - first |-> body[first + i].val.order], 0)

\* Mutant: the user is a case of the else-ifs that "city" begins, after a case
\* that takes its place.
ParseEventNoUser(body) ==
    [eventOwnerUser      |-> Empty,
     city                |-> Field(body, "city"),
     name                |-> Field(body, "event name"),
     date_time           |-> Field(body, "date time").order,
     general_information |-> GeneralInformation(body),
     description         |-> Description(body)]

ParseEvent(body) ==
    [eventOwnerUser      |-> Field(body, "user"),
     city                |-> Field(body, "city"),
     name                |-> Field(body, "event name"),
     date_time           |-> Field(body, "date time").order,
     general_information |-> GeneralInformation(body),
     description         |-> Description(body)]
-----------------------------------------------------------------------------
(* Into a summary: writeEventSummary *)

\* Mutant: events of one time stay as they came.
BeforeInTime(a, b) == a.date_time < b.date_time

Before(a, b) ==
    \/ a.date_time < b.date_time
    \/ (a.date_time = b.date_time /\ a.name.order < b.name.order)

\* What std::sort may make of the events: those that are equal come in any
\* order.
Sortings(events) ==
    {[i \in DOMAIN p |-> events[p[i]]] : p \in
        {q \in SetToSeqs(DOMAIN events) :
            \A i, k \in DOMAIN q : i < k => ~Before(events[q[k]], events[q[i]])}}

\* Events of which the information under a key is "true".
CountTrue(events, key) ==
    Cardinality({i \in DOMAIN events :
        LET info == events[i].general_information IN
        key \in DOMAIN info /\ info[key] = Text(TrueText)})

Length(description) ==
    FoldSeq(LAMBDA n, sum : n + sum, Len(description) - 1, description)

\* A longer description is cut and marked with dots; <<>> stands for that.
MaxLength == 27
Shorten(description) ==
    IF Length(description) > MaxLength THEN <<>> ELSE description

\* formatDateTime shows a time without its seconds.
FormatDateTime(time) == time \div 60

EventReport(event) ==
    [city    |-> event.city,
     time    |-> FormatDateTime(event.date_time),
     name    |-> event.name,
     summary |-> Shorten(event.description)]

\* The file that is written of events in their order.
SummaryOf(channel, user, sorted) ==
    [channel |-> channel,
     user    |-> user,
     total   |-> Len(sorted),
     active  |-> CountTrue(sorted, "active"),
     forces  |-> CountTrue(sorted, "forces_arrival_at_scene"),
     reports |-> [i \in DOMAIN sorted |-> EventReport(sorted[i])]]
=============================================================================
