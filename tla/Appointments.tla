----------------------------- MODULE Appointments -----------------------------
(***************************************************************************)
(* One calendar of product/appointments: its availability rules, booking   *)
(* link and generic events, the appointments booked in it, the requests    *)
(* that move, cancel or finish them under the row lock, and the sweeps     *)
(* that send reminders.  Instants are small numbers, a time range is a     *)
(* pair <<from, to>> that does not contain its end.                        *)
(***************************************************************************)
EXTENDS Naturals, FiniteSets, FiniteSetsExt

CONSTANTS
    Appts,        \* appointments that may be booked
    LastInstant,  \* bound: instants are 0..LastInstant
    SlotLength,   \* slot_duration_minutes
    Lead,         \* REMINDER_LEAD_TIME
    Requests,     \* staff and public requests
    Sweeps,       \* requests of send_due_reminders()
    Tokens,       \* link tokens that secrets draws, one per request
    None,
    MaxSweeps     \* bound: sweeps started

ASSUME AppointmentsAssumption ==
    /\ LastInstant \in Nat \ {0} /\ SlotLength \in Nat \ {0}
    /\ Lead \in Nat /\ MaxSweeps \in Nat
    /\ None \notin Appts \union Tokens \union Requests
    /\ IsFiniteSet(Sweeps)

Instants0 == 0..LastInstant
Ranges == {r \in Instants0 \X Instants0 : r[1] < r[2]}

VARIABLES
    calendar,   \* "present" or "deleted"
    rules,      \* availability_rules, as ranges
    link,       \* the token of the calendar's row in booking_links, or None
    handed,     \* link tokens returned to callers
    event,      \* the range of a row in calendar_events, or None
    appt,       \* the rows of appointments
    lock,       \* FOR UPDATE locks: appointment -> request or None
    request,    \* the requests
    offer,      \* slots answered to a client, as long as no row changed since
    published,  \* "completed" events per appointment
    now, sweep, swept, reminded,
    unmarked    \* messages per appointment not marked: the sweep died, or the provider raised

calendarVars == <<calendar, rules, link, handed, event>>
bookingVars == <<appt, lock, request, offer, published>>
sweepVars == <<now, sweep, swept, reminded, unmarked>>
appointmentVars == <<calendarVars, bookingVars, sweepVars>>

NoRow == [status |-> "none", range |-> <<0, 1>>, linked |-> FALSE, marked |-> FALSE]
IdleRequest == [pc |-> "idle", op |-> "none", appt |-> None, range |-> <<0, 1>>]
IdleSweep == [pc |-> "idle", due |-> {}, appt |-> None]

AppointmentsInit ==
    /\ calendar = "present" /\ rules = {} /\ link = None /\ handed = {} /\ event = None
    /\ appt = [a \in Appts |-> NoRow]
    /\ lock = [a \in Appts |-> None]
    /\ request = [q \in Requests |-> IdleRequest]
    /\ offer = {}
    /\ published = [a \in Appts |-> 0]
    /\ now = 0
    /\ sweep = [w \in Sweeps |-> IdleSweep]
    /\ swept = 0
    /\ reminded = [a \in Appts |-> 0]
    /\ unmarked = [a \in Appts |-> 0]

(***************************************************************************)
(* Availability.                                                           *)
(***************************************************************************)

\* overlaps_existing of compute_available_slots(): touching ranges do not overlap.
Overlaps(r, b) == r[1] < b[2] /\ r[2] > b[1]

Confirmed == {a \in Appts : appt[a].status = "confirmed"}

\* The cursor steps through each rule from its start, as long as the slot fits.
SlotsOf(rule) ==
    {<<rule[1] + k * SlotLength, rule[1] + (k + 1) * SlotLength>> :
        k \in {i \in 0..LastInstant : rule[1] + (i + 1) * SlotLength <= rule[2]}}

AvailableSlots ==
    {s \in UNION {SlotsOf(r) : r \in rules} : \A a \in Confirmed : ~ Overlaps(s, appt[a].range)}

\* EXCLUDE USING gist over half-open ranges WHERE status = 'confirmed'.
Conflicts(r, a) ==
    \E b \in Confirmed \ {a} :
        (appt[b].range[1]..(appt[b].range[2] - 1)) \intersect (r[1]..(r[2] - 1)) # {}

CreateRule(r) ==
    /\ calendar = "present" /\ r \notin rules
    /\ rules' = rules \union {r}
    /\ UNCHANGED <<calendar, link, handed, event, bookingVars, sweepVars>>

DeleteRule(r) ==
    /\ r \in rules
    /\ rules' = rules \ {r}
    /\ UNCHANGED <<calendar, link, handed, event, bookingVars, sweepVars>>

ComputeAvailableSlots ==
    /\ calendar = "present"
    /\ offer' = AvailableSlots
    /\ UNCHANGED <<calendarVars, appt, lock, request, published, sweepVars>>

(***************************************************************************)
(* The calendar, its booking link and its events.                          *)
(***************************************************************************)
Ask(q, op) == /\ request[q].pc = "idle"
              /\ request' = [request EXCEPT ![q].pc = "read", ![q].op = op]

Answer(q) == request' = [request EXCEPT ![q] = IdleRequest]

\* Appointments and events hold the calendar, rules and links go with it.
DeleteCalendar ==
    /\ calendar = "present"
    /\ \A a \in Appts : appt[a].status = "none"
    /\ event = None
    /\ calendar' = "deleted" /\ rules' = {} /\ link' = None
    /\ offer' = {}
    /\ UNCHANGED <<handed, event, appt, lock, request, published, sweepVars>>

\* get_or_create_booking_link() finds no row ...
AskLink(q) ==
    /\ calendar = "present"
    /\ IF link # None
       THEN handed' = handed \union {link} /\ UNCHANGED request
       ELSE Ask(q, "link") /\ UNCHANGED handed
    /\ UNCHANGED <<calendar, rules, link, event, appt, lock, offer, published, sweepVars>>

\* Mutant: the loser of the race returns the token it drew.
InsertLinkBlind(q, t) ==
    /\ request[q].pc = "read" /\ request[q].op = "link" /\ t \notin handed
    /\ calendar = "present"
    /\ link' = IF link = None THEN t ELSE link
    /\ handed' = handed \union {t}
    /\ Answer(q)
    /\ UNCHANGED <<calendar, rules, event, appt, lock, offer, published, sweepVars>>

\* ... and inserts the token it drew, or reads the winner's after the
\* constraint refused it.
InsertLink(q, t) ==
    /\ request[q].pc = "read" /\ request[q].op = "link" /\ t \notin handed
    /\ calendar = "present"
    /\ link' = IF link = None THEN t ELSE link
    /\ handed' = handed \union {link'}
    /\ Answer(q)
    /\ UNCHANGED <<calendar, rules, event, appt, lock, offer, published, sweepVars>>

\* The calendar was deleted meanwhile: the foreign key refuses the row.
InsertLinkFails(q) ==
    /\ request[q].pc = "read" /\ request[q].op = "link" /\ calendar = "deleted"
    /\ Answer(q)
    /\ UNCHANGED <<calendarVars, appt, lock, offer, published, sweepVars>>

CreateEvent(r) ==
    /\ calendar = "present" /\ event = None
    /\ event' = r
    /\ UNCHANGED <<calendar, rules, link, handed, bookingVars, sweepVars>>

DeleteEvent ==
    /\ event # None
    /\ event' = None
    /\ UNCHANGED <<calendar, rules, link, handed, bookingVars, sweepVars>>

\* update_calendar_event() changes one end, and validates it against the other
\* as it read it.
AskMove(q, side, i) ==
    /\ event # None
    /\ request[q].pc = "idle"
    /\ LET r == IF side = "start" THEN <<i, event[2]>> ELSE <<event[1], i>>
       IN /\ r[1] < r[2]
          /\ request' = [request EXCEPT ![q] = [pc |-> "read", op |-> side, appt |-> None, range |-> r]]
    /\ UNCHANGED <<calendarVars, appt, lock, offer, published, sweepVars>>

\* The end that this request writes; ends_after_starts may refuse the row.
Moved(q) ==
    IF request[q].op = "start" THEN <<request[q].range[1], event[2]>>
                               ELSE <<event[1], request[q].range[2]>>

MoveEvent(q) ==
    /\ request[q].pc = "read" /\ request[q].op \in {"start", "end"}
    /\ event' = IF event # None /\ Moved(q)[1] < Moved(q)[2] THEN Moved(q) ELSE event
    /\ Answer(q)
    /\ UNCHANGED <<calendar, rules, link, handed, appt, lock, offer, published, sweepVars>>

(***************************************************************************)
(* Booking, and the requests on a booked appointment.                      *)
(***************************************************************************)
\* Mutant: "check, then insert" reads the appointments of every status but confirmed.
BookUnchecked(a, r) ==
    /\ calendar = "present" /\ appt[a].status = "none"
    /\ ~ \E b \in Appts : appt[b].status = "cancelled" /\ Overlaps(appt[b].range, r)
    /\ appt' = [appt EXCEPT ![a] = [status |-> "confirmed", range |-> r, linked |-> TRUE, marked |-> FALSE]]
    /\ offer' = {}
    /\ UNCHANGED <<calendarVars, lock, request, published, sweepVars>>

\* book_appointment(), for staff or through the booking link; the row and its
\* manage token in one transaction.
Book(a, r) ==
    /\ calendar = "present" /\ appt[a].status = "none"
    /\ ~ Conflicts(r, a)
    /\ appt' = [appt EXCEPT ![a] = [status |-> "confirmed", range |-> r, linked |-> TRUE, marked |-> FALSE]]
    /\ offer' = {}
    /\ UNCHANGED <<calendarVars, lock, request, published, sweepVars>>

Ops == {"cancel", "reschedule", "complete", "no_show"}

\* SELECT ... FOR UPDATE; the request goes on only with a confirmed row.
LockRow(q, a, op, r) ==
    /\ request[q].pc = "idle"
    /\ lock[a] = None /\ appt[a].status = "confirmed"
    /\ lock' = [lock EXCEPT ![a] = q]
    /\ request' = [request EXCEPT ![q] = [pc |-> "locked", op |-> op, appt |-> a, range |-> r]]
    /\ UNCHANGED <<calendarVars, appt, offer, published, sweepVars>>

Commit(q, row) ==
    LET a == request[q].appt
    IN /\ request[q].pc = "locked"
       /\ appt' = [appt EXCEPT ![a] = row]
       /\ lock' = [lock EXCEPT ![a] = None]
       /\ offer' = {}
       /\ UNCHANGED <<calendarVars, published, sweepVars>>

Cancel(q) ==
    /\ request[q].op = "cancel"
    /\ Commit(q, [appt[request[q].appt] EXCEPT !.status = "cancelled"])
    /\ Answer(q)

NoShow(q) ==
    /\ request[q].op = "no_show"
    /\ Commit(q, [appt[request[q].appt] EXCEPT !.status = "no_show"])
    /\ Answer(q)

\* The exclusion constraint may refuse the new range; reminder_sent_at stays.
Reschedule(q) ==
    /\ request[q].op = "reschedule"
    /\ ~ Conflicts(request[q].range, request[q].appt)
    /\ Commit(q, [appt[request[q].appt] EXCEPT !.range = request[q].range])
    /\ Answer(q)

RescheduleRefused(q) ==
    /\ request[q].op = "reschedule"
    /\ Conflicts(request[q].range, request[q].appt)
    /\ Commit(q, appt[request[q].appt])
    /\ Answer(q)

Complete(q) ==
    /\ request[q].op = "complete"
    /\ Commit(q, [appt[request[q].appt] EXCEPT !.status = "completed"])
    /\ request' = [request EXCEPT ![q].pc = "publish"]

\* The subscriber in product/reputation asks the contact for a review.
PublishCompleted(q) ==
    /\ request[q].pc = "publish"
    /\ published' = [published EXCEPT ![request[q].appt] = @ + 1]
    /\ Answer(q)
    /\ UNCHANGED <<calendarVars, appt, lock, offer, sweepVars>>

\* The process dies after its commit: the event is lost.
RequestDies(q) ==
    /\ request[q].pc = "publish"
    /\ Answer(q)
    /\ UNCHANGED <<calendarVars, appt, lock, offer, published, sweepVars>>

(***************************************************************************)
(* Reminders.                                                              *)
(***************************************************************************)
Tick ==
    /\ now < LastInstant
    /\ now' = now + 1
    /\ UNCHANGED <<calendarVars, bookingVars, sweep, swept, reminded, unmarked>>

\* The appointment's contact is deleted: contact_id becomes NULL.
UnlinkContact(a) ==
    /\ appt[a].linked /\ lock[a] = None
    /\ appt' = [appt EXCEPT ![a].linked = FALSE]
    /\ UNCHANGED <<calendarVars, lock, request, offer, published, sweepVars>>

Due == {a \in Confirmed : ~ appt[a].marked /\ appt[a].range[1] > now /\ appt[a].range[1] <= now + Lead}

StartSweep(w) ==
    /\ sweep[w].pc = "idle" /\ swept < MaxSweeps /\ Due # {}
    /\ swept' = swept + 1
    /\ sweep' = [sweep EXCEPT ![w] = [pc |-> "next", due |-> Due, appt |-> None]]
    /\ UNCHANGED <<calendarVars, bookingVars, now, reminded, unmarked>>

\* No contact, no e-mail address, or the provider refuses: the row is left unmarked.
SkipReminder(w, a) ==
    /\ sweep[w].pc = "next" /\ a \in sweep[w].due
    /\ sweep' = [sweep EXCEPT ![w].due = @ \ {a}]
    /\ UNCHANGED <<calendarVars, bookingVars, now, swept, reminded, unmarked>>

SendReminder(w, a) ==
    /\ sweep[w].pc = "next" /\ a \in sweep[w].due
    /\ appt[a].linked
    /\ reminded' = [reminded EXCEPT ![a] = @ + 1]
    /\ sweep' = [sweep EXCEPT ![w].due = @ \ {a}, ![w].pc = "mark", ![w].appt = a]
    /\ UNCHANGED <<calendarVars, bookingVars, now, swept, unmarked>>

\* The provider raises after it took the message, and the row is left unmarked too.
SendReminderFails(w, a) ==
    /\ sweep[w].pc = "next" /\ a \in sweep[w].due
    /\ appt[a].linked
    /\ reminded' = [reminded EXCEPT ![a] = @ + 1]
    /\ unmarked' = [unmarked EXCEPT ![a] = @ + 1]
    /\ sweep' = [sweep EXCEPT ![w].due = @ \ {a}]
    /\ UNCHANGED <<calendarVars, bookingVars, now, swept>>

\* The UPDATE waits for a request that holds the row.
MarkReminded(w) ==
    /\ sweep[w].pc = "mark" /\ lock[sweep[w].appt] = None
    /\ appt' = [appt EXCEPT ![sweep[w].appt].marked = TRUE]
    /\ sweep' = [sweep EXCEPT ![w].pc = "next", ![w].appt = None]
    /\ UNCHANGED <<calendarVars, lock, request, offer, published, now, swept, reminded, unmarked>>

SweepDies(w) ==
    /\ sweep[w].pc = "mark"
    /\ unmarked' = [unmarked EXCEPT ![sweep[w].appt] = @ + 1]
    /\ sweep' = [sweep EXCEPT ![w] = IdleSweep]
    /\ UNCHANGED <<calendarVars, bookingVars, now, swept, reminded>>

EndSweep(w) ==
    /\ sweep[w].pc = "next" /\ sweep[w].due = {}
    /\ sweep' = [sweep EXCEPT ![w] = IdleSweep]
    /\ UNCHANGED <<calendarVars, bookingVars, now, swept, reminded, unmarked>>

CalendarNext ==
    \/ \E r \in Ranges : CreateRule(r) \/ DeleteRule(r)
    \/ DeleteCalendar \/ DeleteEvent
    \/ \E r \in Ranges : CreateEvent(r)
    \/ \E q \in Requests :
          \/ AskLink(q) \/ InsertLinkFails(q) \/ MoveEvent(q)
          \/ \E t \in Tokens : InsertLink(q, t)
          \/ \E side \in {"start", "end"}, i \in Instants0 : AskMove(q, side, i)

BookingNext ==
    \/ ComputeAvailableSlots
    \/ \E a \in Appts, r \in Ranges : Book(a, r)
    \/ \E q \in Requests :
          \/ \E a \in Appts, op \in Ops :
                \/ op # "reschedule" /\ LockRow(q, a, op, <<0, 1>>)
                \/ op = "reschedule" /\ \E r \in Ranges : LockRow(q, a, op, r)
          \/ Cancel(q) \/ NoShow(q) \/ Reschedule(q) \/ RescheduleRefused(q) \/ Complete(q)
          \/ PublishCompleted(q) \/ RequestDies(q)

RemindersNext ==
    \/ Tick
    \/ \E a \in Appts : UnlinkContact(a)
    \/ \E w \in Sweeps :
          \/ StartSweep(w) \/ MarkReminded(w) \/ EndSweep(w) \/ SweepDies(w)
          \/ \E a \in Appts : SkipReminder(w, a) \/ SendReminder(w, a) \/ SendReminderFails(w, a)

-------------------------------------------------------------------------------
AppointmentsTypeOK ==
    /\ calendar \in {"present", "deleted"}
    /\ rules \subseteq Ranges /\ offer \subseteq Ranges
    /\ link \in Tokens \union {None} /\ handed \subseteq Tokens
    /\ event \in (Instants0 \X Instants0) \union {None}
    /\ appt \in [Appts -> [status : {"none", "confirmed", "cancelled", "completed", "no_show"},
                           range : Ranges, linked : BOOLEAN, marked : BOOLEAN]]
    /\ lock \in [Appts -> Requests \union {None}]
    /\ \A q \in Requests : /\ request[q].pc \in {"idle", "read", "locked", "publish"}
                           /\ request[q].pc = "locked" => lock[request[q].appt] = q
    /\ \A w \in Sweeps : sweep[w].due \subseteq Appts /\ sweep[w].pc \in {"idle", "next", "mark"}

\* Confirmed appointments of the calendar never overlap, whatever is booked,
\* moved and cancelled at the same time.
NoDoubleBooking ==
    \A a, b \in Confirmed : a # b => ~ Overlaps(appt[a].range, appt[b].range)

\* A slot the availability query answered is bookable as long as no appointment
\* changed: the query's comparison and the database's constraint agree.
OfferIsBookable == calendar = "present" => \A s \in offer : \A a \in Appts : ~ Conflicts(s, a)

\* Nothing refers to a deleted calendar.
NoOrphans ==
    calendar = "deleted" => event = None /\ link = None /\ \A a \in Appts : appt[a].status = "none"

\* Every caller gets the same link, and it is the stored one.
OneLink == handed # {} /\ calendar = "present" => handed = {link}

\* Two concurrent changes of an event's ends never cross them.
EventWellFormed == event # None => event[1] < event[2]

\* An appointment is reported completed once, and only when it is completed for good.
CompletedOnce ==
    \A a \in Appts : published[a] <= 1 /\ (published[a] = 1 => appt[a].status = "completed")

\* A reminder is repeated only by sweeps that overlap, or after a message that
\* left its row unmarked: as often as sweeps run at the same time, and once more
\* for every sweep that died before the mark and every error raised after the
\* provider took the message.
RemindersBounded == \A a \in Appts : reminded[a] <= Cardinality(Sweeps) + unmarked[a]

\* No overlap of bookings, moves, deletions, deaths and provider errors books a
\* slot twice, offers one that cannot be booked, orphans an event, links an
\* appointment twice, or reminds more often than sweeps overlapped and messages
\* went unmarked (booking.py, calendars.py, reminders.py).
CalendarHolds ==
    /\ AppointmentsTypeOK
    /\ NoDoubleBooking
    /\ OfferIsBookable
    /\ NoOrphans
    /\ OneLink
    /\ EventWellFormed
    /\ CompletedOnce
    /\ RemindersBounded
===============================================================================
