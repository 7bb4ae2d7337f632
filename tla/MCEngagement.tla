------------------------------ MODULE MCEngagement ------------------------------
(***************************************************************************)
(* A campaign, a calendar and the reviews of a tenant, for TLC.  A         *)
(* behaviour moves one of them, and the run checks the sum of their states.*)
(***************************************************************************)
EXTENDS Campaign, Appointments, Reputation, TLC

CONSTANTS a1, a2, b1, b2, e1, e2, f1, f2, c1, c2

MCFirstContacts == <<c1>>

\* The components have no identifiers in common, so the same pairs of values serve
\* all of them, and permute in each.
Symmetry ==
    Permutations({a1, a2}) \union Permutations({b1, b2})
    \union Permutations({e1, e2}) \union Permutations({f1, f2})

VARIABLE focus

mcVars == <<focus, campaignVars, appointmentVars, reputationVars>>

MCInit ==
    /\ focus \in {"campaign", "calendar", "booking", "reminders", "reviews"}
    /\ CampaignInit /\ AppointmentsInit /\ ReputationInit

Bookings == \E a \in Appts, r \in Ranges : Book(a, r)

\* One appointment at a time is cancelled or moved while reminders are sent.
Changes ==
    \E q \in Requests :
        \/ /\ \A p \in Requests : request[p].pc = "idle"
           /\ \E a \in Appts, op \in {"cancel", "reschedule"}, r \in Ranges : LockRow(q, a, op, r)
        \/ Cancel(q) \/ Reschedule(q) \/ RescheduleRefused(q)

AppointmentSteps ==
    \/ focus = "calendar" /\ (CalendarNext \/ Bookings)
    \/ focus = "booking" /\ ((\E r \in Ranges : CreateRule(r)) \/ BookingNext)
    \/ focus = "reminders" /\ (RemindersNext \/ Bookings \/ Changes)

MCNext ==
    /\ UNCHANGED focus
    /\ \/ focus = "campaign" /\ CampaignNext /\ UNCHANGED <<appointmentVars, reputationVars>>
       \/ AppointmentSteps /\ UNCHANGED <<campaignVars, reputationVars>>
       \/ focus = "reviews" /\ ReputationNext /\ UNCHANGED <<campaignVars, appointmentVars>>

MCSpec == MCInit /\ [][MCNext]_mcVars
===============================================================================
