------------------------- MODULE ReceptionCalendar -------------------------
(***************************************************************************)
(* Holds and appointments of the warehouse reception calendars             *)
(* (inbound/reception_calendar, and the arrival-notice operations they     *)
(* meet).  A request is one database transaction of READ COMMITTED: it     *)
(* locks rows one after another with SELECT ... FOR UPDATE, and what it    *)
(* writes is seen when it commits.  A request that locks a single row is   *)
(* one step; one that locks several is a step per lock, and a step for its *)
(* commit where time may pass between its last test and the commit.        *)
(*                                                                         *)
(* Not kept: the request's payload, snapshots, history, audit and outbox   *)
(* rows, the idempotency record, which only answers a repeated request,    *)
(* and of the four limits of a slot (appointments, pallets, packages,      *)
(* weight), tested alike, the one on the number of appointments.           *)
(***************************************************************************)
EXTENDS Integers, FiniteSets

CONSTANTS
  Calendars,
  Notices,
  Slots,
  Hours,
  Span,          \* Span[s]: the hours slot s covers
  Home,          \* Home[n]: the active calendar of the notice's warehouse
  Vehicles,
  VehicleOf,     \* VehicleOf[n]: the vehicle the notice declares, or NoVehicle
  NoVehicle,
  Workers,       \* server threads, one request each
  Limits,        \* the values max_concurrent_appointments is given
  Targets,       \* the statuses a calendar is asked to take
  Blackouts,     \* the slots a blackout is asked for
  Passing,       \* the slots whose time comes
  MaxHolds,      \* bound: holds ever created
  MaxAppointments,  \* bound: appointments ever created
  MaxRefreshes,  \* maximum_hold_refreshes
  None

Holds == 1 .. MaxHolds
Appointments == 1 .. MaxAppointments

CalendarStatuses == {"DRAFT", "ACTIVE", "INACTIVE", "ARCHIVED"}

VARIABLES
  calendar,      \* calendar[c]: status, limit and the hours blacked out
  notice,        \* notice[n]: status, its current appointment, and whether
                 \* the event of its cancellation has been enqueued
  hold,          \* hold[h]: the hold rows; `due` is expires_at <= now
  appointment,   \* appointment[a]: the appointment rows
  phase,         \* phase[s]: the slot against the clock and the cutoffs
  lock,          \* lock[r]: the worker whose transaction holds row r
  txn            \* txn[w]: the request worker w serves

vars == <<calendar, notice, hold, appointment, phase, lock, txn>>

-----------------------------------------------------------------------------
CalendarTransitions ==
  [DRAFT |-> {"ACTIVE", "ARCHIVED"}, ACTIVE |-> {"INACTIVE", "ARCHIVED"},
   INACTIVE |-> {"ACTIVE", "ARCHIVED"}, ARCHIVED |-> {}]

NoticeStatuses ==
  {"SUBMITTED", "READY_FOR_SCHEDULING", "SCHEDULED", "CONFIRMED", "CANCELLED"}

HoldStatuses == {"ACTIVE", "EXPIRED", "CANCELLED", "CONSUMED"}

\* PENDING_CONFIRMATION is tested by the code and never assigned; RESCHEDULED
\* is assigned by reschedule alone, which RescheduleUnreachable is about.
AppointmentStatuses == {"PROPOSED", "CONFIRMED", "RESCHEDULE_REQUESTED", "CANCELLED"}

CapacityStatuses == {"PROPOSED", "CONFIRMED", "RESCHEDULE_REQUESTED"}

\* The statuses in which a vehicle is committed to a slot.
CommittedStatuses == {"CONFIRMED", "RESCHEDULE_REQUESTED"}

ASSUME CalendarConstants ==
  /\ Home \in [Notices -> Calendars]
  /\ Span \in [Slots -> SUBSET Hours]
  /\ \A s \in Slots : Span[s] # {}
  /\ VehicleOf \in [Notices -> Vehicles \cup {NoVehicle}]
  /\ Limits \subseteq Nat \ {0}
  /\ Targets \subseteq CalendarStatuses /\ Blackouts \subseteq Slots /\ Passing \subseteq Slots
  /\ MaxHolds \in Nat /\ MaxAppointments \in Nat /\ MaxRefreshes \in Nat
  /\ None \notin Workers \cup Holds \cup Appointments \cup Notices \cup Calendars \cup Slots
  /\ None \notin HoldStatuses \cup AppointmentStatuses
  /\ None \notin [calendar : Calendars, slot : Slots, vehicle : Vehicles \cup {NoVehicle},
                  override : BOOLEAN]

NoHold ==
  [status |-> None, notice |-> None, calendar |-> None, slot |-> None,
   due |-> FALSE, refreshes |-> 0]

NoAppointment ==
  [status |-> None, notice |-> None, calendar |-> None, slot |-> None,
   override |-> FALSE]

Rows ==
  ({"calendar"} \X Calendars) \cup ({"notice"} \X Notices)
    \cup ({"hold"} \X Holds) \cup ({"appointment"} \X Appointments)

Idle ==
  [op |-> "none", pc |-> "idle", calendar |-> None, notice |-> None,
   hold |-> None, appointment |-> None, slot |-> None, fresh |-> FALSE,
   override |-> FALSE]

Init ==
  /\ \E l \in Limits :
       calendar = [c \in Calendars |-> [status |-> "DRAFT", limit |-> l, blackout |-> {}]]
  /\ notice = [n \in Notices |->
                 [status |-> "SUBMITTED", appointment |-> None, announced |-> FALSE]]
  /\ hold = [h \in Holds |-> NoHold]
  /\ appointment = [a \in Appointments |-> NoAppointment]
  /\ phase = [s \in Slots |-> "open"]
  /\ lock = [r \in Rows |-> None]
  /\ txn = [w \in Workers |-> Idle]

-----------------------------------------------------------------------------
(* The capacity of a slot. *)

Overlap(s, t) == Span[s] \cap Span[t] # {}

BusyAppointments(c, s) ==
  {a \in Appointments :
     /\ appointment[a].status \in CapacityStatuses
     /\ appointment[a].calendar = c
     /\ Overlap(appointment[a].slot, s)}

BusyHolds(c, s) ==
  {h \in Holds :
     /\ hold[h].status = "ACTIVE" /\ ~hold[h].due
     /\ hold[h].calendar = c
     /\ Overlap(hold[h].slot, s)}

\* The calendar works, the slot lies ahead and no blackout touches it.
SlotOpen(c, s) ==
  /\ calendar[c].status = "ACTIVE"
  /\ phase[s] # "begun"
  /\ Span[s] \cap calendar[c].blackout = {}

\* Mutant: one more than the limit.
RoomBeyondLimit(c, s, A, H) ==
  Cardinality(BusyAppointments(c, s) \ A) + Cardinality(BusyHolds(c, s) \ H)
    <= calendar[c].limit

\* Room for one more, not counting the appointments A and the holds H.
HasRoom(c, s, A, H) ==
  Cardinality(BusyAppointments(c, s) \ A) + Cardinality(BusyHolds(c, s) \ H)
    < calendar[c].limit

\* Mutant: an appointment whose rescheduling was asked no longer counts.
ConflictUnlessRequested(a) ==
  /\ VehicleOf[appointment[a].notice] # NoVehicle
  /\ \E b \in Appointments \ {a} :
       /\ appointment[b].status = "CONFIRMED"
       /\ VehicleOf[appointment[b].notice] = VehicleOf[appointment[a].notice]
       /\ Overlap(appointment[b].slot, appointment[a].slot)

\* An appointment that overlaps a's slot and has its vehicle, in any calendar.
VehicleConflict(a) ==
  /\ VehicleOf[appointment[a].notice] # NoVehicle
  /\ \E b \in Appointments \ {a} :
       /\ appointment[b].status \in CommittedStatuses
       /\ VehicleOf[appointment[b].notice] = VehicleOf[appointment[a].notice]
       /\ Overlap(appointment[b].slot, appointment[a].slot)

ActiveHoldsOf(n) == {h \in Holds : hold[h].status = "ACTIVE" /\ hold[h].notice = n}

-----------------------------------------------------------------------------
(* Transactions and row locks. *)

Free(r) == lock[r] = None

At(w, op, pc) == txn[w].op = op /\ txn[w].pc = pc

\* The holds about to become appointments.  Appointments are counted by one
\* statement and holds by the next, each in a snapshot of its own, and
\* create_appointment does not lock the calendar: a claim whose appointment is
\* committed between the two statements is in neither count.  A test of the
\* capacity may overlook any of these.
InTransit ==
  {txn[w].hold : w \in {v \in Workers : At(v, "create_appointment", "commit")}}

\* The first lock of a request.
Start(w, r, t) ==
  /\ txn[w] = Idle /\ Free(r)
  /\ lock' = [lock EXCEPT ![r] = w]
  /\ txn' = [txn EXCEPT ![w] = t]

\* A further lock.
Take(w, r, t) ==
  /\ lock' = [lock EXCEPT ![r] = w]
  /\ txn' = [txn EXCEPT ![w] = t]

\* Mutant: the connection goes back to the pool with its locks.
EndHolding(w) == txn' = [txn EXCEPT ![w] = Idle] /\ UNCHANGED lock

\* The end of a transaction, committed or rolled back.
End(w) ==
  /\ lock' = [r \in Rows |-> IF lock[r] = w THEN None ELSE lock[r]]
  /\ txn' = [txn EXCEPT ![w] = Idle]

\* An exception rolls the transaction back.
Refuse(w) == End(w) /\ UNCHANGED <<calendar, notice, hold, appointment, phase>>

\* The rows inserted so far have the lowest identifiers.
NextHold(h) ==
  hold[h].status = None /\ \A i \in 1 .. h - 1 : hold[i].status # None

NextAppointment(a) ==
  appointment[a].status = None /\ \A i \in 1 .. a - 1 : appointment[i].status # None

-----------------------------------------------------------------------------
(* create_hold: calendar, notice, then the notice's active hold if it has one. *)

CreateHold(w, n, c, s) ==
  /\ Start(w, <<"calendar", c>>,
           [Idle EXCEPT !.op = "create_hold", !.pc = "notice",
                        !.calendar = c, !.notice = n, !.slot = s])
  /\ UNCHANGED <<calendar, notice, hold, appointment, phase>>

\* The hold is inserted in the transaction of the test of the capacity; the
\* lock on the calendar keeps other holds and confirmations out meanwhile, not
\* the claims in transit.  `expired` is the notice's earlier hold, found due.
InsertHold(w, expired) ==
  LET t == txn[w] IN
  \E M \in SUBSET InTransit :
  IF /\ SlotOpen(t.calendar, t.slot)
     /\ HasRoom(t.calendar, t.slot, {}, M)
     /\ \E new \in Holds : NextHold(new)              \* the bound
  THEN /\ \E new \in Holds :
            /\ NextHold(new)
            /\ hold' = [h \in Holds |->
                 IF h = new
                 THEN [status |-> "ACTIVE", notice |-> t.notice, calendar |-> t.calendar,
                       slot |-> t.slot, due |-> FALSE, refreshes |-> 0]
                 ELSE IF h \in expired THEN [hold[h] EXCEPT !.status = "EXPIRED"]
                 ELSE hold[h]]
       /\ End(w)
       /\ UNCHANGED <<calendar, notice, appointment, phase>>
  ELSE Refuse(w)

\* The tests made once calendar c and notice n are locked.
Schedulable(c, n) ==
  /\ calendar[c].status = "ACTIVE"
  /\ c = Home[n]
  /\ notice[n].status = "READY_FOR_SCHEDULING"

CreateHoldNotice(w) ==
  LET t == txn[w] IN
  /\ At(w, "create_hold", "notice") /\ Free(<<"notice", t.notice>>)
  /\ IF ~Schedulable(t.calendar, t.notice) THEN Refuse(w)
     ELSE IF ActiveHoldsOf(t.notice) = {} THEN InsertHold(w, {})
     ELSE \E h \in ActiveHoldsOf(t.notice) :
            /\ Take(w, <<"notice", t.notice>>, [t EXCEPT !.pc = "hold", !.hold = h])
            /\ UNCHANGED <<calendar, notice, hold, appointment, phase>>

\* Mutant: the earlier hold, found due, is left ACTIVE.
CreateHoldLeavingDue(w) ==
  LET h == txn[w].hold IN
  /\ At(w, "create_hold", "hold") /\ Free(<<"hold", h>>)
  /\ IF hold[h].status # "ACTIVE" \/ hold[h].due THEN InsertHold(w, {})
     ELSE Refuse(w)

\* A row that has ceased to be ACTIVE while the query waited is not returned.
CreateHoldActive(w) ==
  LET h == txn[w].hold IN
  /\ At(w, "create_hold", "hold") /\ Free(<<"hold", h>>)
  /\ IF hold[h].status # "ACTIVE" THEN InsertHold(w, {})
     ELSE IF hold[h].due THEN InsertHold(w, {h})
     ELSE Refuse(w)

\* cancel_hold marks a hold found due EXPIRED, another one CANCELLED.
CancelHold(h) ==
  /\ Free(<<"hold", h>>) /\ hold[h].status = "ACTIVE"
  /\ hold' = [hold EXCEPT ![h].status = IF hold[h].due THEN "EXPIRED" ELSE "CANCELLED"]
  /\ UNCHANGED <<calendar, notice, appointment, phase, lock, txn>>

\* refresh_hold: hold, then calendar.  Whether the hold is due is asked once,
\* when its row is locked.
RefreshHold(w, h) ==
  /\ hold[h].status # None
  /\ Start(w, <<"hold", h>>,
           [Idle EXCEPT !.op = "refresh_hold", !.pc = "calendar", !.hold = h,
                        !.calendar = hold[h].calendar,
                        !.fresh = hold[h].status = "ACTIVE" /\ ~hold[h].due])
  /\ UNCHANGED <<calendar, notice, hold, appointment, phase>>

\* Mutants: one renewal too many, and renewals that are not counted.
RefreshOnceMore(w) ==
  LET t == txn[w] IN
  /\ At(w, "refresh_hold", "calendar") /\ Free(<<"calendar", t.calendar>>)
  /\ IF t.fresh /\ hold[t.hold].refreshes <= MaxRefreshes
     THEN /\ hold' = [hold EXCEPT ![t.hold].due = FALSE, ![t.hold].refreshes = @ + 1]
          /\ End(w)
          /\ UNCHANGED <<calendar, notice, appointment, phase>>
     ELSE Refuse(w)

RefreshUncounted(w) ==
  LET t == txn[w] IN
  /\ At(w, "refresh_hold", "calendar") /\ Free(<<"calendar", t.calendar>>)
  /\ IF t.fresh
     THEN /\ hold' = [hold EXCEPT ![t.hold].due = FALSE]
          /\ End(w)
          /\ UNCHANGED <<calendar, notice, appointment, phase>>
     ELSE Refuse(w)

RefreshHoldCalendar(w) ==
  LET t == txn[w] IN
  /\ At(w, "refresh_hold", "calendar") /\ Free(<<"calendar", t.calendar>>)
  /\ IF t.fresh /\ hold[t.hold].refreshes < MaxRefreshes
     THEN /\ hold' = [hold EXCEPT ![t.hold].due = FALSE, ![t.hold].refreshes = @ + 1]
          /\ End(w)
          /\ UNCHANGED <<calendar, notice, appointment, phase>>
     ELSE Refuse(w)

-----------------------------------------------------------------------------
(* create_appointment: hold, then notice; the calendar is not locked.      *)

CreateAppointment(w, h, n) ==
  /\ hold[h].status # None
  /\ Start(w, <<"hold", h>>,
           [Idle EXCEPT !.op = "create_appointment", !.pc = "notice",
                        !.hold = h, !.notice = n])
  /\ UNCHANGED <<calendar, notice, hold, appointment, phase>>

AlreadyBooked(n) ==
  /\ notice[n].appointment # None
  /\ appointment[notice[n].appointment].status # "CANCELLED"

\* The status of the notice is not looked at.
CreateAppointmentNotice(w) ==
  LET t == txn[w] IN
  /\ At(w, "create_appointment", "notice") /\ Free(<<"notice", t.notice>>)
  /\ IF \/ hold[t.hold].status # "ACTIVE" \/ hold[t.hold].due
        \/ hold[t.hold].notice # t.notice
        \/ AlreadyBooked(t.notice)
     THEN Refuse(w)
     ELSE /\ Take(w, <<"notice", t.notice>>, [t EXCEPT !.pc = "commit"])
          /\ UNCHANGED <<calendar, notice, hold, appointment, phase>>

\* Mutant: the hold is left as it was.
KeepHold(h) == UNCHANGED hold

\* The hold is used up: it can make no second appointment.
Consume(h) == hold' = [hold EXCEPT ![h].status = "CONSUMED"]

CreateAppointmentCommit(w) ==
  LET t == txn[w] IN
  /\ At(w, "create_appointment", "commit")
  /\ IF \A a \in Appointments : ~NextAppointment(a)    \* the bound
     THEN Refuse(w)
     ELSE /\ \E a \in Appointments :
               /\ NextAppointment(a)
               /\ appointment' = [appointment EXCEPT ![a] =
                    [status |-> "PROPOSED", notice |-> t.notice,
                     calendar |-> hold[t.hold].calendar,
                     slot |-> hold[t.hold].slot, override |-> FALSE]]
               /\ notice' = [notice EXCEPT ![t.notice].status = "SCHEDULED",
                                           ![t.notice].appointment = a]
          /\ Consume(t.hold)
          /\ End(w)
          /\ UNCHANGED <<calendar, phase>>

-----------------------------------------------------------------------------
(* confirm: appointment, calendar, then notice.                            *)

\* x is the hold the request asks not to count, o an override of the capacity.
Confirm(w, a, x, o) ==
  /\ appointment[a].status = "PROPOSED"
  /\ Start(w, <<"appointment", a>>,
           [Idle EXCEPT !.op = "confirm", !.pc = "calendar", !.appointment = a,
                        !.calendar = appointment[a].calendar,
                        !.notice = appointment[a].notice,
                        !.hold = x, !.override = o])
  /\ UNCHANGED <<calendar, notice, hold, appointment, phase>>

\* Mutant: the hold left out of the count is locked as well, after the calendar.
ConfirmThenHold(w) ==
  LET t == txn[w]  slot == appointment[t.appointment].slot IN
  /\ At(w, "confirm", "calendar") /\ Free(<<"calendar", t.calendar>>)
  /\ \E M \in SUBSET InTransit :
     IF /\ SlotOpen(t.calendar, slot)
        /\ t.override \/ HasRoom(t.calendar, slot, {t.appointment}, {t.hold} \cup M)
        /\ ~VehicleConflict(t.appointment)
     THEN /\ Take(w, <<"calendar", t.calendar>>,
                  [t EXCEPT !.pc = IF t.hold = None THEN "notice" ELSE "hold"])
          /\ UNCHANGED <<calendar, notice, hold, appointment, phase>>
     ELSE Refuse(w)

ConfirmCalendar(w) ==
  LET t == txn[w]  slot == appointment[t.appointment].slot IN
  /\ At(w, "confirm", "calendar") /\ Free(<<"calendar", t.calendar>>)
  /\ \E M \in SUBSET InTransit :
     IF /\ SlotOpen(t.calendar, slot)
        /\ t.override \/ HasRoom(t.calendar, slot, {t.appointment}, {t.hold} \cup M)
        /\ ~VehicleConflict(t.appointment)
     THEN /\ Take(w, <<"calendar", t.calendar>>, [t EXCEPT !.pc = "notice", !.hold = None])
          /\ UNCHANGED <<calendar, notice, hold, appointment, phase>>
     ELSE Refuse(w)

\* The status of the notice is not looked at.
ConfirmNotice(w) ==
  LET t == txn[w] IN
  /\ At(w, "confirm", "notice") /\ Free(<<"notice", t.notice>>)
  /\ appointment' = [appointment EXCEPT ![t.appointment].status = "CONFIRMED",
                                        ![t.appointment].override = t.override]
  /\ notice' = [notice EXCEPT ![t.notice].status = "CONFIRMED"]
  /\ End(w)
  /\ UNCHANGED <<calendar, hold, phase>>

RequestReschedule(a) ==
  /\ Free(<<"appointment", a>>) /\ appointment[a].status = "CONFIRMED"
  /\ appointment' = [appointment EXCEPT ![a].status = "RESCHEDULE_REQUESTED"]
  /\ UNCHANGED <<calendar, notice, hold, phase, lock, txn>>

\* What reschedule asks of the appointment it replaces and of the new hold.
CanReschedule(a, h) ==
  /\ appointment[a].status \in CommittedStatuses
  /\ hold[h].status = "ACTIVE"
  /\ hold[h].notice = appointment[a].notice

\* cancel: appointment, then notice; a confirmed one not within the cutoff.
Cancel(w, a) ==
  /\ appointment[a].status \in CapacityStatuses
  /\ appointment[a].status = "CONFIRMED" => phase[appointment[a].slot] = "open"
  /\ Start(w, <<"appointment", a>>,
           [Idle EXCEPT !.op = "cancel", !.pc = "notice", !.appointment = a,
                        !.notice = appointment[a].notice])
  /\ UNCHANGED <<calendar, notice, hold, appointment, phase>>

CancelNoticeRow(w) ==
  LET t == txn[w] IN
  /\ At(w, "cancel", "notice") /\ Free(<<"notice", t.notice>>)
  /\ appointment' = [appointment EXCEPT ![t.appointment].status = "CANCELLED"]
  /\ notice' = IF notice[t.notice].appointment = t.appointment
               THEN [notice EXCEPT ![t.notice].status = "READY_FOR_SCHEDULING"]
               ELSE notice
  /\ End(w)
  /\ UNCHANGED <<calendar, hold, phase>>

-----------------------------------------------------------------------------
(* Operations on one row. *)

\* transition of a notice, validated for confirmation.
MarkReady(n) ==
  /\ Free(<<"notice", n>>) /\ notice[n].status = "SUBMITTED"
  /\ notice' = [notice EXCEPT ![n].status = "READY_FOR_SCHEDULING"]
  /\ UNCHANGED <<calendar, hold, appointment, phase, lock, txn>>

\* The key of the event of a cancellation is unique: a second one of the same
\* notice fails, and is rolled back.
CancelNotice(n) ==
  /\ Free(<<"notice", n>>) /\ notice[n].status # "CANCELLED"
  /\ ~notice[n].announced
  /\ notice' = [notice EXCEPT ![n].status = "CANCELLED", ![n].announced = TRUE]
  /\ UNCHANGED <<calendar, hold, appointment, phase, lock, txn>>

TransitionCalendar(c, target) ==
  /\ Free(<<"calendar", c>>)
  /\ target \in CalendarTransitions[calendar[c].status]
  /\ calendar' = [calendar EXCEPT ![c].status = target]
  /\ UNCHANGED <<notice, hold, appointment, phase, lock, txn>>

UpdateCalendar(c, l) ==
  /\ Free(<<"calendar", c>>) /\ calendar[c].status # "ARCHIVED"
  /\ calendar' = [calendar EXCEPT ![c].limit = l]
  /\ UNCHANGED <<notice, hold, appointment, phase, lock, txn>>

\* A blackout may cover appointments already made.
AddBlackout(c, s) ==
  /\ Free(<<"calendar", c>>) /\ calendar[c].status # "ARCHIVED"
  /\ calendar' = [calendar EXCEPT ![c].blackout = @ \cup Span[s]]
  /\ UNCHANGED <<notice, hold, appointment, phase, lock, txn>>

\* expire_reception_holds: every due hold whose row nobody has locked.
ExpireHolds ==
  LET found == {h \in Holds : /\ hold[h].status = "ACTIVE" /\ hold[h].due
                              /\ Free(<<"hold", h>>)} IN
  /\ found # {}
  /\ hold' = [h \in Holds |-> IF h \in found THEN [hold[h] EXCEPT !.status = "EXPIRED"]
                              ELSE hold[h]]
  /\ UNCHANGED <<calendar, notice, appointment, phase, lock, txn>>

-----------------------------------------------------------------------------
(* Time, deadlocks and lost connections. *)

HoldComesDue(h) ==
  /\ hold[h].status = "ACTIVE" /\ ~hold[h].due
  /\ hold' = [hold EXCEPT ![h].due = TRUE]
  /\ UNCHANGED <<calendar, notice, appointment, phase, lock, txn>>

TimePasses(s) ==
  /\ phase[s] # "begun"
  /\ phase' = [phase EXCEPT ![s] = IF @ = "open" THEN "cutoff" ELSE "begun"]
  /\ UNCHANGED <<calendar, notice, hold, appointment, lock, txn>>

\* The row a transaction waits for, and the transactions that wait for one.
Wanted(w) == <<txn[w].pc, txn[w][txn[w].pc]>>

Waiting == {w \in Workers : txn[w].pc \in {"calendar", "notice", "hold"}}

WaitsFor(w, v) == w \in Waiting /\ lock[Wanted(w)] = v

\* Sets of transactions each of which waits for another and is waited for.
Cyclic(C) ==
  /\ C # {}
  /\ \A w \in C : (\E v \in C : WaitsFor(w, v)) /\ (\E v \in C : WaitsFor(v, w))

\* The database rolls back one transaction of a cycle.
DeadlockVictim(w) ==
  /\ \E C \in SUBSET Workers : w \in C /\ Cyclic(C)
  /\ Refuse(w)

\* A worker dies or loses its connection.
Crash(w) == txn[w] # Idle /\ Refuse(w)

-----------------------------------------------------------------------------
Serve(w) ==
  \/ \E n \in Notices, c \in Calendars, s \in Slots : CreateHold(w, n, c, s)
  \/ \E h \in Holds : RefreshHold(w, h)
  \/ \E h \in Holds, n \in Notices : CreateAppointment(w, h, n)
  \/ \E a \in Appointments, x \in Holds \cup {None}, o \in BOOLEAN : Confirm(w, a, x, o)
  \/ \E a \in Appointments : Cancel(w, a)

Advance(w) ==
  \/ CreateHoldNotice(w) \/ CreateHoldActive(w)
  \/ RefreshHoldCalendar(w)
  \/ CreateAppointmentNotice(w) \/ CreateAppointmentCommit(w)
  \/ ConfirmCalendar(w) \/ ConfirmNotice(w)
  \/ CancelNoticeRow(w)
  \/ DeadlockVictim(w)

Next ==
  \/ \E w \in Workers : Serve(w) \/ Advance(w) \/ Crash(w)
  \/ \E h \in Holds : CancelHold(h) \/ HoldComesDue(h)
  \/ \E a \in Appointments : RequestReschedule(a)
  \/ \E n \in Notices : MarkReady(n) \/ CancelNotice(n)
  \/ \E c \in Calendars :
       \/ \E target \in Targets : TransitionCalendar(c, target)
       \/ \E l \in Limits : UpdateCalendar(c, l)
       \/ \E s \in Blackouts : AddBlackout(c, s)
  \/ \E s \in Passing : TimePasses(s)
  \/ ExpireHolds

Spec == Init /\ [][Next]_vars

\* A lock queue serves the transactions that wait in turn, a request that has
\* its locks goes on, the database breaks cycles, and time passes.
Fairness ==
  /\ \A w \in Workers : SF_vars(Advance(w))
  /\ \A h \in Holds : WF_vars(HoldComesDue(h))

FairSpec == Spec /\ Fairness

-----------------------------------------------------------------------------
CalendarRow == [status : CalendarStatuses, limit : Limits, blackout : SUBSET Hours]

NoticeRow ==
  [status : NoticeStatuses, appointment : Appointments \cup {None}, announced : BOOLEAN]

HoldRow ==
  [status : HoldStatuses \cup {None}, notice : Notices \cup {None},
   calendar : Calendars \cup {None}, slot : Slots \cup {None},
   due : BOOLEAN, refreshes : 0 .. MaxRefreshes]

AppointmentRow ==
  [status : AppointmentStatuses \cup {None}, notice : Notices \cup {None},
   calendar : Calendars \cup {None}, slot : Slots \cup {None}, override : BOOLEAN]

Request ==
  [op : {"none", "create_hold", "refresh_hold", "create_appointment", "confirm", "cancel"},
   pc : {"idle", "calendar", "notice", "hold", "commit"},
   calendar : Calendars \cup {None}, notice : Notices \cup {None},
   hold : Holds \cup {None}, appointment : Appointments \cup {None},
   slot : Slots \cup {None}, fresh : BOOLEAN, override : BOOLEAN]

TypeOK ==
  /\ calendar \in [Calendars -> CalendarRow]
  /\ notice \in [Notices -> NoticeRow]
  /\ hold \in [Holds -> HoldRow]
  /\ appointment \in [Appointments -> AppointmentRow]
  /\ phase \in [Slots -> {"open", "cutoff", "begun"}]
  /\ lock \in [Rows -> Workers \cup {None}]
  /\ txn \in [Workers -> Request]

LiveAppointmentsOf(n) ==
  {a \in Appointments :
     appointment[a].status \in CapacityStatuses /\ appointment[a].notice = n}

\* A notice claims capacity once: through one active hold or through one live
\* appointment, never both and never two, although create_hold and
\* create_appointment lock in different orders and only one of them locks the
\* calendar (appointment_service.py:144, :302).
OneClaimPerNotice ==
  \A n \in Notices :
    /\ \A h, i \in ActiveHoldsOf(n) : h = i
    /\ \A a, b \in LiveAppointmentsOf(n) : a = b
    /\ ActiveHoldsOf(n) = {} \/ LiveAppointmentsOf(n) = {}

\* The conditions reschedule puts on its appointment and its hold are never
\* met together: a hold is given to a notice READY_FOR_SCHEDULING, and one with
\* a confirmed appointment is not (appointment_service.py:180, :646).
RescheduleUnreachable ==
  \A a \in Appointments, h \in Holds : ~CanReschedule(a, h)

\* Two appointments of one calendar that are committed to the same vehicle do
\* not overlap, whichever confirmations run at once (appointment_service.py:506).
VehicleOncePerCalendar ==
  \A a, b \in Appointments :
    /\ a # b
    /\ {appointment[a].status, appointment[b].status} \subseteq CommittedStatuses
    /\ appointment[a].calendar = appointment[b].calendar
    /\ VehicleOf[appointment[a].notice] = VehicleOf[appointment[b].notice]
    /\ VehicleOf[appointment[a].notice] # NoVehicle
    => ~Overlap(appointment[a].slot, appointment[b].slot)

\* The requests lock their rows in different orders; every deadlock among them
\* has a create_hold in it (appointment_service.py:162 and :274).
DeadlockNeedsNewHold ==
  \A C \in SUBSET Workers :
    Cyclic(C) => \E w \in C : txn[w].op = "create_hold"

\* A cancelled notice stays cancelled, as the state machine of the notices has
\* it; create_appointment, confirm and cancel assign its status without it.
CancelledIsFinal ==
  [][\A n \in Notices :
       notice[n].status = "CANCELLED" => notice'[n].status = "CANCELLED"]_vars

\* A request that holds locks comes to its end: it commits, is refused, or is
\* the victim of a deadlock.
RequestEnds == \A w \in Workers : txn[w] # Idle ~> txn[w] = Idle

\* No hold keeps capacity from others for ever: renewals are counted
\* (appointment_service.py:282).
HoldReleasesSlot ==
  \A h \in Holds : <>[]~(hold[h].status = "ACTIVE" /\ ~hold[h].due)

-----------------------------------------------------------------------------
(* The confirmed appointments are a SlotBook. *)

BookingOf(a) ==
  [calendar |-> appointment[a].calendar, slot |-> appointment[a].slot,
   vehicle |-> VehicleOf[appointment[a].notice], override |-> appointment[a].override]

Confirmed == {a \in Appointments : appointment[a].status \in CommittedStatuses}

\* The appointments confirmed within the capacity of calendar c for hour h.
Expected(c, h) ==
  {a \in Confirmed :
     /\ ~appointment[a].override
     /\ appointment[a].calendar = c /\ h \in Span[appointment[a].slot]}

\* However its limit is changed meanwhile, a calendar expects no more
\* appointments at one hour than the greatest limit allows, apart from those
\* confirmed over its capacity (appointment_service.py:496).
HoursWithin(most) ==
  \A c \in Calendars, h \in Hours : Cardinality(Expected(c, h)) <= most

Book == INSTANCE SlotBook WITH
          book <- [a \in Appointments |->
                     IF a \in Confirmed THEN BookingOf(a) ELSE None],
          limit <- [c \in Calendars |-> calendar[c].limit]

\* Confirming respects the limit in force and the vehicles already expected,
\* for every interleaving of holds, proposals, confirmations and cancellations.
ImplementsSlotBook == Book!Spec
=============================================================================
