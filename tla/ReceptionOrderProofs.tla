------------------------ MODULE ReceptionOrderProofs ------------------------
(***************************************************************************)
(* What follows from ReceptionInv about the steps of ReceptionCalendar:    *)
(* the order in which its requests lock their rows leaves a deadlock only  *)
(* to create_hold, and its confirmed appointments are a SlotBook.          *)
(***************************************************************************)
EXTENDS ReceptionProofs

LEMMA AccountedAtEnd ==
  ASSUME NEW w \in Workers, ReceptionInv, LocksAccounted, End(w)
  PROVE  LocksAccounted'
<1>1. txn' = [txn EXCEPT ![w] = Idle] /\ txn \in [Workers -> Request]
  BY DEF End, ReceptionInv, TypeOK
<1>2. \A v \in Workers, r \in Rows : lock'[r] = v => v # w /\ lock[r] = v
  BY CalendarConstants DEF End
<1>3. \A v \in Workers \ {w} : txn'[v] = txn[v]
  BY <1>1
<1> QED
  BY <1>2, <1>3 DEF LocksAccounted

LEMMA AccountedAtTake ==
  ASSUME NEW w \in Workers, ReceptionInv, LocksAccounted,
         NEW r \in Rows, NEW t, Take(w, r, t),
         \A q \in Rows : q \in Held(txn[w]) \cup {r} => q \in Held(t)
  PROVE  LocksAccounted'
<1>1. txn \in [Workers -> Request] /\ lock \in [Rows -> Workers \cup {None}]
  BY DEF ReceptionInv, TypeOK
<1>2. txn'[w] = t /\ \A v \in Workers \ {w} : txn'[v] = txn[v]
  BY <1>1 DEF Take
<1>3. lock'[r] = w /\ \A q \in Rows \ {r} : lock'[q] = lock[q]
  BY <1>1 DEF Take
<1> SUFFICES ASSUME NEW v \in Workers, NEW q \in Rows, lock'[q] = v
             PROVE  q \in Held(txn'[v])
  BY DEF LocksAccounted
<1>4. CASE v = w
  BY <1>2, <1>3, <1>4 DEF LocksAccounted
<1>5. CASE v # w
  BY <1>2, <1>3, <1>5 DEF LocksAccounted
<1> QED
  BY <1>4, <1>5

\* The first lock of a request is the only one it has.
LEMMA AccountedAtStart ==
  ASSUME NEW w \in Workers, ReceptionInv, LocksAccounted,
         NEW r \in Rows, NEW t, Start(w, r, t), r \in Held(t)
  PROVE  LocksAccounted'
<1>1. Take(w, r, t) /\ txn[w] = Idle
  BY DEF Start, Take
<1>2. Held(Idle) = {}
  BY DEF Held, Idle
<1> QED
  BY <1>1, <1>2, AccountedAtTake

LEMMA AccountedByServe ==
  ASSUME NEW w \in Workers, ReceptionInv, LocksAccounted, Serve(w)
  PROVE  LocksAccounted'
<1>1. ASSUME NEW n \in Notices, NEW c \in Calendars, NEW s \in Slots, CreateHold(w, n, c, s)
      PROVE  LocksAccounted'
  <2> DEFINE t == [Idle EXCEPT !.op = "create_hold", !.pc = "notice",
                               !.calendar = c, !.notice = n, !.slot = s]
  <2>1. t.op = "create_hold" /\ t.calendar = c
    BY DEF Idle
  <2>2. Start(w, <<"calendar", c>>, t)
    BY <1>1 DEF CreateHold
  <2> HIDE DEF t
  <2>3. <<"calendar", c>> \in Held(t)
    BY <2>1 DEF Held
  <2> QED
    BY <2>2, <2>3, RowMember, AccountedAtStart
<1>2. ASSUME NEW h \in Holds, RefreshHold(w, h)
      PROVE  LocksAccounted'
  <2>0. PICK c : c = hold[h].calendar
    OBVIOUS
  <2>1. PICK f \in BOOLEAN : f = (hold[h].status = "ACTIVE" /\ ~hold[h].due)
    OBVIOUS
  <2> DEFINE t == [Idle EXCEPT !.op = "refresh_hold", !.pc = "calendar", !.hold = h,
                               !.calendar = c, !.fresh = f]
  <2>2. t.op = "refresh_hold" /\ t.hold = h
    BY DEF Idle
  <2>3. Start(w, <<"hold", h>>, t)
    BY <1>2, <2>0, <2>1 DEF RefreshHold
  <2> HIDE DEF t
  <2>4. <<"hold", h>> \in Held(t)
    BY <2>2 DEF Held
  <2> QED
    BY <2>3, <2>4, RowMember, AccountedAtStart
<1>3. ASSUME NEW h \in Holds, NEW n \in Notices, CreateAppointment(w, h, n)
      PROVE  LocksAccounted'
  <2> DEFINE t == [Idle EXCEPT !.op = "create_appointment", !.pc = "notice",
                               !.hold = h, !.notice = n]
  <2>1. t.op = "create_appointment" /\ t.hold = h
    BY DEF Idle
  <2>2. Start(w, <<"hold", h>>, t)
    BY <1>3 DEF CreateAppointment
  <2> HIDE DEF t
  <2>3. <<"hold", h>> \in Held(t)
    BY <2>1 DEF Held
  <2> QED
    BY <2>2, <2>3, RowMember, AccountedAtStart
<1>4. ASSUME NEW a \in Appointments, NEW x \in Holds \cup {None}, NEW o \in BOOLEAN,
             Confirm(w, a, x, o)
      PROVE  LocksAccounted'
  <2>1. PICK c, n : c = appointment[a].calendar /\ n = appointment[a].notice
    OBVIOUS
  <2> DEFINE t == [Idle EXCEPT !.op = "confirm", !.pc = "calendar", !.appointment = a,
                               !.calendar = c, !.notice = n, !.hold = x, !.override = o]
  <2>2. t.op = "confirm" /\ t.appointment = a
    BY DEF Idle
  <2>3. Start(w, <<"appointment", a>>, t)
    BY <1>4, <2>1 DEF Confirm
  <2> HIDE DEF t
  <2>4. <<"appointment", a>> \in Held(t)
    BY <2>2 DEF Held
  <2> QED
    BY <2>3, <2>4, RowMember, AccountedAtStart
<1>5. ASSUME NEW a \in Appointments, Cancel(w, a)
      PROVE  LocksAccounted'
  <2>1. PICK n : n = appointment[a].notice
    OBVIOUS
  <2> DEFINE t == [Idle EXCEPT !.op = "cancel", !.pc = "notice", !.appointment = a,
                               !.notice = n]
  <2>2. t.op = "cancel" /\ t.appointment = a
    BY DEF Idle
  <2>3. Start(w, <<"appointment", a>>, t)
    BY <1>5, <2>1 DEF Cancel
  <2> HIDE DEF t
  <2>4. <<"appointment", a>> \in Held(t)
    BY <2>2 DEF Held
  <2> QED
    BY <2>3, <2>4, RowMember, AccountedAtStart
<1> QED
  BY <1>1, <1>2, <1>3, <1>4, <1>5 DEF Serve

LEMMA AccountedByAdvance ==
  ASSUME NEW w \in Workers, ReceptionInv, LocksAccounted, Advance(w)
  PROVE  LocksAccounted'
<1>0. ASSUME End(w)
      PROVE  LocksAccounted'
  BY <1>0, AccountedAtEnd
<1>1. PICK t \in Request : t = txn[w]
  BY RelyAt
<1>2. CASE CreateHoldNotice(w)
  <2>1. CASE End(w)
    BY <1>0, <2>1
  <2>2. CASE ~End(w)
    <3>1. PICK h \in Holds :
            Take(w, <<"notice", t.notice>>, [t EXCEPT !.pc = "hold", !.hold = h])
      BY <1>1, <1>2, <2>2 DEF CreateHoldNotice, Refuse, InsertHold, ActiveHoldsOf
    <3> DEFINE u == [t EXCEPT !.pc = "hold", !.hold = h]
    <3>2. t.op = "create_hold" /\ t.pc = "notice" /\ t.notice \in Notices
      BY <1>1, <1>2, RelyAt DEF CreateHoldNotice, At, CreatingHold
    <3>3. u.op = "create_hold" /\ u.pc = "hold" /\ u.calendar = t.calendar /\ u.notice = t.notice
      BY <3>2 DEF Request
    <3>4. Take(w, <<"notice", t.notice>>, u)
      BY <3>1
    <3> HIDE DEF u
    <3>5. \A q \in Rows : q \in Held(t) \cup {<<"notice", t.notice>>} => q \in Held(u)
      BY <3>2, <3>3 DEF Held
    <3> QED
      BY <1>1, <3>2, <3>4, <3>5, RowMember, AccountedAtTake
  <2> QED
    BY <2>1, <2>2
<1>3. CASE CreateHoldActive(w)
  BY <1>0, <1>3 DEF CreateHoldActive, Refuse, InsertHold
<1>4. CASE RefreshHoldCalendar(w)
  BY <1>0, <1>4 DEF RefreshHoldCalendar, Refuse
<1>5. CASE CreateAppointmentNotice(w)
  <2>1. CASE End(w)
    BY <1>0, <2>1
  <2>2. CASE ~End(w)
    <3> DEFINE u == [t EXCEPT !.pc = "commit"]
    <3>1. Take(w, <<"notice", t.notice>>, u)
      BY <1>1, <1>5, <2>2 DEF CreateAppointmentNotice, Refuse
    <3>2. t.op = "create_appointment" /\ t.pc = "notice" /\ t.notice \in Notices
      BY <1>1, <1>5, RelyAt DEF CreateAppointmentNotice, At, CreatingAppointment
    <3>3. u.op = "create_appointment" /\ u.pc = "commit" /\ u.hold = t.hold /\ u.notice = t.notice
      BY <3>2 DEF Request
    <3> HIDE DEF u
    <3>4. \A q \in Rows : q \in Held(t) \cup {<<"notice", t.notice>>} => q \in Held(u)
      BY <3>2, <3>3 DEF Held
    <3> QED
      BY <1>1, <3>1, <3>2, <3>4, RowMember, AccountedAtTake
  <2> QED
    BY <2>1, <2>2
<1>6. CASE CreateAppointmentCommit(w)
  BY <1>0, <1>6 DEF CreateAppointmentCommit, Refuse
<1>7. CASE ConfirmCalendar(w)
  <2>1. CASE End(w)
    BY <1>0, <2>1
  <2>2. CASE ~End(w)
    <3> DEFINE u == [t EXCEPT !.pc = "notice", !.hold = None]
    <3>1. Take(w, <<"calendar", t.calendar>>, u)
      BY <1>1, <1>7, <2>2 DEF ConfirmCalendar, Refuse
    <3>2. t.op = "confirm" /\ t.pc = "calendar" /\ t.calendar \in Calendars
      BY <1>1, <1>7, RelyAt DEF ConfirmCalendar, At, Confirming
    <3>3. /\ u.op = "confirm" /\ u.pc = "notice" /\ u.appointment = t.appointment
          /\ u.calendar = t.calendar
      BY <3>2 DEF Request
    <3> HIDE DEF u
    <3>4. \A q \in Rows : q \in Held(t) \cup {<<"calendar", t.calendar>>} => q \in Held(u)
      BY <3>2, <3>3 DEF Held
    <3> QED
      BY <1>1, <3>1, <3>2, <3>4, RowMember, AccountedAtTake
  <2> QED
    BY <2>1, <2>2
<1>8. CASE ConfirmNotice(w)
  BY <1>0, <1>8 DEF ConfirmNotice
<1>9. CASE CancelNoticeRow(w)
  BY <1>0, <1>9 DEF CancelNoticeRow
<1>10. CASE DeadlockVictim(w)
  BY <1>0, <1>10 DEF DeadlockVictim, Refuse
<1> QED
  BY <1>2, <1>3, <1>4, <1>5, <1>6, <1>7, <1>8, <1>9, <1>10 DEF Advance

\* Every lock is accounted for by the position of the request that holds it.
THEOREM LocksAreAccounted == Spec => [](ReceptionInv /\ LocksAccounted)
<1>1. Init => LocksAccounted
  BY CalendarConstants DEF Init, LocksAccounted
<1>2. ReceptionInv /\ LocksAccounted /\ [Next]_vars => LocksAccounted'
  <2> SUFFICES ASSUME ReceptionInv, LocksAccounted, [Next]_vars
               PROVE  LocksAccounted'
    OBVIOUS
  <2>1. CASE UNCHANGED <<lock, txn>>
    BY <2>1 DEF LocksAccounted
  <2>2. ASSUME NEW w \in Workers, Serve(w) \/ Advance(w) \/ Crash(w)
        PROVE  LocksAccounted'
    BY <2>2, AccountedByServe, AccountedByAdvance, AccountedAtEnd DEF Crash, Refuse
  <2> QED
    BY <2>1, <2>2
    DEF Next, vars, CancelHold, HoldComesDue, RequestReschedule, MarkReady, CancelNotice,
        TransitionCalendar, UpdateCalendar, AddBlackout, TimePasses, ExpireHolds
<1> QED
  BY <1>1, <1>2, ReceptionInit, ReceptionNext, PTL DEF Spec

LEMMA WantedRow ==
  ASSUME NEW w \in Workers, ReceptionInv, txn[w].pc \in {"calendar", "notice"}
  PROVE  /\ txn[w].pc = "calendar" => Wanted(w) = <<"calendar", txn[w].calendar>>
         /\ txn[w].pc = "notice" => Wanted(w) = <<"notice", txn[w].notice>>
  BY DEF Wanted

\* What a waiting request other than create_hold wants, and what it has.
LEMMA WaitingOthers ==
  ASSUME NEW w \in Waiting, ReceptionInv, txn[w].op # "create_hold"
  PROVE  /\ txn[w].pc \in {"calendar", "notice"} /\ Wanted(w) \in Rows
         /\ \A q \in Held(txn[w]) :
              q[1] # "notice" /\ (q[1] = "calendar" => txn[w].pc = "notice")
<1>1. w \in Workers /\ txn[w].pc \in {"calendar", "notice", "hold"}
  BY DEF Waiting
<1>2. Relies(w, txn[w])
  BY <1>1 DEF ReceptionInv, RequestsRely
<1>3. txn[w] # Idle
  BY <1>1 DEF Idle
<1>4. /\ txn[w].op \in {"refresh_hold", "create_appointment", "confirm", "cancel"}
      /\ txn[w].pc \in {"calendar", "notice"}
      /\ txn[w].pc = "calendar" => txn[w].calendar \in Calendars
      /\ txn[w].pc = "notice" => txn[w].notice \in Notices
  BY <1>1, <1>2, <1>3
  DEF Relies, RefreshingHold, CreatingAppointment, Confirming, Cancelling
<1>5. Wanted(w) \in Rows
  BY <1>1, <1>4, WantedRow, RowMember
<1>6. \A q \in Held(txn[w]) :
        q[1] # "notice" /\ (q[1] = "calendar" => txn[w].pc = "notice")
  BY <1>4 DEF Held
<1> QED
  BY <1>4, <1>5, <1>6

LEMMA CyclesNeedNewHold ==
  ReceptionInv /\ LocksAccounted => DeadlockNeedsNewHold
<1> SUFFICES ASSUME ReceptionInv, LocksAccounted, NEW C \in SUBSET Workers, Cyclic(C),
                    \A w \in C : txn[w].op # "create_hold"
             PROVE  FALSE
  BY DEF DeadlockNeedsNewHold
<1>1. \A w \in C : w \in Waiting
  BY DEF Cyclic, WaitsFor
<1>2. ASSUME NEW v \in C, NEW u \in C, WaitsFor(v, u)
      PROVE  txn[v].pc = "calendar" /\ txn[u].pc = "notice"
  <2>1. /\ txn[v].pc \in {"calendar", "notice"} /\ Wanted(v) \in Rows
        /\ \A q \in Held(txn[u]) :
             q[1] # "notice" /\ (q[1] = "calendar" => txn[u].pc = "notice")
    BY <1>1, WaitingOthers
  <2>2. Wanted(v) \in Held(txn[u])
    BY <1>2, <2>1 DEF WaitsFor, LocksAccounted
  <2>3. /\ txn[v].pc = "calendar" => Wanted(v)[1] = "calendar"
        /\ txn[v].pc = "notice" => Wanted(v)[1] = "notice"
    BY <2>1, WantedRow
  <2> QED
    BY <2>1, <2>2, <2>3
<1>3. PICK w \in C : TRUE
  BY DEF Cyclic
<1>4. PICK v \in C : WaitsFor(w, v)
  BY DEF Cyclic
<1>5. PICK u \in C : WaitsFor(v, u)
  BY DEF Cyclic
<1> QED
  BY <1>2, <1>4, <1>5

\* However many requests run at once, a deadlock among them has a create_hold
\* in it: the other operations lock their rows in an order of their own.
THEOREM DeadlocksNeedANewHold == Spec => []DeadlockNeedsNewHold
  BY CyclesNeedNewHold, LocksAreAccounted, PTL

-----------------------------------------------------------------------------
(* The confirmed appointments implement SlotBook. *)

\* Steps that neither confirm nor withdraw an appointment, nor set a limit.
LEMMA BookUnchanged ==
  ASSUME \A a \in Appointments :
           /\ appointment'[a].status \in CommittedStatuses <=>
                appointment[a].status \in CommittedStatuses
           /\ appointment[a].status \in CommittedStatuses =>
                /\ appointment'[a].notice = appointment[a].notice
                /\ appointment'[a].calendar = appointment[a].calendar
                /\ appointment'[a].slot = appointment[a].slot
                /\ appointment'[a].override = appointment[a].override,
         \A c \in Calendars : calendar'[c].limit = calendar[c].limit
  PROVE  UNCHANGED Book!bookVars
<1>1. \A a \in Appointments : a \in Confirmed' <=> a \in Confirmed
  BY DEF Confirmed
<1>2. \A a \in Confirmed : BookingOf(a)' = BookingOf(a)
  BY DEF Confirmed, BookingOf
<1>3. \A a \in Appointments :
        (IF a \in Confirmed' THEN BookingOf(a)' ELSE None)
          = (IF a \in Confirmed THEN BookingOf(a) ELSE None)
  BY <1>1, <1>2
<1> QED
  BY <1>3 DEF Book!bookVars

LEMMA SameAppointments ==
  ASSUME UNCHANGED <<calendar, appointment>>
  PROVE  UNCHANGED Book!bookVars
  BY BookUnchanged

LEMMA BookingsAreRecords ==
  ASSUME ReceptionInv, NEW a \in Confirmed
  PROVE  BookingOf(a) \in Book!Bookings /\ BookingOf(a) # None
<1>1. /\ a \in Appointments /\ appointment[a].status # None
      /\ appointment[a] \in AppointmentRow
  BY StatusesNotNone DEF Confirmed, ReceptionInv, TypeOK
<1>2. PICK n \in Notices, c \in Calendars, s \in Slots, o \in BOOLEAN :
        /\ n = appointment[a].notice /\ c = appointment[a].calendar
        /\ s = appointment[a].slot /\ o = appointment[a].override
  <2>1. appointment[a].override \in BOOLEAN
    BY <1>1 DEF AppointmentRow
  <2> QED
    BY <1>1, <2>1 DEF ReceptionInv, RowsLinked
<1>3. VehicleOf[n] \in Vehicles \cup {NoVehicle}
  BY CalendarConstants
<1>4. BookingOf(a) \in [calendar : Calendars, slot : Slots, vehicle : Vehicles \cup {NoVehicle},
                        override : BOOLEAN]
  BY <1>2, <1>3 DEF BookingOf
<1> QED
  BY <1>4, CalendarConstants DEF Book!Bookings

LEMMA SameCardinality == \A S : Book!Cardinality(S) = Cardinality(S)
  BY DEF Cardinality, Book!Cardinality

LEMMA ConfirmingEnters ==
  ASSUME NEW w \in Workers, ReceptionInv, ConfirmNotice(w)
  PROVE  \E a \in Appointments, b \in Book!Bookings : Book!Enter(a, b)
<1>1. PICK t \in Request : t = txn[w]
  BY RelyAt
<1>2. Confirming(w, t) /\ t.pc = "notice"
  BY <1>1, RelyAt DEF ConfirmNotice, At
<1>3. PICK a \in Appointments, c \in Calendars : a = t.appointment /\ c = t.calendar
  BY <1>2 DEF Confirming
<1>4. /\ appointment[a].status = "PROPOSED" /\ appointment[a].calendar = c
      /\ appointment[a].notice = t.notice /\ RoomKept(t)
  BY <1>2, <1>3 DEF Confirming
<1>5. appointment \in [Appointments -> AppointmentRow]
  BY DEF ReceptionInv, TypeOK
<1>6. /\ appointment'[a] = [appointment[a] EXCEPT !.status = "CONFIRMED",
                                                  !.override = t.override]
      /\ \A x \in Appointments \ {a} : appointment'[x] = appointment[x]
      /\ calendar' = calendar
  BY <1>1, <1>3, <1>5 DEF ConfirmNotice
<1>7. /\ appointment'[a].status = "CONFIRMED" /\ appointment'[a].notice = t.notice
      /\ appointment'[a].calendar = c /\ appointment'[a].slot = appointment[a].slot
      /\ appointment'[a].override = t.override
  <2>1. appointment[a] \in AppointmentRow
    BY <1>5
  <2> QED
    BY <1>4, <1>6, <2>1 DEF AppointmentRow
<1>8. a \in Confirmed' /\ a \notin Confirmed
  BY <1>4, <1>7 DEF Confirmed, CommittedStatuses
<1>9. \A x \in Appointments \ {a} : (x \in Confirmed' <=> x \in Confirmed)
                                   /\ BookingOf(x)' = BookingOf(x)
  BY <1>6 DEF Confirmed, BookingOf
<1> DEFINE b == BookingOf(a)'
           old == [x \in Appointments |-> IF x \in Confirmed THEN BookingOf(x) ELSE None]
           new == [x \in Appointments |-> IF x \in Confirmed' THEN BookingOf(x)' ELSE None]
<1>10. b \in Book!Bookings
  <2>1. appointment[a].slot \in Slots /\ t.notice \in Notices
    BY <1>2, <1>4, StatusesNotNone DEF ReceptionInv, RowsLinked, Confirming
  <2>2. PICK s \in Slots, n \in Notices, o \in BOOLEAN :
          s = appointment[a].slot /\ n = t.notice /\ o = t.override
    <3>1. t.override \in BOOLEAN
      BY DEF Request
    <3> QED
      BY <2>1, <3>1
  <2>3. b = [calendar |-> c, slot |-> s, vehicle |-> VehicleOf[n], override |-> o]
    BY <1>7, <2>2 DEF BookingOf
  <2>4. VehicleOf[n] \in Vehicles \cup {NoVehicle}
    BY CalendarConstants
  <2> QED
    BY <2>3, <2>4 DEF Book!Bookings
<1>11. /\ b.calendar = c /\ b.slot = appointment[a].slot
       /\ b.vehicle = VehicleOf[t.notice] /\ b.override = t.override
  BY <1>7 DEF BookingOf
<1>12. \A x \in Confirmed :
         /\ BookingOf(x) # None
         /\ BookingOf(x).calendar = appointment[x].calendar
         /\ BookingOf(x).slot = appointment[x].slot
         /\ BookingOf(x).vehicle = VehicleOf[appointment[x].notice]
  BY BookingsAreRecords DEF BookingOf
<1>13. \A x \in Appointments : old[x] # None <=> x \in Confirmed
  BY <1>12
<1>14. Book!Rivals(b) = RivalsOf(a)
  <2>1. \A x \in Appointments :
          (old[x] # None /\ old[x].calendar = b.calendar /\ Book!Overlap(old[x].slot, b.slot))
            <=> (x \in Confirmed /\ appointment[x].calendar = c
                   /\ Overlap(appointment[x].slot, appointment[a].slot))
    BY <1>11, <1>12, <1>13 DEF Overlap, Book!Overlap
  <2> QED
    BY <1>4, <2>1 DEF Book!Rivals, RivalsOf, Confirmed
<1>15. old[a] = None
  BY <1>8
<1>16. b.override \/ Cardinality(Book!Rivals(b)) < [d \in Calendars |-> calendar[d].limit][b.calendar]
  BY <1>3, <1>4, <1>11, <1>14 DEF RoomKept
<1>17. b.vehicle # NoVehicle => \A x \in Book!Rivals(b) : old[x].vehicle # b.vehicle
  BY <1>3, <1>4, <1>11, <1>12, <1>14 DEF RoomKept, RivalsOf, Confirmed
<1>18. new = [old EXCEPT ![a] = b]
  BY <1>8, <1>9
<1>19. [d \in Calendars |-> calendar'[d].limit] = [d \in Calendars |-> calendar[d].limit]
  BY <1>6
<1>20. PICK y \in Book!Bookings : y = b
  BY <1>10
<1>21. Book!Enter(a, y)
  BY <1>15, <1>16, <1>17, <1>18, <1>19, <1>20, SameCardinality DEF Book!Enter
<1> QED
  BY <1>21

LEMMA CancellingReleases ==
  ASSUME NEW w \in Workers, ReceptionInv, CancelNoticeRow(w)
  PROVE  (\E a \in Appointments : Book!Release(a)) \/ UNCHANGED Book!bookVars
<1>1. PICK t \in Request : t = txn[w]
  BY RelyAt
<1>2. PICK a \in Appointments : a = t.appointment
  BY <1>1, RelyAt DEF CancelNoticeRow, Cancelling
<1>3. /\ appointment' = [appointment EXCEPT ![a].status = "CANCELLED"]
      /\ calendar' = calendar /\ appointment \in [Appointments -> AppointmentRow]
  BY <1>1, <1>2 DEF CancelNoticeRow, ReceptionInv, TypeOK
<1>4. /\ appointment'[a].status = "CANCELLED"
      /\ \A x \in Appointments \ {a} : appointment'[x] = appointment[x]
  BY <1>3 DEF AppointmentRow
<1>5. CASE a \notin Confirmed
  BY <1>3, <1>4, <1>5, BookUnchanged DEF Confirmed, CommittedStatuses
<1>6. CASE a \in Confirmed
  <2> DEFINE old == [x \in Appointments |-> IF x \in Confirmed THEN BookingOf(x) ELSE None]
             new == [x \in Appointments |-> IF x \in Confirmed' THEN BookingOf(x)' ELSE None]
  <2>1. a \notin Confirmed'
    BY <1>4 DEF Confirmed, CommittedStatuses
  <2>2. \A x \in Appointments \ {a} : (x \in Confirmed' <=> x \in Confirmed)
                                     /\ BookingOf(x)' = BookingOf(x)
    BY <1>4 DEF Confirmed, BookingOf
  <2>3. new = [old EXCEPT ![a] = None]
    BY <2>1, <2>2
  <2>4. old[a] # None
    BY <1>6, BookingsAreRecords
  <2>5. [d \in Calendars |-> calendar'[d].limit] = [d \in Calendars |-> calendar[d].limit]
    BY <1>3
  <2> QED
    BY <2>3, <2>4, <2>5 DEF Book!Release
<1> QED
  BY <1>5, <1>6

LEMMA UpdatingSetsLimit ==
  ASSUME NEW c \in Calendars, NEW l \in Limits, ReceptionInv, UpdateCalendar(c, l)
  PROVE  Book!SetLimit(c, l)
<1>1. calendar \in [Calendars -> CalendarRow]
  BY DEF ReceptionInv, TypeOK
<1>2. /\ calendar'[c].limit = l /\ \A d \in Calendars \ {c} : calendar'[d] = calendar[d]
      /\ UNCHANGED <<notice, appointment>>
  BY <1>1 DEF UpdateCalendar, CalendarRow
<1>3. [d \in Calendars |-> calendar'[d].limit]
        = [[d \in Calendars |-> calendar[d].limit] EXCEPT ![c] = l]
  BY <1>2
<1>4. [x \in Appointments |-> IF x \in Confirmed' THEN BookingOf(x)' ELSE None]
        = [x \in Appointments |-> IF x \in Confirmed THEN BookingOf(x) ELSE None]
  BY <1>2 DEF Confirmed, BookingOf
<1> QED
  BY <1>3, <1>4 DEF Book!SetLimit

LEMMA ProposingKeepsBook ==
  ASSUME NEW w \in Workers, ReceptionInv, CreateAppointmentCommit(w)
  PROVE  UNCHANGED Book!bookVars
<1>1. CASE Refuse(w)
  BY <1>1, SameAppointments DEF Refuse
<1>2. CASE ~Refuse(w)
  <2>1. PICK a \in Appointments :
          /\ NextAppointment(a)
          /\ appointment' = [appointment EXCEPT ![a] =
               [status |-> "PROPOSED", notice |-> txn[w].notice,
                calendar |-> hold[txn[w].hold].calendar,
                slot |-> hold[txn[w].hold].slot, override |-> FALSE]]
    BY <1>2 DEF CreateAppointmentCommit
  <2>2. appointment \in [Appointments -> AppointmentRow] /\ calendar' = calendar
    BY <1>2 DEF CreateAppointmentCommit, ReceptionInv, TypeOK
  <2>3. /\ appointment'[a].status = "PROPOSED" /\ appointment[a].status = None
        /\ \A x \in Appointments \ {a} : appointment'[x] = appointment[x]
    BY <2>1, <2>2 DEF NextAppointment
  <2> QED
    BY <2>2, <2>3, StatusesNotNone, BookUnchanged DEF CommittedStatuses
<1> QED
  BY <1>1, <1>2

LEMMA ReschedulingKeepsBook ==
  ASSUME NEW a \in Appointments, ReceptionInv, RequestReschedule(a)
  PROVE  UNCHANGED Book!bookVars
<1>1. appointment \in [Appointments -> AppointmentRow]
  BY DEF ReceptionInv, TypeOK
<1>2. /\ appointment[a].status = "CONFIRMED" /\ calendar' = calendar
      /\ appointment'[a] = [appointment[a] EXCEPT !.status = "RESCHEDULE_REQUESTED"]
      /\ \A x \in Appointments \ {a} : appointment'[x] = appointment[x]
  BY <1>1 DEF RequestReschedule
<1>3. /\ appointment'[a].status = "RESCHEDULE_REQUESTED"
      /\ appointment'[a].notice = appointment[a].notice
      /\ appointment'[a].calendar = appointment[a].calendar
      /\ appointment'[a].slot = appointment[a].slot
      /\ appointment'[a].override = appointment[a].override
  <2>1. appointment[a] \in AppointmentRow
    BY <1>1
  <2> QED
    BY <1>2, <2>1 DEF AppointmentRow
<1> QED
  BY <1>2, <1>3, BookUnchanged DEF CommittedStatuses

LEMMA OtherCalendarSteps ==
  ASSUME NEW c \in Calendars, ReceptionInv,
         \/ \E target \in Targets : TransitionCalendar(c, target)
         \/ \E s \in Blackouts : AddBlackout(c, s)
  PROVE  UNCHANGED Book!bookVars
<1>1. calendar \in [Calendars -> CalendarRow]
  BY DEF ReceptionInv, TypeOK
<1>2. appointment' = appointment /\ \A d \in Calendars : calendar'[d].limit = calendar[d].limit
  BY <1>1 DEF TransitionCalendar, AddBlackout, CalendarRow
<1> QED
  BY <1>2, BookUnchanged

\* Every step of the calendar books, releases, sets a limit or leaves the book.
LEMMA BookStep == ReceptionInv /\ [Next]_vars => [Book!Next]_(Book!bookVars)
<1> SUFFICES ASSUME ReceptionInv, [Next]_vars
             PROVE  Book!Next \/ UNCHANGED Book!bookVars
  OBVIOUS
<1>1. CASE UNCHANGED <<calendar, appointment>>
  BY <1>1, SameAppointments
<1>2. ASSUME NEW w \in Workers, Advance(w), ~UNCHANGED <<calendar, appointment>>
      PROVE  Book!Next \/ UNCHANGED Book!bookVars
  <2>1. CASE CreateAppointmentCommit(w)
    BY <2>1, ProposingKeepsBook
  <2>2. CASE ConfirmNotice(w)
    BY <2>2, ConfirmingEnters DEF Book!Next
  <2>3. CASE CancelNoticeRow(w)
    BY <2>3, CancellingReleases, SMTT(30) DEF Book!Next
  <2>4. ~(CreateHoldNotice(w) \/ CreateHoldActive(w) \/ RefreshHoldCalendar(w)
          \/ CreateAppointmentNotice(w) \/ ConfirmCalendar(w) \/ DeadlockVictim(w))
    BY <1>2
    DEF CreateHoldNotice, CreateHoldActive, RefreshHoldCalendar, CreateAppointmentNotice,
        ConfirmCalendar, DeadlockVictim, Refuse, InsertHold
  <2> QED
    BY <1>2, <2>1, <2>2, <2>3, <2>4 DEF Advance
<1>3. ASSUME NEW a \in Appointments, RequestReschedule(a)
      PROVE  UNCHANGED Book!bookVars
  BY <1>3, ReschedulingKeepsBook
<1>4. ASSUME NEW c \in Calendars,
             \/ \E target \in Targets : TransitionCalendar(c, target)
             \/ \E s \in Blackouts : AddBlackout(c, s)
      PROVE  UNCHANGED Book!bookVars
  BY <1>4, OtherCalendarSteps
<1>5. ASSUME NEW c \in Calendars, NEW l \in Limits, UpdateCalendar(c, l)
      PROVE  Book!Next
  BY <1>5, UpdatingSetsLimit DEF Book!Next
<1>6. ASSUME NEW w \in Workers, Serve(w) \/ Crash(w)
      PROVE  UNCHANGED <<calendar, appointment>>
  BY <1>6 DEF Serve, Crash, Refuse, CreateHold, RefreshHold, CreateAppointment, Confirm, Cancel
<1>7. \/ UNCHANGED <<calendar, appointment>>
      \/ \E w \in Workers : Serve(w) \/ Advance(w) \/ Crash(w)
      \/ \E a \in Appointments : RequestReschedule(a)
      \/ \E c \in Calendars :
           \/ \E target \in Targets : TransitionCalendar(c, target)
           \/ \E l \in Limits : UpdateCalendar(c, l)
           \/ \E s \in Blackouts : AddBlackout(c, s)
  BY DEF Next, vars, CancelHold, HoldComesDue, MarkReady, CancelNotice, TimePasses, ExpireHolds
<1> QED
  BY <1>1, <1>2, <1>3, <1>4, <1>5, <1>6, <1>7

LEMMA BookInit == Init => Book!Init
<1> SUFFICES ASSUME Init
             PROVE  Book!Init
  OBVIOUS
<1>1. Confirmed = {}
  BY StatusesNotNone DEF Init, NoAppointment, Confirmed
<1>2. \A c \in Calendars : calendar[c].limit \in Limits
  BY DEF Init
<1> QED
  BY <1>1, <1>2 DEF Book!Init

\* The confirmed appointments of the reception calendar are a SlotBook.
THEOREM CalendarKeepsSlotBook == Spec => ImplementsSlotBook
  BY BookInit, BookStep, ReceptionInvariance, PTL DEF Spec, ImplementsSlotBook, Book!Spec
-----------------------------------------------------------------------------
(* What SlotBook says of an hour. *)

\* The appointments of calendar c that are in the book for hour h.
Booked(c, h) ==
  {x \in Appointments :
     /\ x \in Confirmed
     /\ ~BookingOf(x).override /\ BookingOf(x).calendar = c /\ h \in Span[BookingOf(x).slot]}

LEMMA ExpectedFinite ==
  ASSUME NEW S \in SUBSET Appointments
  PROVE  IsFiniteSet(S) /\ Cardinality(S) \in Nat
<1>1. IsFiniteSet(Appointments)
  BY CalendarConstants, FS_Interval DEF Appointments
<1> QED
  BY <1>1, FS_Subset, FS_CardinalityType

LEMMA ExpectedIsBooked ==
  ASSUME NEW c, NEW h
  PROVE  Expected(c, h) = Booked(c, h)
  BY DEF Expected, Booked, BookingOf, Confirmed

\* The bookings that stand now, by appointment.
Entries == [x \in Appointments |-> IF x \in Confirmed THEN BookingOf(x) ELSE None]

LEMMA EntryOf ==
  ASSUME ReceptionInv, NEW x \in Appointments
  PROVE  /\ Entries[x] # None <=> x \in Confirmed
         /\ x \in Confirmed => Entries[x] = BookingOf(x)
  BY BookingsAreRecords DEF Entries

LEMMA BookedEntries ==
  ReceptionInv =>
    \A c, h :
      Expected(c, h) =
        {x \in Appointments :
           /\ Entries[x] # None
           /\ ~Entries[x].override /\ Entries[x].calendar = c /\ h \in Span[Entries[x].slot]}
  BY ExpectedIsBooked, EntryOf DEF Booked

LEMMA BookedEntriesNext ==
  ReceptionInv' =>
    (\A c, h :
       Expected(c, h) =
         {x \in Appointments :
            /\ Entries[x] # None
            /\ ~Entries[x].override /\ Entries[x].calendar = c /\ h \in Span[Entries[x].slot]})'
  BY BookedEntries, PTL

\* One more appointment enters an hour only among fewer than the limit.
LEMMA HoursStep ==
  ASSUME NEW most \in Nat, \A l \in Limits : l <= most,
         ReceptionInv, ReceptionInv', HoursWithin(most), [Book!Next]_(Book!bookVars)
  PROVE  HoursWithin(most)'
<1> SUFFICES ASSUME NEW c \in Calendars, NEW h \in Hours
             PROVE  Cardinality(Expected(c, h)') <= most
  BY DEF HoursWithin
<1>1. Expected(c, h) \subseteq Appointments /\ Expected(c, h)' \subseteq Appointments
  BY DEF Expected, Confirmed
<1>2. /\ IsFiniteSet(Expected(c, h)) /\ Cardinality(Expected(c, h)) \in Nat
      /\ Cardinality(Expected(c, h)) <= most
  BY <1>1, ExpectedFinite DEF HoursWithin
<1>3. ASSUME Expected(c, h)' \subseteq Expected(c, h)
      PROVE  Cardinality(Expected(c, h)') <= most
  <2>1. /\ Cardinality(Expected(c, h)') <= Cardinality(Expected(c, h))
        /\ Cardinality(Expected(c, h)') \in Nat
    BY <1>1, <1>2, <1>3, FS_Subset, ExpectedFinite
  <2> QED
    BY <1>2, <2>1
<1>4. ASSUME \A x \in Appointments : Entries'[x] \in {None, Entries[x]}
      PROVE  Expected(c, h)' \subseteq Expected(c, h)
  BY <1>4, BookedEntries, BookedEntriesNext
<1>5. CASE Entries' = Entries
  BY <1>3, <1>4, <1>5
<1>6. ASSUME NEW a \in Appointments, Book!Release(a)
      PROVE  Cardinality(Expected(c, h)') <= most
  <2>1. Entries' = [Entries EXCEPT ![a] = None]
    BY <1>6 DEF Book!Release, Entries
  <2>2. \A x \in Appointments : Entries'[x] \in {None, Entries[x]}
    BY <2>1 DEF Entries
  <2> QED
    BY <1>3, <1>4, <2>2
<1>7. ASSUME NEW a \in Appointments, NEW b \in Book!Bookings, Book!Enter(a, b)
      PROVE  Cardinality(Expected(c, h)') <= most
  <2>1. Entries' = [Entries EXCEPT ![a] = b]
    BY <1>7 DEF Book!Enter, Entries
  <2>2. Entries'[a] = b /\ \A x \in Appointments \ {a} : Entries'[x] = Entries[x]
    BY <2>1 DEF Entries
  <2>3. CASE b.override \/ b.calendar # c \/ h \notin Span[b.slot]
    <3>1. a \notin Expected(c, h)'
      BY <2>2, <2>3, BookedEntriesNext
    <3>2. Expected(c, h)' \subseteq Expected(c, h)
      BY <1>1, <2>2, <3>1, BookedEntries, BookedEntriesNext
    <3> QED
      BY <1>3, <3>2
  <2>4. CASE ~b.override /\ b.calendar = c /\ h \in Span[b.slot]
    <3>1. Cardinality(Book!Rivals(b)) < calendar[c].limit
      BY <1>7, <2>4, SameCardinality DEF Book!Enter
    <3>2. calendar[c].limit \in Limits /\ calendar[c].limit \in Nat
      BY CalendarConstants DEF ReceptionInv, TypeOK, CalendarRow
    <3>3. Book!Rivals(b) = {x \in Appointments :
             /\ Entries[x] # None
             /\ Entries[x].calendar = b.calendar /\ Span[Entries[x].slot] \cap Span[b.slot] # {}}
      BY DEF Book!Rivals, Book!Overlap, Entries
    <3>4. Expected(c, h)' \subseteq Book!Rivals(b) \cup {a}
      BY <1>1, <2>2, <2>4, <3>3, BookedEntriesNext
    <3>5. Book!Rivals(b) \subseteq Appointments
      BY <3>3
    <3>6. /\ IsFiniteSet(Book!Rivals(b)) /\ Cardinality(Book!Rivals(b)) \in Nat
      BY <3>5, ExpectedFinite
    <3>7. /\ IsFiniteSet(Book!Rivals(b) \cup {a})
          /\ Cardinality(Book!Rivals(b) \cup {a}) \in Nat
          /\ Cardinality(Book!Rivals(b) \cup {a}) <= Cardinality(Book!Rivals(b)) + 1
      <4> DEFINE R == Book!Rivals(b)
      <4> HIDE DEF R
      <4>1. IsFiniteSet(R) /\ Cardinality(R) \in Nat
        BY <3>6 DEF R
      <4>2. /\ IsFiniteSet(R \cup {a})
            /\ Cardinality(R \cup {a}) = IF a \in R THEN Cardinality(R) ELSE Cardinality(R) + 1
        BY <4>1, FS_AddElement
      <4>3. Cardinality(R \cup {a}) \in Nat /\ Cardinality(R \cup {a}) <= Cardinality(R) + 1
        BY <4>1, <4>2
      <4> QED
        BY <4>2, <4>3 DEF R
    <3>8. /\ Cardinality(Expected(c, h)') <= Cardinality(Book!Rivals(b) \cup {a})
          /\ Cardinality(Expected(c, h)') \in Nat
      BY <1>1, <3>4, <3>7, FS_Subset, ExpectedFinite
    <3>9. PICK i, j, k, l \in Nat :
            /\ i = Cardinality(Expected(c, h)') /\ j = Cardinality(Book!Rivals(b) \cup {a})
            /\ k = Cardinality(Book!Rivals(b)) /\ l = calendar[c].limit
      BY <3>2, <3>6, <3>7, <3>8
    <3>10. i <= j /\ j <= k + 1 /\ k < l /\ l <= most
      BY <3>1, <3>2, <3>7, <3>8, <3>9
    <3>11. i <= most
      BY <3>10
    <3> QED
      BY <3>9, <3>11
  <2> QED
    BY <2>3, <2>4
<1>8. ASSUME NEW d \in Calendars, NEW n \in Limits, Book!SetLimit(d, n)
      PROVE  Entries' = Entries
  BY <1>8 DEF Book!SetLimit, Entries
<1>9. CASE UNCHANGED Book!bookVars
  <2>1. Entries' = Entries
    BY <1>9 DEF Book!bookVars, Entries
  <2> QED
    BY <1>5, <2>1
<1> QED
  BY <1>5, <1>6, <1>7, <1>8, <1>9 DEF Book!Next

LEMMA HoursInit ==
  ASSUME NEW most \in Nat
  PROVE  Init => HoursWithin(most)
<1> SUFFICES ASSUME Init, NEW c \in Calendars, NEW h \in Hours
             PROVE  Cardinality(Expected(c, h)) <= most
  BY DEF HoursWithin
<1>1. Expected(c, h) = {}
  BY StatusesNotNone DEF Init, NoAppointment, Confirmed, Expected
<1> QED
  BY <1>1, FS_EmptySet

\* Whatever requests overlap and however its limit changes, a calendar never
\* expects more appointments at one hour than the greatest of its limits, but for
\* those confirmed over its capacity.
THEOREM HoursStayWithinLimits ==
  ASSUME NEW most \in Nat, \A l \in Limits : l <= most
  PROVE  Spec => []HoursWithin(most)
<1>1. Init => HoursWithin(most)
  BY HoursInit
<1>2. ReceptionInv /\ ReceptionInv' /\ HoursWithin(most) /\ [Next]_vars => HoursWithin(most)'
  BY BookStep, HoursStep
<1> QED
  BY <1>1, <1>2, ReceptionInvariance, PTL DEF Spec
=============================================================================
