-------------------------- MODULE ReceptionProofs --------------------------
(***************************************************************************)
(* ReceptionInv is an inductive invariant of ReceptionCalendar, for every  *)
(* number of calendars, notices, slots, holds, appointments and workers.   *)
(***************************************************************************)
EXTENDS ReceptionInvariant, FiniteSetTheorems, TLAPS

\* What a step of another transaction leaves worker v to rely on.
Undisturbed(v) ==
  /\ \A r \in Rows : lock[r] = v => lock'[r] = v
  /\ \A h \in Holds : hold[h].status # None /\ Owns(v, "hold", h) =>
       hold'[h].status = hold[h].status /\ hold'[h].notice = hold[h].notice
  /\ \A n \in Notices : Owns(v, "notice", n) =>
       /\ notice'[n].status = notice[n].status
       /\ ActiveHoldsOf(n)' \subseteq ActiveHoldsOf(n)
       /\ AlreadyBooked(n)' => AlreadyBooked(n)
  /\ \A a \in Appointments : appointment[a].status # None /\ Owns(v, "appointment", a) =>
       appointment'[a] = appointment[a]
  /\ \A c \in Calendars : Owns(v, "calendar", c) =>
       /\ calendar'[c].limit = calendar[c].limit
       /\ \A b \in Appointments :
            appointment'[b].status \in CommittedStatuses /\ appointment'[b].calendar = c =>
              /\ appointment[b].status \in CommittedStatuses
              /\ appointment'[b].calendar = appointment[b].calendar
              /\ appointment'[b].slot = appointment[b].slot
              /\ appointment'[b].notice = appointment[b].notice

LEMMA RowMember ==
  /\ \A c \in Calendars : <<"calendar", c>> \in Rows
  /\ \A n \in Notices : <<"notice", n>> \in Rows
  /\ \A h \in Holds : <<"hold", h>> \in Rows
  /\ \A a \in Appointments : <<"appointment", a>> \in Rows
  BY DEF Rows

LEMMA StatusesNotNone ==
  /\ \A x \in HoldStatuses \cup AppointmentStatuses \cup CapacityStatuses \cup CommittedStatuses :
       x # None
  /\ None \notin {"ACTIVE", "EXPIRED", "CANCELLED", "CONSUMED"}
  /\ None \notin {"PROPOSED", "CONFIRMED", "RESCHEDULE_REQUESTED", "CANCELLED"}
  BY CalendarConstants DEF HoldStatuses, AppointmentStatuses, CapacityStatuses, CommittedStatuses

LEMMA SmallerRivals ==
  ASSUME NEW S, NEW T, S \subseteq T, T \subseteq Appointments, NEW k \in Nat,
         Cardinality(T) < k
  PROVE  Cardinality(S) < k
<1>1. IsFiniteSet(Appointments)
  BY CalendarConstants, FS_Interval DEF Appointments
<1>2. IsFiniteSet(T) /\ IsFiniteSet(S)
  BY <1>1, FS_Subset
<1>3. Cardinality(S) <= Cardinality(T) /\ Cardinality(S) \in Nat /\ Cardinality(T) \in Nat
  BY <1>2, FS_Subset, FS_CardinalityType
<1> QED
  BY <1>3

\* Whatever another transaction does, if it leaves v undisturbed then v can go
\* on relying on what it has tested.
LEMMA RelyStable ==
  ASSUME NEW v \in Workers, NEW t \in Request, TypeOK, TypeOK', Relies(v, t), Undisturbed(v)
  PROVE  Relies(v, t)'
<1>1. CASE t = Idle
  BY <1>1 DEF Relies
<1>2. CASE t.op = "create_hold" /\ t.pc \in {"notice", "hold"} /\ CreatingHold(v, t)
  BY <1>2, RowMember DEF Relies, CreatingHold, Undisturbed, Owns
<1>3. CASE t.op = "refresh_hold" /\ t.pc = "calendar" /\ RefreshingHold(v, t)
  BY <1>3, RowMember DEF Relies, RefreshingHold, Undisturbed, Owns
<1>4. CASE /\ t.op = "create_appointment" /\ t.pc \in {"notice", "commit"}
           /\ CreatingAppointment(v, t)
  BY <1>4, RowMember DEF Relies, CreatingAppointment, Undisturbed, Owns
<1>5. CASE t.op = "confirm" /\ t.pc \in {"calendar", "notice"} /\ Confirming(v, t)
  <2>1. appointment'[t.appointment] = appointment[t.appointment]
    BY <1>5, RowMember, StatusesNotNone DEF Confirming, Undisturbed, Owns
  <2>2. ASSUME t.pc = "notice"
        PROVE  Owns(v, "calendar", t.calendar)' /\ RoomKept(t)'
    <3>1. Owns(v, "calendar", t.calendar) /\ t.calendar \in Calendars /\ RoomKept(t)
      BY <1>5, <2>2 DEF Confirming
    <3>2. Owns(v, "calendar", t.calendar)' /\ calendar'[t.calendar].limit = calendar[t.calendar].limit
      BY <3>1, RowMember DEF Undisturbed, Owns
    <3>3. RivalsOf(t.appointment)' \subseteq RivalsOf(t.appointment)
      BY <1>5, <2>1, <3>1 DEF RivalsOf, Undisturbed, Confirming, Confirmed
    <3>4. RivalsOf(t.appointment) \subseteq Appointments
      BY DEF RivalsOf, Confirmed
    <3>5. calendar[t.calendar].limit \in Nat
      BY <3>1, CalendarConstants DEF TypeOK, CalendarRow
    <3>6. t.override \/ Cardinality(RivalsOf(t.appointment)') < calendar'[t.calendar].limit
      BY <3>1, <3>2, <3>3, <3>4, <3>5, SmallerRivals DEF RoomKept
    <3>7. \A b \in RivalsOf(t.appointment)' : appointment'[b].notice = appointment[b].notice
      BY <1>5, <2>1, <3>1 DEF RivalsOf, Undisturbed, Confirming, Confirmed
    <3> QED
      BY <3>1, <3>2, <3>3, <3>6, <3>7 DEF RoomKept
  <2> QED
    BY <1>5, <2>1, <2>2, RowMember DEF Relies, Confirming, Undisturbed, Owns
<1>6. CASE t.op = "cancel" /\ t.pc = "notice" /\ Cancelling(v, t)
  BY <1>6, RowMember, StatusesNotNone DEF Relies, Cancelling, Undisturbed, Owns
<1> QED
  BY <1>1, <1>2, <1>3, <1>4, <1>5, <1>6 DEF Relies

\* It is enough to know the request of the worker that takes the step.
LEMMA RelyOfEqual ==
  ASSUME NEW v \in Workers, NEW t, t = txn'[v], Relies(v, t)'
  PROVE  Relies(v, txn[v])'
  BY DEF Relies, CreatingHold, RefreshingHold, CreatingAppointment, Confirming, Cancelling,
         RoomKept

LEMMA RequestsKept ==
  ASSUME NEW w \in Workers, TypeOK, TypeOK', RequestsRely,
         \A v \in Workers \ {w} : txn'[v] = txn[v] /\ Undisturbed(v),
         Relies(w, txn[w])'
  PROVE  RequestsRely'
<1> SUFFICES ASSUME NEW v \in Workers, v # w
             PROVE  Relies(v, txn[v])'
  BY DEF RequestsRely
<1>1. PICK t \in Request : t = txn[v]
  BY SMTT(30) DEF TypeOK
<1>2. Relies(v, t)
  BY <1>1 DEF RequestsRely, Relies, CreatingHold, RefreshingHold, CreatingAppointment,
              Confirming, Cancelling, RoomKept
<1>3. Relies(v, t)'
  BY <1>2, RelyStable
<1> QED
  BY <1>1, <1>3, RelyOfEqual

-----------------------------------------------------------------------------
(* Steps that lock rows and write nothing. *)

LEMMA QuietStep ==
  ASSUME NEW w \in Workers, ReceptionInv, NEW t \in Request,
         txn' = [txn EXCEPT ![w] = t],
         UNCHANGED <<calendar, notice, hold, appointment, phase>>,
         lock' \in [Rows -> Workers \cup {None}],
         \A r \in Rows : lock[r] \in Workers \ {w} => lock'[r] = lock[r],
         Relies(w, t)'
  PROVE  ReceptionInv'
<1>1. TypeOK'
  BY DEF ReceptionInv, TypeOK
<1>2. RowsLinked' /\ Claims' /\ VehicleOncePerCalendar'
  BY DEF ReceptionInv, RowsLinked, Claims, LiveIsCurrent, UnbookedNotices, OneActiveHold,
         ActiveHoldsOf, AlreadyBooked, VehicleOncePerCalendar
<1>3. txn'[w] = t
  BY DEF ReceptionInv, TypeOK
<1>4. Relies(w, txn[w])'
  BY <1>3, RelyOfEqual
<1>5. ASSUME NEW v \in Workers \ {w}
      PROVE  txn'[v] = txn[v] /\ Undisturbed(v)
  BY DEF ReceptionInv, TypeOK, Undisturbed, ActiveHoldsOf, AlreadyBooked, Owns
<1>6. RequestsRely'
  BY <1>1, <1>4, <1>5, RequestsKept DEF ReceptionInv
<1> QED
  BY <1>1, <1>2, <1>6 DEF ReceptionInv

LEMMA IdleRequest == Idle \in Request
  BY DEF Idle, Request

LEMMA RefuseStep ==
  ASSUME NEW w \in Workers, ReceptionInv, Refuse(w)
  PROVE  ReceptionInv'
<1>1. lock' \in [Rows -> Workers \cup {None}]
  BY DEF Refuse, End, ReceptionInv, TypeOK
<1>2. \A r \in Rows : lock[r] \in Workers \ {w} => lock'[r] = lock[r]
  BY DEF Refuse, End
<1>3. txn' = [txn EXCEPT ![w] = Idle] /\ UNCHANGED <<calendar, notice, hold, appointment, phase>>
  BY DEF Refuse, End
<1>4. Relies(w, Idle)'
  BY DEF Relies
<1> QED
  BY <1>1, <1>2, <1>3, <1>4, QuietStep, IdleRequest

LEMMA LockStep ==
  ASSUME NEW w \in Workers, ReceptionInv, NEW r \in Rows, Free(r), NEW t \in Request,
         Take(w, r, t), UNCHANGED <<calendar, notice, hold, appointment, phase>>,
         Relies(w, t)'
  PROVE  ReceptionInv'
<1>1. lock' \in [Rows -> Workers \cup {None}]
  BY DEF Take, ReceptionInv, TypeOK
<1>2. None \notin Workers
  BY CalendarConstants
<1>3. \A q \in Rows : lock[q] \in Workers \ {w} => lock'[q] = lock[q]
  BY <1>2 DEF Take, Free, ReceptionInv, TypeOK
<1>4. txn' = [txn EXCEPT ![w] = t]
  BY DEF Take
<1> QED
  BY <1>1, <1>3, <1>4, QuietStep

LEMMA CreateHoldStep ==
  ASSUME NEW w \in Workers, NEW n \in Notices, NEW c \in Calendars, NEW s \in Slots,
         ReceptionInv, CreateHold(w, n, c, s)
  PROVE  ReceptionInv'
<1> DEFINE t == [Idle EXCEPT !.op = "create_hold", !.pc = "notice",
                             !.calendar = c, !.notice = n, !.slot = s]
<1>1. /\ t \in Request /\ t.op = "create_hold" /\ t.pc = "notice" /\ t.calendar = c
      /\ t.notice = n /\ t.slot = s
  BY DEF Idle, Request
<1>2. Free(<<"calendar", c>>) /\ Take(w, <<"calendar", c>>, t)
  BY DEF CreateHold, Start, Take
<1>3. UNCHANGED <<calendar, notice, hold, appointment, phase>>
  BY DEF CreateHold
<1> HIDE DEF t
<1>4. lock'[<<"calendar", c>>] = w
  BY <1>2, RowMember DEF Take, ReceptionInv, TypeOK
<1>5. Relies(w, t)'
  BY <1>1, <1>4 DEF Relies, CreatingHold, Owns
<1> QED
  BY <1>1, <1>2, <1>3, <1>5, RowMember, LockStep

LEMMA RefreshHoldStep ==
  ASSUME NEW w \in Workers, NEW h \in Holds, ReceptionInv, RefreshHold(w, h)
  PROVE  ReceptionInv'
<1>1. hold[h].status # None /\ hold[h].calendar \in Calendars
  BY DEF RefreshHold, ReceptionInv, RowsLinked
<1>2. PICK c \in Calendars : c = hold[h].calendar
  BY <1>1
<1>3. PICK f \in BOOLEAN : f = (hold[h].status = "ACTIVE" /\ ~hold[h].due)
  OBVIOUS
<1> DEFINE t == [Idle EXCEPT !.op = "refresh_hold", !.pc = "calendar", !.hold = h,
                             !.calendar = c, !.fresh = f]
<1>4. /\ t \in Request /\ t.op = "refresh_hold" /\ t.pc = "calendar" /\ t.hold = h
      /\ t.calendar = c /\ t.fresh = f
  BY DEF Idle, Request
<1>5. Free(<<"hold", h>>) /\ Take(w, <<"hold", h>>, t)
  BY <1>2, <1>3 DEF RefreshHold, Start, Take
<1>6. UNCHANGED <<calendar, notice, hold, appointment, phase>>
  BY DEF RefreshHold
<1> HIDE DEF t
<1>7. lock'[<<"hold", h>>] = w
  BY <1>5, RowMember DEF Take, ReceptionInv, TypeOK
<1>8. Relies(w, t)'
  BY <1>1, <1>2, <1>3, <1>4, <1>6, <1>7 DEF Relies, RefreshingHold, Owns
<1> QED
  BY <1>4, <1>5, <1>6, <1>8, RowMember, LockStep

LEMMA CreateAppointmentStep ==
  ASSUME NEW w \in Workers, NEW h \in Holds, NEW n \in Notices, ReceptionInv,
         CreateAppointment(w, h, n)
  PROVE  ReceptionInv'
<1> DEFINE t == [Idle EXCEPT !.op = "create_appointment", !.pc = "notice",
                             !.hold = h, !.notice = n]
<1>1. t \in Request /\ t.op = "create_appointment" /\ t.pc = "notice" /\ t.hold = h
      /\ t.notice = n
  BY DEF Idle, Request
<1>2. Free(<<"hold", h>>) /\ Take(w, <<"hold", h>>, t) /\ hold[h].status # None
  BY DEF CreateAppointment, Start, Take
<1>3. UNCHANGED <<calendar, notice, hold, appointment, phase>>
  BY DEF CreateAppointment
<1> HIDE DEF t
<1>4. lock'[<<"hold", h>>] = w
  BY <1>2, RowMember DEF Take, ReceptionInv, TypeOK
<1>5. Relies(w, t)'
  BY <1>1, <1>2, <1>3, <1>4 DEF Relies, CreatingAppointment, Owns
<1> QED
  BY <1>1, <1>2, <1>3, <1>5, RowMember, LockStep

LEMMA ConfirmStep ==
  ASSUME NEW w \in Workers, NEW a \in Appointments, NEW x \in Holds \cup {None},
         NEW o \in BOOLEAN, ReceptionInv, Confirm(w, a, x, o)
  PROVE  ReceptionInv'
<1>1. /\ appointment[a].status = "PROPOSED"
      /\ appointment[a].calendar \in Calendars /\ appointment[a].notice \in Notices
  BY StatusesNotNone DEF Confirm, ReceptionInv, RowsLinked
<1>2. PICK c \in Calendars, n \in Notices :
        c = appointment[a].calendar /\ n = appointment[a].notice
  BY <1>1
<1> DEFINE t == [Idle EXCEPT !.op = "confirm", !.pc = "calendar", !.appointment = a,
                             !.calendar = c, !.notice = n, !.hold = x, !.override = o]
<1>3. /\ t \in Request /\ t.op = "confirm" /\ t.pc = "calendar" /\ t.appointment = a
      /\ t.calendar = c /\ t.notice = n
  BY DEF Idle, Request
<1>4. Free(<<"appointment", a>>) /\ Take(w, <<"appointment", a>>, t)
  BY <1>2 DEF Confirm, Start, Take
<1>5. UNCHANGED <<calendar, notice, hold, appointment, phase>>
  BY DEF Confirm
<1> HIDE DEF t
<1>6. lock'[<<"appointment", a>>] = w
  BY <1>4, RowMember DEF Take, ReceptionInv, TypeOK
<1>7. Relies(w, t)'
  BY <1>1, <1>2, <1>3, <1>5, <1>6 DEF Relies, Confirming, Owns
<1> QED
  BY <1>3, <1>4, <1>5, <1>7, RowMember, LockStep

LEMMA CancelStep ==
  ASSUME NEW w \in Workers, NEW a \in Appointments, ReceptionInv, Cancel(w, a)
  PROVE  ReceptionInv'
<1>1. appointment[a].status \in CapacityStatuses /\ appointment[a].notice \in Notices
  BY StatusesNotNone DEF Cancel, ReceptionInv, RowsLinked
<1>2. PICK n \in Notices : n = appointment[a].notice
  BY <1>1
<1> DEFINE t == [Idle EXCEPT !.op = "cancel", !.pc = "notice", !.appointment = a,
                             !.notice = n]
<1>3. /\ t \in Request /\ t.op = "cancel" /\ t.pc = "notice" /\ t.appointment = a
      /\ t.notice = n
  BY DEF Idle, Request
<1>4. Free(<<"appointment", a>>) /\ Take(w, <<"appointment", a>>, t)
  BY <1>2 DEF Cancel, Start, Take
<1>5. UNCHANGED <<calendar, notice, hold, appointment, phase>>
  BY DEF Cancel
<1> HIDE DEF t
<1>6. lock'[<<"appointment", a>>] = w
  BY <1>4, RowMember DEF Take, ReceptionInv, TypeOK
<1>7. Relies(w, t)'
  BY <1>1, <1>2, <1>3, <1>5, <1>6 DEF Relies, Cancelling, Owns
<1> QED
  BY <1>3, <1>4, <1>5, <1>7, RowMember, LockStep

-----------------------------------------------------------------------------
(* Further locks, taken once the request's tests have succeeded. *)

LEMMA RelyAt ==
  ASSUME NEW w \in Workers, ReceptionInv
  PROVE  /\ txn[w] \in Request
         /\ \A pc : At(w, "create_hold", pc) => CreatingHold(w, txn[w])
         /\ \A pc : At(w, "refresh_hold", pc) => RefreshingHold(w, txn[w])
         /\ \A pc : At(w, "create_appointment", pc) => CreatingAppointment(w, txn[w])
         /\ \A pc : At(w, "confirm", pc) => Confirming(w, txn[w])
         /\ \A pc : At(w, "cancel", pc) => Cancelling(w, txn[w])
<1>1. txn[w] \in Request /\ Relies(w, txn[w])
  BY DEF ReceptionInv, TypeOK, RequestsRely
<1>2. Idle.op = "none"
  BY DEF Idle
<1> QED
  BY <1>1, <1>2 DEF Relies, At

LEMMA CreateHoldWaits ==
  ASSUME NEW w \in Workers, ReceptionInv, At(w, "create_hold", "notice"),
         Free(<<"notice", txn[w].notice>>), Schedulable(txn[w].calendar, txn[w].notice),
         NEW h \in ActiveHoldsOf(txn[w].notice),
         Take(w, <<"notice", txn[w].notice>>, [txn[w] EXCEPT !.pc = "hold", !.hold = h]),
         UNCHANGED <<calendar, notice, hold, appointment, phase>>
  PROVE  ReceptionInv'
<1>1. PICK t \in Request : t = txn[w]
  BY RelyAt
<1>2. t.op = "create_hold" /\ CreatingHold(w, t)
  BY <1>1, RelyAt DEF At
<1> DEFINE u == [t EXCEPT !.pc = "hold", !.hold = h]
<1>3. h \in Holds
  BY DEF ActiveHoldsOf
<1>4. /\ u \in Request /\ u.op = "create_hold" /\ u.pc = "hold" /\ u.hold = h
      /\ u.calendar = t.calendar /\ u.notice = t.notice /\ u.slot = t.slot
  BY <1>2, <1>3 DEF Request
<1>5. Take(w, <<"notice", t.notice>>, u)
  BY <1>1
<1> HIDE DEF u
<1>6. t.notice \in Notices /\ t.calendar \in Calendars /\ t.slot \in Slots
  BY <1>2 DEF CreatingHold
<1>7. lock'[<<"notice", t.notice>>] = w
  BY <1>5, <1>6, RowMember DEF Take, ReceptionInv, TypeOK
<1>8. lock'[<<"calendar", t.calendar>>] = w
  BY <1>2, <1>5, <1>6, RowMember DEF Take, ReceptionInv, TypeOK, CreatingHold, Owns
<1>9. ActiveHoldsOf(t.notice) \subseteq {h}
  BY <1>1, <1>6 DEF ReceptionInv, Claims, OneActiveHold
<1>10. ActiveHoldsOf(t.notice)' \subseteq {h}
  BY <1>9 DEF ActiveHoldsOf
<1>11. notice'[t.notice].status = "READY_FOR_SCHEDULING"
  BY <1>1 DEF Schedulable
<1>12. Relies(w, u)'
  BY <1>3, <1>4, <1>6, <1>7, <1>8, <1>10, <1>11 DEF Relies, CreatingHold, Owns
<1> QED
  BY <1>1, <1>4, <1>5, <1>6, <1>12, RowMember, LockStep

LEMMA CreateAppointmentWaits ==
  ASSUME NEW w \in Workers, ReceptionInv, CreateAppointmentNotice(w)
  PROVE  ReceptionInv'
<1>1. CASE Refuse(w)
  BY <1>1, RefuseStep
<1>2. CASE ~Refuse(w)
  <2>1. PICK t \in Request : t = txn[w]
    BY RelyAt
  <2>2. t.op = "create_appointment" /\ CreatingAppointment(w, t)
    BY <2>1, RelyAt DEF At, CreateAppointmentNotice
  <2> DEFINE u == [t EXCEPT !.pc = "commit"]
  <2>3. /\ u \in Request /\ u.op = "create_appointment" /\ u.pc = "commit"
        /\ u.hold = t.hold /\ u.notice = t.notice
    BY <2>2 DEF Request
  <2>4. /\ Free(<<"notice", t.notice>>) /\ Take(w, <<"notice", t.notice>>, u)
        /\ UNCHANGED <<calendar, notice, hold, appointment, phase>>
        /\ hold[t.hold].status = "ACTIVE" /\ hold[t.hold].notice = t.notice
        /\ ~AlreadyBooked(t.notice)
    BY <1>2, <2>1 DEF CreateAppointmentNotice
  <2> HIDE DEF u
  <2>5. t.notice \in Notices /\ t.hold \in Holds
    BY <2>2 DEF CreatingAppointment
  <2>6. lock'[<<"notice", t.notice>>] = w /\ lock'[<<"hold", t.hold>>] = w
    BY <2>2, <2>4, <2>5, RowMember
    DEF Take, ReceptionInv, TypeOK, CreatingAppointment, Owns
  <2>7. ~AlreadyBooked(t.notice)'
    BY <2>4 DEF AlreadyBooked
  <2>8. hold'[t.hold].status # None
    BY <2>2, <2>4 DEF CreatingAppointment
  <2>9. Relies(w, u)'
    BY <2>3, <2>4, <2>5, <2>6, <2>7, <2>8 DEF Relies, CreatingAppointment, Owns
  <2> QED
    BY <2>3, <2>4, <2>5, <2>9, RowMember, LockStep
<1> QED
  BY <1>1, <1>2

\* The test of the capacity counts at least the confirmed rivals.
LEMMA RoomTested ==
  ASSUME TypeOK, NEW a \in Appointments, appointment[a].status = "PROPOSED",
         NEW X, HasRoom(appointment[a].calendar, appointment[a].slot, {a}, X),
         appointment[a].calendar \in Calendars
  PROVE  Cardinality(RivalsOf(a)) < calendar[appointment[a].calendar].limit
<1> DEFINE A == BusyAppointments(appointment[a].calendar, appointment[a].slot) \ {a}
           H == BusyHolds(appointment[a].calendar, appointment[a].slot) \ X
           k == calendar[appointment[a].calendar].limit
<1>1. IsFiniteSet(Holds)
  BY CalendarConstants, FS_Interval DEF Holds
<1>2. IsFiniteSet(H)
  BY <1>1, FS_Subset DEF BusyHolds
<1>3. IsFiniteSet(Appointments)
  BY CalendarConstants, FS_Interval DEF Appointments
<1>4. A \subseteq Appointments /\ IsFiniteSet(A)
  BY <1>3, FS_Subset DEF BusyAppointments
<1>5. Cardinality(A) \in Nat /\ Cardinality(H) \in Nat
  BY <1>2, <1>4, FS_CardinalityType
<1>6. k \in Nat
  BY CalendarConstants DEF TypeOK, CalendarRow
<1>7. Cardinality(A) + Cardinality(H) < k
  BY DEF HasRoom
<1>8. Cardinality(A) < k
  BY <1>5, <1>6, <1>7
<1>9. RivalsOf(a) \subseteq A
  BY DEF RivalsOf, Confirmed, BusyAppointments, CommittedStatuses, CapacityStatuses, Overlap
<1> QED
  BY <1>4, <1>6, <1>8, <1>9, SmallerRivals

LEMMA ConfirmWaits ==
  ASSUME NEW w \in Workers, ReceptionInv, ConfirmCalendar(w)
  PROVE  ReceptionInv'
<1>1. CASE Refuse(w)
  BY <1>1, RefuseStep
<1>2. CASE ~Refuse(w)
  <2>1. PICK t \in Request : t = txn[w]
    BY RelyAt
  <2>2. t.op = "confirm" /\ Confirming(w, t)
    BY <2>1, RelyAt DEF At, ConfirmCalendar
  <2> DEFINE u == [t EXCEPT !.pc = "notice", !.hold = None]
  <2>3. /\ u \in Request /\ u.op = "confirm" /\ u.pc = "notice"
        /\ u.appointment = t.appointment /\ u.calendar = t.calendar
        /\ u.notice = t.notice /\ u.override = t.override
    BY <2>2 DEF Request
  <2>4. /\ Free(<<"calendar", t.calendar>>) /\ Take(w, <<"calendar", t.calendar>>, u)
        /\ UNCHANGED <<calendar, notice, hold, appointment, phase>>
        /\ \/ t.override
           \/ \E X \in {{t.hold} \cup M : M \in SUBSET InTransit} :
                HasRoom(t.calendar, appointment[t.appointment].slot, {t.appointment}, X)
        /\ ~VehicleConflict(t.appointment)
    BY <1>2, <2>1 DEF ConfirmCalendar
  <2> HIDE DEF u
  <2>5. /\ t.notice \in Notices /\ t.calendar \in Calendars /\ t.appointment \in Appointments
        /\ appointment[t.appointment].status = "PROPOSED"
        /\ appointment[t.appointment].calendar = t.calendar
        /\ appointment[t.appointment].notice = t.notice
    BY <2>2 DEF Confirming
  <2>6. lock'[<<"calendar", t.calendar>>] = w /\ lock'[<<"appointment", t.appointment>>] = w
    BY <2>2, <2>4, <2>5, RowMember DEF Take, ReceptionInv, TypeOK, Confirming, Owns
  <2>7. t.override \/ Cardinality(RivalsOf(t.appointment)) < calendar[t.calendar].limit
    BY <2>4, <2>5, RoomTested DEF ReceptionInv
  <2>8. VehicleOf[t.notice] # NoVehicle =>
          \A b \in RivalsOf(t.appointment) :
            VehicleOf[appointment[b].notice] # VehicleOf[t.notice]
    BY <2>4, <2>5 DEF VehicleConflict, RivalsOf, Confirmed, CommittedStatuses
  <2>9. RoomKept(u)'
    BY <2>3, <2>4, <2>7, <2>8 DEF RoomKept, RivalsOf, Confirmed
  <2>10. Relies(w, u)'
    BY <2>3, <2>4, <2>5, <2>6, <2>9 DEF Relies, Confirming, Owns
  <2> QED
    BY <2>3, <2>4, <2>5, <2>10, RowMember, LockStep
<1> QED
  BY <1>1, <1>2

-----------------------------------------------------------------------------
(* Steps that write rows and end their transaction. *)

LEMMA EndStep ==
  ASSUME NEW w \in Workers, ReceptionInv, End(w)
  PROVE  /\ lock' \in [Rows -> Workers \cup {None}]
         /\ txn' \in [Workers -> Request]
         /\ \A v \in Workers \ {w} :
              txn'[v] = txn[v] /\ \A r \in Rows : lock[r] = v => lock'[r] = v
         /\ Relies(w, txn[w])'
<1>1. lock' \in [Rows -> Workers \cup {None}]
  BY DEF End, ReceptionInv, TypeOK
<1>2. txn' = [txn EXCEPT ![w] = Idle] /\ txn \in [Workers -> Request]
  BY DEF End, ReceptionInv, TypeOK
<1>3. txn' \in [Workers -> Request]
  BY <1>2, IdleRequest
<1>4. txn'[w] = Idle /\ \A v \in Workers \ {w} : txn'[v] = txn[v]
  BY <1>2
<1>5. \A v \in Workers \ {w}, r \in Rows : lock[r] = v => lock'[r] = v
  BY DEF End
<1>6. Relies(w, txn[w])'
  BY <1>4 DEF Relies
<1> QED
  BY <1>1, <1>3, <1>4, <1>5, <1>6

LEMMA CommitStep ==
  ASSUME NEW w \in Workers, ReceptionInv, End(w),
         calendar' \in [Calendars -> CalendarRow], notice' \in [Notices -> NoticeRow],
         hold' \in [Holds -> HoldRow], appointment' \in [Appointments -> AppointmentRow],
         phase' = phase, RowsLinked', Claims', VehicleOncePerCalendar',
         \A v \in Workers \ {w} : Undisturbed(v)
  PROVE  ReceptionInv'
<1>1. TypeOK'
  BY EndStep DEF TypeOK, ReceptionInv
<1>2. RequestsRely'
  BY <1>1, EndStep, RequestsKept DEF ReceptionInv
<1> QED
  BY <1>1, <1>2 DEF ReceptionInv

\* The confirmed appointments are the same, or fewer.
LEMMA NoNewBooking ==
  ASSUME VehicleOncePerCalendar,
         \A a \in Appointments : appointment'[a].status \in CommittedStatuses =>
           /\ appointment[a].status \in CommittedStatuses
           /\ appointment'[a].notice = appointment[a].notice
           /\ appointment'[a].calendar = appointment[a].calendar
           /\ appointment'[a].slot = appointment[a].slot
  PROVE  VehicleOncePerCalendar'
  BY DEF VehicleOncePerCalendar

LEMMA InsertHoldStep ==
  ASSUME NEW w \in Workers, ReceptionInv, CreatingHold(w, txn[w]),
         notice[txn[w].notice].status = "READY_FOR_SCHEDULING",
         lock[<<"notice", txn[w].notice>>] \in {w, None},
         NEW expired \in SUBSET Holds,
         ActiveHoldsOf(txn[w].notice) \subseteq expired,
         \A h \in expired : hold[h].status = "ACTIVE" /\ Free(<<"hold", h>>),
         InsertHold(w, expired)
  PROVE  ReceptionInv'
<1>1. CASE Refuse(w)
  BY <1>1, RefuseStep
<1>2. CASE ~Refuse(w)
  <2>1. PICK t \in Request : t = txn[w]
    BY RelyAt
  <2>2. PICK new \in Holds :
          /\ NextHold(new)
          /\ hold' = [h \in Holds |->
               IF h = new
               THEN [status |-> "ACTIVE", notice |-> t.notice, calendar |-> t.calendar,
                     slot |-> t.slot, due |-> FALSE, refreshes |-> 0]
               ELSE IF h \in expired THEN [hold[h] EXCEPT !.status = "EXPIRED"]
               ELSE hold[h]]
          /\ End(w) /\ UNCHANGED <<calendar, notice, appointment, phase>>
    BY <1>2, <2>1 DEF InsertHold
  <2>3. t.notice \in Notices /\ t.calendar \in Calendars /\ t.slot \in Slots
    BY <2>1 DEF CreatingHold
  <2>4. hold' \in [Holds -> HoldRow]
    <3>1. 0 \in 0 .. MaxRefreshes
      BY CalendarConstants
    <3>2. hold \in [Holds -> HoldRow]
      BY DEF ReceptionInv, TypeOK
    <3>3. [status |-> "ACTIVE", notice |-> t.notice, calendar |-> t.calendar,
           slot |-> t.slot, due |-> FALSE, refreshes |-> 0] \in HoldRow
      BY <2>3, <3>1 DEF HoldRow, HoldStatuses
    <3>4. \A h \in Holds : [hold[h] EXCEPT !.status = "EXPIRED"] \in HoldRow
      BY <3>2 DEF HoldRow, HoldStatuses
    <3> QED
      BY <2>2, <3>2, <3>3, <3>4
  <2>5. /\ hold'[new].status = "ACTIVE" /\ hold'[new].notice = t.notice
        /\ hold'[new].calendar = t.calendar /\ hold'[new].slot = t.slot
        /\ hold[new].status = None
    BY <2>2 DEF NextHold
  <2>6. \A h \in Holds \ {new} :
          /\ hold'[h].notice = hold[h].notice /\ hold'[h].calendar = hold[h].calendar
          /\ hold'[h].slot = hold[h].slot
          /\ h \notin expired => hold'[h].status = hold[h].status
          /\ h \in expired => hold'[h].status = "EXPIRED" /\ hold[h].status = "ACTIVE"
    <3> SUFFICES ASSUME NEW h \in Holds \ {new}
                 PROVE  /\ hold'[h].notice = hold[h].notice
                        /\ hold'[h].calendar = hold[h].calendar
                        /\ hold'[h].slot = hold[h].slot
                        /\ h \notin expired => hold'[h].status = hold[h].status
                        /\ h \in expired => hold'[h].status = "EXPIRED" /\ hold[h].status = "ACTIVE"
      OBVIOUS
    <3>1. hold[h] \in HoldRow
      BY DEF ReceptionInv, TypeOK
    <3>2. CASE h \in expired
      <4>1. hold'[h] = [hold[h] EXCEPT !.status = "EXPIRED"]
        BY <2>2, <3>2
      <4> QED
        BY <3>1, <3>2, <4>1 DEF HoldRow
    <3>3. CASE h \notin expired
      BY <2>2, <3>3
    <3> QED
      BY <3>2, <3>3
  <2>7. ActiveHoldsOf(t.notice)' \subseteq {new}
    BY <2>1, <2>6 DEF ActiveHoldsOf
  <2>8. \A n \in Notices \ {t.notice} : ActiveHoldsOf(n)' \subseteq ActiveHoldsOf(n)
    BY <2>5, <2>6 DEF ActiveHoldsOf
  <2>9. \A n \in Notices : AlreadyBooked(n)' <=> AlreadyBooked(n)
    BY <2>2 DEF AlreadyBooked
  <2>10. RowsLinked'
    BY <2>2, <2>3, <2>5, <2>6, StatusesNotNone DEF ReceptionInv, RowsLinked
  <2>11. Claims'
    <3>1. LiveIsCurrent'
      BY <2>2 DEF ReceptionInv, Claims, LiveIsCurrent
    <3>2. UnbookedNotices'
      BY <2>1, <2>2, <2>3, <2>8, <2>9 DEF ReceptionInv, Claims, UnbookedNotices
    <3>3. OneActiveHold'
      BY <2>7, <2>8 DEF ReceptionInv, Claims, OneActiveHold
    <3> QED
      BY <3>1, <3>2, <3>3 DEF Claims
  <2>12. VehicleOncePerCalendar'
    BY <2>2, NoNewBooking DEF ReceptionInv
  <2>13. ASSUME NEW v \in Workers \ {w}
         PROVE  Undisturbed(v)
    <3>1. None # v
      BY CalendarConstants
    <3>2. ~Owns(v, "notice", t.notice)
      BY <2>1, <3>1 DEF Owns
    <3>3. \A h \in Holds : hold[h].status # None /\ Owns(v, "hold", h) =>
            hold'[h].status = hold[h].status /\ hold'[h].notice = hold[h].notice
      BY <2>5, <2>6, <3>1 DEF Owns, Free
    <3>4. \A r \in Rows : lock[r] = v => lock'[r] = v
      BY <2>2, EndStep
    <3> QED
      BY <2>2, <2>8, <2>9, <3>2, <3>3, <3>4 DEF Undisturbed
  <2> QED
    BY <2>2, <2>4, <2>10, <2>11, <2>12, <2>13, CommitStep DEF ReceptionInv, TypeOK
<1> QED
  BY <1>1, <1>2

LEMMA CreateHoldNoticeStep ==
  ASSUME NEW w \in Workers, ReceptionInv, CreateHoldNotice(w)
  PROVE  ReceptionInv'
<1>1. At(w, "create_hold", "notice") /\ Free(<<"notice", txn[w].notice>>)
  BY DEF CreateHoldNotice
<1>2. CASE ~Schedulable(txn[w].calendar, txn[w].notice)
  BY <1>2, RefuseStep DEF CreateHoldNotice
<1>3. CASE Schedulable(txn[w].calendar, txn[w].notice) /\ ActiveHoldsOf(txn[w].notice) = {}
  <2>1. InsertHold(w, {})
    BY <1>3 DEF CreateHoldNotice
  <2>2. CreatingHold(w, txn[w])
    BY <1>1, RelyAt
  <2> QED
    BY <1>1, <1>3, <2>1, <2>2, InsertHoldStep DEF Free, Schedulable
<1>4. CASE Schedulable(txn[w].calendar, txn[w].notice) /\ ActiveHoldsOf(txn[w].notice) # {}
  BY <1>1, <1>4, CreateHoldWaits DEF CreateHoldNotice
<1> QED
  BY <1>2, <1>3, <1>4

LEMMA CreateHoldActiveStep ==
  ASSUME NEW w \in Workers, ReceptionInv, CreateHoldActive(w)
  PROVE  ReceptionInv'
<1> DEFINE h == txn[w].hold
           n == txn[w].notice
<1>1. At(w, "create_hold", "hold") /\ Free(<<"hold", h>>) /\ txn[w].pc = "hold"
  BY DEF CreateHoldActive, At
<1>2. /\ CreatingHold(w, txn[w]) /\ h \in Holds /\ lock[<<"notice", n>>] \in {w, None}
      /\ notice[n].status = "READY_FOR_SCHEDULING" /\ ActiveHoldsOf(n) \subseteq {h}
  BY <1>1, RelyAt DEF CreatingHold, Owns
<1>3. CASE hold[h].status # "ACTIVE"
  <2>1. InsertHold(w, {}) /\ ActiveHoldsOf(n) = {}
    BY <1>2, <1>3 DEF CreateHoldActive, ActiveHoldsOf
  <2> QED
    BY <1>2, <2>1, InsertHoldStep
<1>4. CASE hold[h].status = "ACTIVE" /\ hold[h].due
  <2>1. InsertHold(w, {h})
    BY <1>4 DEF CreateHoldActive
  <2> QED
    BY <1>1, <1>2, <1>4, <2>1, InsertHoldStep
<1>5. CASE hold[h].status = "ACTIVE" /\ ~hold[h].due
  BY <1>5, RefuseStep DEF CreateHoldActive
<1> QED
  BY <1>3, <1>4, <1>5

\* Only times and counters of one hold change.
LEMMA RefreshHoldCalendarStep ==
  ASSUME NEW w \in Workers, ReceptionInv, RefreshHoldCalendar(w)
  PROVE  ReceptionInv'
<1>1. CASE Refuse(w)
  BY <1>1, RefuseStep
<1>2. CASE ~Refuse(w)
  <2>1. PICK g \in Holds : g = txn[w].hold
    BY RelyAt DEF RefreshHoldCalendar, RefreshingHold
  <2>2. /\ hold[g].refreshes < MaxRefreshes /\ End(w)
        /\ UNCHANGED <<calendar, notice, appointment, phase>>
        /\ hold' = [hold EXCEPT ![g].due = FALSE, ![g].refreshes = @ + 1]
    BY <1>2, <2>1 DEF RefreshHoldCalendar
  <2>3. hold \in [Holds -> HoldRow]
    BY DEF ReceptionInv, TypeOK
  <2>4. hold'[g] = [hold[g] EXCEPT !.due = FALSE, !.refreshes = @ + 1]
    BY <2>2, <2>3
  <2>5. hold[g] \in HoldRow /\ hold[g].refreshes + 1 \in 0 .. MaxRefreshes
    BY <2>2, <2>3, CalendarConstants DEF HoldRow
  <2>6. hold'[g] \in HoldRow
    BY <2>4, <2>5 DEF HoldRow
  <2>7. hold' = [hold EXCEPT ![g] = hold'[g]]
    BY <2>2, <2>3
  <2>8. hold' \in [Holds -> HoldRow]
    BY <2>3, <2>6, <2>7
  <2>9. \A h \in Holds :
          /\ hold'[h].status = hold[h].status /\ hold'[h].notice = hold[h].notice
          /\ hold'[h].calendar = hold[h].calendar /\ hold'[h].slot = hold[h].slot
    <3>1. \A h \in Holds \ {g} : hold'[h] = hold[h]
      BY <2>3, <2>7
    <3> QED
      BY <2>4, <2>5, <3>1, ZenonT(30) DEF HoldRow
  <2>10. \A n \in Notices : ActiveHoldsOf(n)' = ActiveHoldsOf(n)
    BY <2>9 DEF ActiveHoldsOf
  <2>11. RowsLinked'
    BY <2>2, <2>9 DEF ReceptionInv, RowsLinked
  <2>12. Claims'
    BY <2>2, <2>10
    DEF ReceptionInv, Claims, LiveIsCurrent, UnbookedNotices, OneActiveHold, AlreadyBooked
  <2>13. VehicleOncePerCalendar'
    BY <2>2, NoNewBooking DEF ReceptionInv
  <2>14. ASSUME NEW v \in Workers \ {w}
         PROVE  Undisturbed(v)
    <3>1. \A r \in Rows : lock[r] = v => lock'[r] = v
      BY <2>2, EndStep
    <3> QED
      BY <2>2, <2>9, <2>10, <3>1 DEF Undisturbed, AlreadyBooked
  <2> QED
    BY <2>2, <2>8, <2>11, <2>12, <2>13, <2>14, CommitStep DEF ReceptionInv, TypeOK
<1> QED
  BY <1>1, <1>2

LEMMA CreateAppointmentCommitStep ==
  ASSUME NEW w \in Workers, ReceptionInv, CreateAppointmentCommit(w)
  PROVE  ReceptionInv'
<1>1. CASE Refuse(w)
  BY <1>1, RefuseStep
<1>2. CASE ~Refuse(w)
  <2>1. At(w, "create_appointment", "commit") /\ txn[w].pc = "commit"
    BY DEF CreateAppointmentCommit, At
  <2>2. PICK n \in Notices, g \in Holds : n = txn[w].notice /\ g = txn[w].hold
    BY <2>1, RelyAt DEF CreatingAppointment
  <2>3. /\ Owns(w, "hold", g) /\ Owns(w, "notice", n) /\ hold[g].status = "ACTIVE"
        /\ hold[g].notice = n /\ ~AlreadyBooked(n)
    BY <2>1, <2>2, RelyAt DEF CreatingAppointment
  <2>4. hold[g].calendar \in Calendars /\ hold[g].slot \in Slots
    BY <2>3, StatusesNotNone DEF ReceptionInv, RowsLinked
  <2>5. PICK c \in Calendars, s \in Slots : c = hold[g].calendar /\ s = hold[g].slot
    BY <2>4
  <2>6. PICK a \in Appointments :
          /\ NextAppointment(a)
          /\ appointment' = [appointment EXCEPT ![a] =
               [status |-> "PROPOSED", notice |-> n, calendar |-> c, slot |-> s,
                override |-> FALSE]]
          /\ notice' = [notice EXCEPT ![n].status = "SCHEDULED", ![n].appointment = a]
          /\ Consume(g) /\ End(w) /\ UNCHANGED <<calendar, phase>>
    BY <1>2, <2>2, <2>5 DEF CreateAppointmentCommit
  <2>7. appointment \in [Appointments -> AppointmentRow] /\ notice \in [Notices -> NoticeRow]
        /\ hold \in [Holds -> HoldRow]
    BY DEF ReceptionInv, TypeOK
  <2>8. /\ appointment'[a].status = "PROPOSED" /\ appointment'[a].notice = n
        /\ appointment'[a].calendar = c /\ appointment'[a].slot = s
        /\ appointment[a].status = None
        /\ \A b \in Appointments \ {a} : appointment'[b] = appointment[b]
    BY <2>6, <2>7 DEF NextAppointment
  <2>9. appointment' \in [Appointments -> AppointmentRow]
    BY <2>6, <2>7 DEF AppointmentRow, AppointmentStatuses
  <2>10. notice'[n] = [notice[n] EXCEPT !.status = "SCHEDULED", !.appointment = a]
         /\ \A m \in Notices \ {n} : notice'[m] = notice[m]
    BY <2>6, <2>7
  <2>11. notice'[n].status = "SCHEDULED" /\ notice'[n].appointment = a
         /\ notice'[n] \in NoticeRow
    BY <2>7, <2>10 DEF NoticeRow, NoticeStatuses
  <2>12. notice' \in [Notices -> NoticeRow]
    BY <2>6, <2>7, <2>11
  <2>13. hold'[g] = [hold[g] EXCEPT !.status = "CONSUMED"]
         /\ \A h \in Holds \ {g} : hold'[h] = hold[h]
    BY <2>6, <2>7 DEF Consume
  <2>14. /\ hold'[g].status = "CONSUMED" /\ hold'[g].notice = n /\ hold'[g].calendar = c
         /\ hold'[g].slot = s /\ hold'[g] \in HoldRow
    BY <2>3, <2>5, <2>7, <2>13 DEF HoldRow, HoldStatuses
  <2>15. hold' \in [Holds -> HoldRow]
    BY <2>6, <2>7, <2>14 DEF Consume
  <2>16. ActiveHoldsOf(n)' = {}
    <3>1. ActiveHoldsOf(n) \subseteq {g}
      BY <2>3 DEF ReceptionInv, Claims, OneActiveHold, ActiveHoldsOf
    <3> QED
      BY <2>13, <2>14, <3>1 DEF ActiveHoldsOf
  <2>17. \A m \in Notices : ActiveHoldsOf(m)' \subseteq ActiveHoldsOf(m)
    BY <2>13, <2>14 DEF ActiveHoldsOf
  <2>18. \A m \in Notices \ {n} : AlreadyBooked(m)' <=> AlreadyBooked(m)
    BY <2>7, <2>8, <2>10 DEF AlreadyBooked, ReceptionInv, RowsLinked, NoticeRow
  <2>19. RowsLinked'
    <3>1. \A h \in Holds : hold'[h].status # None =>
            hold'[h].notice \in Notices /\ hold'[h].calendar \in Calendars
              /\ hold'[h].slot \in Slots
      BY <2>5, <2>13, <2>14, ZenonT(30) DEF ReceptionInv, RowsLinked
    <3>2. \A b \in Appointments : appointment'[b].status # None =>
            appointment'[b].notice \in Notices /\ appointment'[b].calendar \in Calendars
              /\ appointment'[b].slot \in Slots
      BY <2>8 DEF ReceptionInv, RowsLinked
    <3>3. \A m \in Notices : notice'[m].appointment # None =>
            appointment'[notice'[m].appointment].status # None
      <4> SUFFICES ASSUME NEW m \in Notices, notice'[m].appointment # None
                   PROVE  appointment'[notice'[m].appointment].status # None
        OBVIOUS
      <4>1. "PROPOSED" # None
        BY StatusesNotNone
      <4>2. CASE m = n
        BY <2>8, <2>11, <4>1, <4>2
      <4>3. CASE m # n
        <5>1. notice'[m] = notice[m] /\ notice[m].appointment \in Appointments
          BY <2>7, <2>10, <4>3 DEF NoticeRow
        <5>2. appointment[notice[m].appointment].status # None
          BY <5>1 DEF ReceptionInv, RowsLinked
        <5> QED
          BY <2>8, <5>1, <5>2
      <4> QED
        BY <4>2, <4>3
    <3> QED
      BY <3>1, <3>2, <3>3 DEF RowsLinked
  <2>20. Claims'
    <3>1. LiveIsCurrent'
      <4>1. \A b \in Appointments : appointment[b].status \in CapacityStatuses =>
              appointment[b].notice \in Notices \ {n}
        <5> SUFFICES ASSUME NEW b \in Appointments, appointment[b].status \in CapacityStatuses
                     PROVE  appointment[b].notice \in Notices \ {n}
          OBVIOUS
        <5>1. appointment[b].notice \in Notices
          BY StatusesNotNone DEF ReceptionInv, RowsLinked
        <5>2. notice[appointment[b].notice].appointment = b
          BY DEF ReceptionInv, Claims, LiveIsCurrent
        <5>3. b # None /\ appointment[b].status # "CANCELLED"
          BY CalendarConstants DEF CapacityStatuses
        <5> QED
          BY <2>3, <5>1, <5>2, <5>3 DEF AlreadyBooked
      <4> SUFFICES ASSUME NEW b \in Appointments, appointment'[b].status \in CapacityStatuses
                   PROVE  notice'[appointment'[b].notice].appointment = b
        BY DEF LiveIsCurrent
      <4>2. CASE b = a
        BY <2>8, <2>11, <4>2
      <4>3. CASE b # a
        <5>1. appointment'[b] = appointment[b]
          BY <2>8, <4>3
        <5>2. notice[appointment[b].notice].appointment = b
          BY <5>1 DEF LiveIsCurrent, ReceptionInv, Claims
        <5> QED
          BY <2>10, <4>1, <5>1, <5>2
      <4> QED
        BY <4>2, <4>3
    <3>2. UnbookedNotices'
      BY <2>10, <2>11, <2>16, <2>17, <2>18 DEF ReceptionInv, Claims, UnbookedNotices
    <3>3. OneActiveHold'
      BY <2>17 DEF ReceptionInv, Claims, OneActiveHold
    <3> QED
      BY <3>1, <3>2, <3>3 DEF Claims
  <2>21. \A b \in Appointments : appointment'[b].status \in CommittedStatuses =>
           /\ appointment[b].status \in CommittedStatuses
           /\ appointment'[b] = appointment[b]
    BY <2>8 DEF CommittedStatuses
  <2>22. VehicleOncePerCalendar'
    BY <2>21, NoNewBooking DEF ReceptionInv
  <2>23. ASSUME NEW v \in Workers \ {w}
         PROVE  Undisturbed(v)
    <3>1. \A r \in Rows : lock[r] = v => lock'[r] = v
      BY <2>6, EndStep
    <3>2. ~Owns(v, "hold", g) /\ ~Owns(v, "notice", n)
      BY <2>3 DEF Owns
    <3>3. \A h \in Holds : hold[h].status # None /\ Owns(v, "hold", h) =>
            hold'[h].status = hold[h].status /\ hold'[h].notice = hold[h].notice
      BY <2>13, <3>2
    <3>4. \A m \in Notices : Owns(v, "notice", m) =>
            /\ notice'[m].status = notice[m].status
            /\ ActiveHoldsOf(m)' \subseteq ActiveHoldsOf(m)
            /\ AlreadyBooked(m)' => AlreadyBooked(m)
      BY <2>10, <2>17, <2>18, <3>2
    <3>5. \A b \in Appointments : appointment[b].status # None =>
            appointment'[b] = appointment[b]
      BY <2>8
    <3> QED
      BY <2>6, <2>21, <3>1, <3>3, <3>4, <3>5 DEF Undisturbed
  <2> QED
    BY <2>6, <2>9, <2>12, <2>15, <2>19, <2>20, <2>22, <2>23, CommitStep
    DEF ReceptionInv, TypeOK
<1> QED
  BY <1>1, <1>2

LEMMA ConfirmNoticeStep ==
  ASSUME NEW w \in Workers, ReceptionInv, ConfirmNotice(w)
  PROVE  ReceptionInv'
<1>1. At(w, "confirm", "notice") /\ txn[w].pc = "notice" /\ End(w)
  BY DEF ConfirmNotice, At
<1>2. PICK t \in Request : t = txn[w]
  BY RelyAt
<1>3. PICK n \in Notices, a \in Appointments, c \in Calendars, o \in BOOLEAN :
        n = t.notice /\ a = t.appointment /\ c = t.calendar /\ o = t.override
  <2>1. t.override \in BOOLEAN
    BY DEF Request
  <2> QED
    BY <1>1, <1>2, <2>1, RelyAt DEF Confirming
<1>4. /\ Owns(w, "appointment", a) /\ Owns(w, "calendar", c) /\ RoomKept(t)
      /\ appointment[a].status = "PROPOSED" /\ appointment[a].calendar = c
      /\ appointment[a].notice = n
  BY <1>1, <1>2, <1>3, RelyAt DEF Confirming
<1>5. /\ appointment' = [appointment EXCEPT ![a].status = "CONFIRMED", ![a].override = o]
      /\ notice' = [notice EXCEPT ![n].status = "CONFIRMED"]
      /\ UNCHANGED <<calendar, hold, phase>> /\ Free(<<"notice", n>>)
  BY <1>2, <1>3 DEF ConfirmNotice
<1>6. appointment \in [Appointments -> AppointmentRow] /\ notice \in [Notices -> NoticeRow]
  BY DEF ReceptionInv, TypeOK
<1>7. /\ appointment'[a] = [appointment[a] EXCEPT !.status = "CONFIRMED", !.override = o]
      /\ \A b \in Appointments \ {a} : appointment'[b] = appointment[b]
  BY <1>5, <1>6
<1>8. /\ appointment'[a].status = "CONFIRMED" /\ appointment'[a].notice = n
      /\ appointment'[a].calendar = c /\ appointment'[a].slot = appointment[a].slot
      /\ appointment'[a] \in AppointmentRow
  <2>1. appointment[a] \in AppointmentRow
    BY <1>6
  <2> QED
    BY <1>4, <1>7, <2>1 DEF AppointmentRow, AppointmentStatuses
<1>9. appointment' \in [Appointments -> AppointmentRow]
  BY <1>5, <1>6, <1>8
<1>10. notice'[n] = [notice[n] EXCEPT !.status = "CONFIRMED"]
       /\ \A m \in Notices \ {n} : notice'[m] = notice[m]
  BY <1>5, <1>6
<1>11. /\ notice'[n].status = "CONFIRMED" /\ notice'[n].appointment = notice[n].appointment
       /\ notice'[n] \in NoticeRow
  BY <1>6, <1>10 DEF NoticeRow, NoticeStatuses
<1>12. notice' \in [Notices -> NoticeRow]
  BY <1>5, <1>6, <1>11
<1>13. \A m \in Notices : ActiveHoldsOf(m)' = ActiveHoldsOf(m)
  BY <1>5 DEF ActiveHoldsOf
<1>14. \A m \in Notices : notice'[m].appointment = notice[m].appointment
  BY <1>10, <1>11
<1>15. \A m \in Notices : AlreadyBooked(m)' <=> AlreadyBooked(m)
  <2>1. \A b \in Appointments : appointment'[b].status = "CANCELLED" <=> appointment[b].status = "CANCELLED"
    BY <1>4, <1>7, <1>8
  <2>2. \A m \in Notices : notice[m].appointment \in Appointments \cup {None}
    BY <1>6 DEF NoticeRow
  <2> QED
    BY <1>14, <2>1, <2>2 DEF AlreadyBooked
<1>16. RowsLinked'
  <2>1. \A b \in Appointments : appointment'[b].status # None =>
          appointment'[b].notice \in Notices /\ appointment'[b].calendar \in Calendars
            /\ appointment'[b].slot \in Slots
    BY <1>4, <1>7, <1>8, StatusesNotNone DEF ReceptionInv, RowsLinked
  <2>2. \A b \in Appointments : appointment[b].status # None => appointment'[b].status # None
    BY <1>7, <1>8, StatusesNotNone
  <2>3. \A m \in Notices : notice[m].appointment \in Appointments \cup {None}
    BY <1>6 DEF NoticeRow
  <2>4. \A m \in Notices : notice'[m].appointment # None =>
          appointment'[notice'[m].appointment].status # None
    BY <1>14, <2>2, <2>3 DEF ReceptionInv, RowsLinked
  <2> QED
    BY <1>5, <2>1, <2>4 DEF ReceptionInv, RowsLinked
<1>17. Claims'
  <2>1. LiveIsCurrent'
    <3>1. \A b \in Appointments : appointment'[b].status \in CapacityStatuses =>
            /\ appointment[b].status \in CapacityStatuses
            /\ appointment'[b].notice = appointment[b].notice
      BY <1>4, <1>7, <1>8 DEF CapacityStatuses
    <3>2. \A b \in Appointments : appointment[b].status \in CapacityStatuses =>
            appointment[b].notice \in Notices
      BY StatusesNotNone DEF ReceptionInv, RowsLinked
    <3> QED
      BY <1>14, <3>1, <3>2 DEF ReceptionInv, Claims, LiveIsCurrent
  <2>2. UnbookedNotices'
    BY <1>10, <1>11, <1>13, <1>15 DEF ReceptionInv, Claims, UnbookedNotices
  <2>3. OneActiveHold'
    BY <1>13 DEF ReceptionInv, Claims, OneActiveHold
  <2> QED
    BY <2>1, <2>2, <2>3 DEF Claims
<1>18. VehicleOncePerCalendar'
  <2>1. ASSUME NEW b \in Appointments \ {a}, appointment[b].status \in CommittedStatuses,
               appointment[b].calendar = c, VehicleOf[appointment[b].notice] = VehicleOf[n],
               VehicleOf[n] # NoVehicle
        PROVE  ~Overlap(appointment[b].slot, appointment[a].slot)
    BY <1>3, <1>4, <2>1 DEF RoomKept, RivalsOf, Confirmed
  <2>2. ASSUME NEW b \in Appointments \ {a}, appointment[b].status \in CommittedStatuses,
               appointment[b].calendar = c, VehicleOf[appointment[b].notice] = VehicleOf[n],
               VehicleOf[n] # NoVehicle
        PROVE  ~Overlap(appointment[a].slot, appointment[b].slot)
    BY <2>1, <2>2 DEF Overlap
  <2> SUFFICES ASSUME NEW x \in Appointments, NEW y \in Appointments, x # y,
                      appointment'[x].status \in CommittedStatuses,
                      appointment'[y].status \in CommittedStatuses,
                      appointment'[x].calendar = appointment'[y].calendar,
                      VehicleOf[appointment'[x].notice] = VehicleOf[appointment'[y].notice],
                      VehicleOf[appointment'[x].notice] # NoVehicle
               PROVE  ~Overlap(appointment'[x].slot, appointment'[y].slot)
    BY DEF VehicleOncePerCalendar
  <2>3. CASE x = a
    BY <1>7, <1>8, <2>2, <2>3
  <2>4. CASE y = a
    BY <1>7, <1>8, <2>1, <2>4
  <2>5. CASE x # a /\ y # a
    BY <1>7, <2>5 DEF VehicleOncePerCalendar, ReceptionInv
  <2> QED
    BY <2>3, <2>4, <2>5
<1>19. ASSUME NEW v \in Workers \ {w}
       PROVE  Undisturbed(v)
  <2>1. \A r \in Rows : lock[r] = v => lock'[r] = v
    BY <1>1, EndStep
  <2>2. v # None
    BY CalendarConstants
  <2>3. ~Owns(v, "appointment", a) /\ ~Owns(v, "calendar", c) /\ ~Owns(v, "notice", n)
    BY <1>4, <1>5, <2>2 DEF Owns, Free
  <2>4. \A m \in Notices : Owns(v, "notice", m) => notice'[m].status = notice[m].status
    BY <1>10, <2>3
  <2>5. \A b \in Appointments : Owns(v, "appointment", b) => appointment'[b] = appointment[b]
    BY <1>7, <2>3
  <2>6. \A d \in Calendars : Owns(v, "calendar", d) =>
          /\ calendar'[d].limit = calendar[d].limit
          /\ \A b \in Appointments : appointment'[b].calendar = d => appointment'[b] = appointment[b]
    BY <1>5, <1>7, <1>8, <2>3
  <2> QED
    BY <1>5, <1>13, <1>15, <2>1, <2>4, <2>5, <2>6 DEF Undisturbed
<1> QED
  BY <1>1, <1>5, <1>9, <1>12, <1>16, <1>17, <1>18, <1>19, CommitStep DEF ReceptionInv, TypeOK

LEMMA CancelNoticeRowStep ==
  ASSUME NEW w \in Workers, ReceptionInv, CancelNoticeRow(w)
  PROVE  ReceptionInv'
<1>1. At(w, "cancel", "notice") /\ txn[w].pc = "notice" /\ End(w)
  BY DEF CancelNoticeRow, At
<1>2. PICK t \in Request : t = txn[w]
  BY RelyAt
<1>3. PICK n \in Notices, a \in Appointments : n = t.notice /\ a = t.appointment
  BY <1>1, <1>2, RelyAt DEF Cancelling
<1>4. /\ Owns(w, "appointment", a) /\ appointment[a].status \in CapacityStatuses
      /\ appointment[a].notice = n /\ notice[n].appointment = a
  <2>1. Cancelling(w, t)
    BY <1>1, <1>2, RelyAt
  <2> QED
    BY <1>3, <2>1 DEF Cancelling, ReceptionInv, Claims, LiveIsCurrent
<1>5. /\ appointment' = [appointment EXCEPT ![a].status = "CANCELLED"]
      /\ notice' = [notice EXCEPT ![n].status = "READY_FOR_SCHEDULING"]
      /\ UNCHANGED <<calendar, hold, phase>> /\ Free(<<"notice", n>>)
  BY <1>2, <1>3, <1>4 DEF CancelNoticeRow
<1>6. appointment \in [Appointments -> AppointmentRow] /\ notice \in [Notices -> NoticeRow]
  BY DEF ReceptionInv, TypeOK
<1>7. /\ appointment'[a] = [appointment[a] EXCEPT !.status = "CANCELLED"]
      /\ \A b \in Appointments \ {a} : appointment'[b] = appointment[b]
  BY <1>5, <1>6
<1>8. /\ appointment'[a].status = "CANCELLED" /\ appointment'[a].notice = n
      /\ appointment'[a].calendar = appointment[a].calendar
      /\ appointment'[a].slot = appointment[a].slot
      /\ appointment'[a] \in AppointmentRow
  <2>1. appointment[a] \in AppointmentRow
    BY <1>6
  <2> QED
    BY <1>4, <1>7, <2>1 DEF AppointmentRow, AppointmentStatuses
<1>9. appointment' \in [Appointments -> AppointmentRow]
  BY <1>5, <1>6, <1>8
<1>10. notice'[n] = [notice[n] EXCEPT !.status = "READY_FOR_SCHEDULING"]
       /\ \A m \in Notices \ {n} : notice'[m] = notice[m]
  BY <1>5, <1>6
<1>11. notice'[n].appointment = a /\ notice'[n] \in NoticeRow
  <2>1. notice[n] \in NoticeRow
    BY <1>6
  <2> QED
    BY <1>4, <1>10, <2>1 DEF NoticeRow, NoticeStatuses
<1>12. notice' \in [Notices -> NoticeRow]
  BY <1>5, <1>6, <1>11
<1>13. \A m \in Notices : ActiveHoldsOf(m)' = ActiveHoldsOf(m)
  BY <1>5 DEF ActiveHoldsOf
<1>14. \A m \in Notices : notice'[m].appointment = notice[m].appointment
  BY <1>4, <1>10, <1>11
<1>15. \A b \in Appointments :
         /\ appointment[b].status # None => appointment'[b].status # None
         /\ appointment[b].status = "CANCELLED" => appointment'[b].status = "CANCELLED"
         /\ appointment'[b].status \in CapacityStatuses =>
              b # a /\ appointment'[b] = appointment[b]
  BY <1>7, <1>8, StatusesNotNone DEF CapacityStatuses
<1>16. \A m \in Notices : AlreadyBooked(m)' => AlreadyBooked(m)
  <2>1. \A m \in Notices : notice[m].appointment \in Appointments \cup {None}
    BY <1>6 DEF NoticeRow
  <2> QED
    BY <1>14, <1>15, <2>1 DEF AlreadyBooked
<1>17. ~AlreadyBooked(n)'
  BY <1>8, <1>11 DEF AlreadyBooked
<1>18. RowsLinked'
  <2>1. \A b \in Appointments : appointment'[b].status # None =>
          appointment'[b].notice \in Notices /\ appointment'[b].calendar \in Calendars
            /\ appointment'[b].slot \in Slots
    BY <1>4, <1>7, <1>8, StatusesNotNone DEF ReceptionInv, RowsLinked
  <2>2. \A m \in Notices : notice[m].appointment \in Appointments \cup {None}
    BY <1>6 DEF NoticeRow
  <2>3. \A m \in Notices : notice'[m].appointment # None =>
          appointment'[notice'[m].appointment].status # None
    BY <1>14, <1>15, <2>2 DEF ReceptionInv, RowsLinked
  <2> QED
    BY <1>5, <2>1, <2>3 DEF ReceptionInv, RowsLinked
<1>19. Claims'
  <2>1. \A b \in Appointments : appointment[b].status \in CapacityStatuses =>
          appointment[b].notice \in Notices
    BY StatusesNotNone DEF ReceptionInv, RowsLinked
  <2>2. LiveIsCurrent'
    BY <1>14, <1>15, <2>1 DEF ReceptionInv, Claims, LiveIsCurrent
  <2>3. UnbookedNotices'
    BY <1>10, <1>13, <1>16, <1>17 DEF ReceptionInv, Claims, UnbookedNotices
  <2>4. OneActiveHold'
    BY <1>13 DEF ReceptionInv, Claims, OneActiveHold
  <2> QED
    BY <2>2, <2>3, <2>4 DEF Claims
<1>20. \A b \in Appointments : appointment'[b].status \in CommittedStatuses =>
         /\ appointment[b].status \in CommittedStatuses
         /\ appointment'[b] = appointment[b]
  BY <1>7, <1>8 DEF CommittedStatuses
<1>21. VehicleOncePerCalendar'
  BY <1>20, NoNewBooking DEF ReceptionInv
<1>22. ASSUME NEW v \in Workers \ {w}
       PROVE  Undisturbed(v)
  <2>1. \A r \in Rows : lock[r] = v => lock'[r] = v
    BY <1>1, EndStep
  <2>2. v # None
    BY CalendarConstants
  <2>3. ~Owns(v, "appointment", a) /\ ~Owns(v, "notice", n)
    BY <1>4, <1>5, <2>2 DEF Owns, Free
  <2>4. \A m \in Notices : Owns(v, "notice", m) => notice'[m].status = notice[m].status
    BY <1>10, <2>3
  <2>5. \A b \in Appointments : Owns(v, "appointment", b) => appointment'[b] = appointment[b]
    BY <1>7, <2>3
  <2> QED
    BY <1>5, <1>13, <1>16, <1>20, <2>1, <2>4, <2>5 DEF Undisturbed
<1> QED
  BY <1>1, <1>5, <1>9, <1>12, <1>18, <1>19, <1>21, <1>22, CommitStep DEF ReceptionInv, TypeOK

-----------------------------------------------------------------------------
(* Steps on one row, outside the multi-row transactions. *)

LEMMA RowStep ==
  ASSUME ReceptionInv, UNCHANGED <<lock, txn>>,
         calendar' \in [Calendars -> CalendarRow], notice' \in [Notices -> NoticeRow],
         hold' \in [Holds -> HoldRow], appointment' \in [Appointments -> AppointmentRow],
         phase' \in [Slots -> {"open", "cutoff", "begun"}],
         RowsLinked', Claims', VehicleOncePerCalendar',
         \A v \in Workers : Undisturbed(v)
  PROVE  ReceptionInv'
<1>1. TypeOK'
  BY DEF TypeOK, ReceptionInv
<1>2. ASSUME NEW w \in Workers
      PROVE  Relies(w, txn[w])'
  <2>1. PICK t \in Request : t = txn[w]
    BY DEF TypeOK, ReceptionInv
  <2>2. Relies(w, t)
    BY <2>1 DEF ReceptionInv, RequestsRely
  <2>3. Relies(w, t)'
    BY <1>1, <2>2, RelyStable DEF ReceptionInv
  <2> QED
    BY <2>1, <2>3, RelyOfEqual
<1>3. RequestsRely'
  BY <1>2 DEF RequestsRely
<1> QED
  BY <1>1, <1>3 DEF ReceptionInv

LEMMA HoldRowStep ==
  ASSUME ReceptionInv, hold' \in [Holds -> HoldRow],
         UNCHANGED <<calendar, notice, appointment, phase, lock, txn>>,
         \A h \in Holds :
           /\ hold'[h].notice = hold[h].notice /\ hold'[h].calendar = hold[h].calendar
           /\ hold'[h].slot = hold[h].slot
           /\ \/ hold'[h].status = hold[h].status
              \/ /\ hold[h].status = "ACTIVE" /\ Free(<<"hold", h>>)
                 /\ hold'[h].status \in {"EXPIRED", "CANCELLED"}
  PROVE  ReceptionInv'
<1>1. \A n \in Notices : ActiveHoldsOf(n)' \subseteq ActiveHoldsOf(n)
  BY DEF ActiveHoldsOf
<1>2. RowsLinked'
  BY StatusesNotNone DEF ReceptionInv, RowsLinked
<1>3. Claims'
  BY <1>1 DEF ReceptionInv, Claims, LiveIsCurrent, UnbookedNotices, OneActiveHold, AlreadyBooked
<1>4. VehicleOncePerCalendar'
  BY NoNewBooking DEF ReceptionInv
<1>5. ASSUME NEW v \in Workers
      PROVE  Undisturbed(v)
  <2>1. v # None
    BY CalendarConstants
  <2> QED
    BY <1>1, <2>1 DEF Undisturbed, Owns, Free, AlreadyBooked
<1> QED
  BY <1>2, <1>3, <1>4, <1>5, RowStep DEF ReceptionInv, TypeOK

LEMMA CancelHoldStep ==
  ASSUME NEW h \in Holds, ReceptionInv, CancelHold(h)
  PROVE  ReceptionInv'
<1>1. PICK s \in {"EXPIRED", "CANCELLED"} :
        hold' = [hold EXCEPT ![h].status = s]
  BY DEF CancelHold
<1>2. hold \in [Holds -> HoldRow] /\ hold[h] \in HoldRow
  BY DEF ReceptionInv, TypeOK
<1>3. hold'[h] = [hold[h] EXCEPT !.status = s] /\ \A g \in Holds \ {h} : hold'[g] = hold[g]
  BY <1>1, <1>2
<1>4. /\ hold'[h] \in HoldRow /\ hold'[h].status = s /\ hold'[h].notice = hold[h].notice
      /\ hold'[h].calendar = hold[h].calendar /\ hold'[h].slot = hold[h].slot
  BY <1>2, <1>3 DEF HoldRow, HoldStatuses
<1>5. hold' \in [Holds -> HoldRow]
  BY <1>1, <1>2, <1>4
<1> QED
  BY <1>3, <1>4, <1>5, HoldRowStep DEF CancelHold

LEMMA HoldComesDueStep ==
  ASSUME NEW h \in Holds, ReceptionInv, HoldComesDue(h)
  PROVE  ReceptionInv'
<1>1. hold \in [Holds -> HoldRow] /\ hold[h] \in HoldRow
  BY DEF ReceptionInv, TypeOK
<1>2. hold'[h] = [hold[h] EXCEPT !.due = TRUE] /\ \A g \in Holds \ {h} : hold'[g] = hold[g]
  BY <1>1 DEF HoldComesDue
<1>3. /\ hold'[h] \in HoldRow /\ hold'[h].status = hold[h].status
      /\ hold'[h].notice = hold[h].notice
      /\ hold'[h].calendar = hold[h].calendar /\ hold'[h].slot = hold[h].slot
  BY <1>1, <1>2 DEF HoldRow
<1>4. hold' \in [Holds -> HoldRow]
  BY <1>1, <1>3 DEF HoldComesDue
<1> QED
  BY <1>2, <1>3, <1>4, HoldRowStep DEF HoldComesDue

LEMMA ExpireHoldsStep ==
  ASSUME ReceptionInv, ExpireHolds
  PROVE  ReceptionInv'
<1> DEFINE found == {h \in Holds : /\ hold[h].status = "ACTIVE" /\ hold[h].due
                                   /\ Free(<<"hold", h>>)}
<1>1. hold \in [Holds -> HoldRow]
  BY DEF ReceptionInv, TypeOK
<1>2. hold' = [h \in Holds |-> IF h \in found THEN [hold[h] EXCEPT !.status = "EXPIRED"]
                               ELSE hold[h]]
  BY DEF ExpireHolds
<1>3. ASSUME NEW h \in Holds
      PROVE  /\ hold'[h] \in HoldRow
             /\ hold'[h].notice = hold[h].notice /\ hold'[h].calendar = hold[h].calendar
             /\ hold'[h].slot = hold[h].slot
             /\ \/ hold'[h].status = hold[h].status
                \/ /\ hold[h].status = "ACTIVE" /\ Free(<<"hold", h>>)
                   /\ hold'[h].status \in {"EXPIRED", "CANCELLED"}
  <2>1. hold[h] \in HoldRow
    BY <1>1
  <2>2. CASE h \in found
    <3>1. hold'[h] = [hold[h] EXCEPT !.status = "EXPIRED"]
      BY <1>2, <2>2
    <3> QED
      BY <2>1, <2>2, <3>1 DEF HoldRow, HoldStatuses
  <2>3. CASE h \notin found
    BY <1>2, <2>1, <2>3
  <2> QED
    BY <2>2, <2>3
<1>4. hold' \in [Holds -> HoldRow]
  BY <1>2, <1>3
<1> QED
  BY <1>3, <1>4, HoldRowStep DEF ExpireHolds

LEMMA NoticeRowStep ==
  ASSUME ReceptionInv, NEW n \in Notices, Free(<<"notice", n>>),
         UNCHANGED <<calendar, hold, appointment, phase, lock, txn>>,
         notice' \in [Notices -> NoticeRow],
         \A m \in Notices \ {n} : notice'[m] = notice[m],
         notice'[n].appointment = notice[n].appointment,
         \/ notice'[n].status = "CANCELLED"
         \/ notice[n].status = "SUBMITTED"
  PROVE  ReceptionInv'
<1>1. \A m \in Notices : AlreadyBooked(m)' <=> AlreadyBooked(m)
  BY DEF AlreadyBooked
<1>2. \A m \in Notices : ActiveHoldsOf(m)' = ActiveHoldsOf(m)
  BY DEF ActiveHoldsOf
<1>3. \A m \in Notices : notice'[m].appointment = notice[m].appointment
  OBVIOUS
<1>4. RowsLinked'
  BY <1>3 DEF ReceptionInv, RowsLinked
<1>5. Claims'
  <2>1. \A a \in Appointments : appointment[a].status \in CapacityStatuses =>
          appointment[a].notice \in Notices
    BY StatusesNotNone DEF ReceptionInv, RowsLinked
  <2>2. LiveIsCurrent'
    BY <1>3, <2>1 DEF ReceptionInv, Claims, LiveIsCurrent
  <2>3. UnbookedNotices'
    BY <1>1, <1>2 DEF ReceptionInv, Claims, UnbookedNotices
  <2>4. OneActiveHold'
    BY <1>2 DEF ReceptionInv, Claims, OneActiveHold
  <2> QED
    BY <2>2, <2>3, <2>4 DEF Claims
<1>6. VehicleOncePerCalendar'
  BY NoNewBooking DEF ReceptionInv
<1>7. ASSUME NEW v \in Workers
      PROVE  Undisturbed(v)
  <2>1. v # None
    BY CalendarConstants
  <2>2. ~Owns(v, "notice", n)
    BY <2>1 DEF Owns, Free
  <2> QED
    BY <1>1, <1>2, <2>2 DEF Undisturbed
<1> QED
  BY <1>4, <1>5, <1>6, <1>7, RowStep DEF ReceptionInv, TypeOK

LEMMA MarkReadyStep ==
  ASSUME NEW n \in Notices, ReceptionInv, MarkReady(n)
  PROVE  ReceptionInv'
<1>1. notice \in [Notices -> NoticeRow] /\ notice[n] \in NoticeRow
  BY DEF ReceptionInv, TypeOK
<1>2. /\ notice'[n] = [notice[n] EXCEPT !.status = "READY_FOR_SCHEDULING"]
      /\ \A m \in Notices \ {n} : notice'[m] = notice[m]
  BY <1>1 DEF MarkReady
<1>3. notice'[n] \in NoticeRow /\ notice'[n].appointment = notice[n].appointment
  BY <1>1, <1>2 DEF NoticeRow, NoticeStatuses
<1>4. notice' \in [Notices -> NoticeRow]
  BY <1>1, <1>3 DEF MarkReady
<1> QED
  BY <1>2, <1>3, <1>4, NoticeRowStep DEF MarkReady

LEMMA CancelNoticeStep ==
  ASSUME NEW n \in Notices, ReceptionInv, CancelNotice(n)
  PROVE  ReceptionInv'
<1>1. notice \in [Notices -> NoticeRow] /\ notice[n] \in NoticeRow
  BY DEF ReceptionInv, TypeOK
<1>2. /\ notice'[n] = [notice[n] EXCEPT !.status = "CANCELLED", !.announced = TRUE]
      /\ \A m \in Notices \ {n} : notice'[m] = notice[m]
  BY <1>1 DEF CancelNotice
<1>3. /\ notice'[n] \in NoticeRow /\ notice'[n].appointment = notice[n].appointment
      /\ notice'[n].status = "CANCELLED"
  BY <1>1, <1>2 DEF NoticeRow, NoticeStatuses
<1>4. notice' \in [Notices -> NoticeRow]
  BY <1>1, <1>3 DEF CancelNotice
<1> QED
  BY <1>2, <1>3, <1>4, NoticeRowStep DEF CancelNotice

LEMMA RequestRescheduleStep ==
  ASSUME NEW a \in Appointments, ReceptionInv, RequestReschedule(a)
  PROVE  ReceptionInv'
<1>1. appointment \in [Appointments -> AppointmentRow] /\ appointment[a] \in AppointmentRow
  BY DEF ReceptionInv, TypeOK
<1>2. /\ appointment[a].status = "CONFIRMED" /\ Free(<<"appointment", a>>)
      /\ UNCHANGED <<calendar, notice, hold, phase, lock, txn>>
      /\ appointment'[a] = [appointment[a] EXCEPT !.status = "RESCHEDULE_REQUESTED"]
      /\ \A b \in Appointments \ {a} : appointment'[b] = appointment[b]
  BY <1>1 DEF RequestReschedule
<1>3. /\ appointment'[a] \in AppointmentRow /\ appointment'[a].status = "RESCHEDULE_REQUESTED"
      /\ appointment'[a].notice = appointment[a].notice
      /\ appointment'[a].calendar = appointment[a].calendar
      /\ appointment'[a].slot = appointment[a].slot
  BY <1>1, <1>2 DEF AppointmentRow, AppointmentStatuses
<1>4. appointment' \in [Appointments -> AppointmentRow]
  BY <1>1, <1>3 DEF RequestReschedule
<1>5. \A b \in Appointments :
        /\ appointment[b].status # None <=> appointment'[b].status # None
        /\ appointment[b].status = "CANCELLED" <=> appointment'[b].status = "CANCELLED"
        /\ appointment'[b].status \in CapacityStatuses => appointment[b].status \in CapacityStatuses
        /\ appointment'[b].status \in CommittedStatuses =>
             appointment[b].status \in CommittedStatuses
        /\ appointment'[b].notice = appointment[b].notice
        /\ appointment'[b].calendar = appointment[b].calendar
        /\ appointment'[b].slot = appointment[b].slot
  BY <1>2, <1>3, StatusesNotNone DEF CapacityStatuses, CommittedStatuses
<1>6. \A m \in Notices : notice[m].appointment \in Appointments \cup {None}
  BY DEF ReceptionInv, TypeOK, NoticeRow
<1>7. \A m \in Notices : AlreadyBooked(m)' <=> AlreadyBooked(m)
  BY <1>2, <1>5, <1>6 DEF AlreadyBooked
<1>8. \A m \in Notices : ActiveHoldsOf(m)' = ActiveHoldsOf(m)
  BY <1>2 DEF ActiveHoldsOf
<1>9. RowsLinked'
  <2>1. \A b \in Appointments : appointment'[b].status # None =>
          appointment'[b].notice \in Notices /\ appointment'[b].calendar \in Calendars
            /\ appointment'[b].slot \in Slots
    BY <1>5 DEF ReceptionInv, RowsLinked
  <2>2. \A m \in Notices : notice[m].appointment # None =>
          appointment'[notice[m].appointment].status # None
    BY <1>5, <1>6 DEF ReceptionInv, RowsLinked
  <2> QED
    BY <1>2, <2>1, <2>2 DEF ReceptionInv, RowsLinked
<1>10. Claims'
  BY <1>2, <1>5, <1>7, <1>8
  DEF ReceptionInv, Claims, LiveIsCurrent, UnbookedNotices, OneActiveHold
<1>11. VehicleOncePerCalendar'
  BY <1>5, NoNewBooking DEF ReceptionInv
<1>12. ASSUME NEW v \in Workers
       PROVE  Undisturbed(v)
  <2>1. v # None
    BY CalendarConstants
  <2>2. \A b \in Appointments : Owns(v, "appointment", b) => appointment'[b] = appointment[b]
    BY <1>2, <2>1 DEF Owns, Free
  <2> QED
    BY <1>2, <1>5, <1>7, <1>8, <2>2 DEF Undisturbed
<1> QED
  BY <1>2, <1>4, <1>9, <1>10, <1>11, <1>12, RowStep DEF ReceptionInv, TypeOK

LEMMA CalendarRowStep ==
  ASSUME ReceptionInv, NEW c \in Calendars, Free(<<"calendar", c>>),
         UNCHANGED <<notice, hold, appointment, lock, txn>>,
         phase' \in [Slots -> {"open", "cutoff", "begun"}],
         calendar' \in [Calendars -> CalendarRow],
         \A d \in Calendars \ {c} : calendar'[d] = calendar[d]
  PROVE  ReceptionInv'
<1>1. \A m \in Notices : AlreadyBooked(m)' <=> AlreadyBooked(m)
  BY DEF AlreadyBooked
<1>2. \A m \in Notices : ActiveHoldsOf(m)' = ActiveHoldsOf(m)
  BY DEF ActiveHoldsOf
<1>3. RowsLinked' /\ Claims'
  BY <1>1, <1>2
  DEF ReceptionInv, RowsLinked, Claims, LiveIsCurrent, UnbookedNotices, OneActiveHold
<1>4. VehicleOncePerCalendar'
  BY NoNewBooking DEF ReceptionInv
<1>5. ASSUME NEW v \in Workers
      PROVE  Undisturbed(v)
  <2>1. v # None
    BY CalendarConstants
  <2>2. ~Owns(v, "calendar", c)
    BY <2>1 DEF Owns, Free
  <2> QED
    BY <1>1, <1>2, <2>2 DEF Undisturbed
<1> QED
  BY <1>3, <1>4, <1>5, RowStep DEF ReceptionInv, TypeOK

LEMMA CalendarOperations ==
  ASSUME ReceptionInv, NEW c \in Calendars,
         \/ \E target \in Targets : TransitionCalendar(c, target)
         \/ \E l \in Limits : UpdateCalendar(c, l)
         \/ \E s \in Blackouts : AddBlackout(c, s)
  PROVE  ReceptionInv'
<1>1. calendar \in [Calendars -> CalendarRow] /\ calendar[c] \in CalendarRow
  BY DEF ReceptionInv, TypeOK
<1>2. /\ Free(<<"calendar", c>>) /\ UNCHANGED <<notice, hold, appointment, phase, lock, txn>>
      /\ \A d \in Calendars \ {c} : calendar'[d] = calendar[d]
      /\ calendar' \in [Calendars -> CalendarRow]
  <2>1. CASE \E target \in Targets : TransitionCalendar(c, target)
    <3>1. PICK target \in Targets : TransitionCalendar(c, target)
      BY <2>1
    <3>2. [calendar[c] EXCEPT !.status = target] \in CalendarRow
      BY <1>1, CalendarConstants DEF CalendarRow
    <3> QED
      BY <1>1, <3>1, <3>2 DEF TransitionCalendar
  <2>2. CASE \E l \in Limits : UpdateCalendar(c, l)
    <3>1. PICK l \in Limits : UpdateCalendar(c, l)
      BY <2>2
    <3>2. [calendar[c] EXCEPT !.limit = l] \in CalendarRow
      BY <1>1 DEF CalendarRow
    <3> QED
      BY <1>1, <3>1, <3>2 DEF UpdateCalendar
  <2>3. CASE \E s \in Blackouts : AddBlackout(c, s)
    <3>1. PICK s \in Blackouts : AddBlackout(c, s)
      BY <2>3
    <3>2. Span[s] \subseteq Hours /\ calendar[c].blackout \subseteq Hours
      BY <1>1, CalendarConstants DEF CalendarRow
    <3>3. calendar[c].blackout \cup Span[s] \in SUBSET Hours
      BY <3>2
    <3>4. PICK B \in SUBSET Hours : B = calendar[c].blackout \cup Span[s]
      BY <3>3
    <3>5. [calendar[c] EXCEPT !.blackout = B] \in CalendarRow
      BY <1>1 DEF CalendarRow
    <3>6. calendar' = [calendar EXCEPT ![c].blackout = B]
      BY <3>1, <3>4 DEF AddBlackout
    <3> QED
      BY <1>1, <3>1, <3>5, <3>6 DEF AddBlackout
  <2> QED
    BY <2>1, <2>2, <2>3
<1> QED
  BY <1>2, CalendarRowStep DEF ReceptionInv, TypeOK

LEMMA TimePassesStep ==
  ASSUME NEW s \in Slots, ReceptionInv, TimePasses(s)
  PROVE  ReceptionInv'
<1>1. phase' \in [Slots -> {"open", "cutoff", "begun"}]
  BY DEF TimePasses, ReceptionInv, TypeOK
<1>2. UNCHANGED <<calendar, notice, hold, appointment, lock, txn>>
  BY DEF TimePasses
<1>3. \A m \in Notices : (AlreadyBooked(m)' <=> AlreadyBooked(m))
                         /\ ActiveHoldsOf(m)' = ActiveHoldsOf(m)
  BY <1>2 DEF AlreadyBooked, ActiveHoldsOf
<1>4. RowsLinked' /\ Claims'
  BY <1>2, <1>3
  DEF ReceptionInv, RowsLinked, Claims, LiveIsCurrent, UnbookedNotices, OneActiveHold
<1>5. VehicleOncePerCalendar'
  BY <1>2, NoNewBooking DEF ReceptionInv
<1>6. \A v \in Workers : Undisturbed(v)
  BY <1>2, <1>3 DEF Undisturbed
<1> QED
  BY <1>1, <1>2, <1>4, <1>5, <1>6, RowStep DEF ReceptionInv, TypeOK

-----------------------------------------------------------------------------
LEMMA ReceptionInit == Init => ReceptionInv
<1> SUFFICES ASSUME Init
             PROVE  ReceptionInv
  OBVIOUS
<1>1. TypeOK
  <2>1. PICK l \in Limits :
          calendar = [c \in Calendars |-> [status |-> "DRAFT", limit |-> l, blackout |-> {}]]
    BY DEF Init
  <2>2. calendar \in [Calendars -> CalendarRow]
    BY <2>1 DEF CalendarRow, CalendarStatuses
  <2>3. notice \in [Notices -> NoticeRow]
    BY DEF Init, NoticeRow, NoticeStatuses
  <2>4. 0 \in 0 .. MaxRefreshes
    BY CalendarConstants
  <2>5. hold \in [Holds -> HoldRow]
    BY <2>4 DEF Init, HoldRow, NoHold
  <2>6. appointment \in [Appointments -> AppointmentRow]
    BY DEF Init, AppointmentRow, NoAppointment
  <2>7. lock \in [Rows -> Workers \cup {None}] /\ txn \in [Workers -> Request]
    BY IdleRequest DEF Init
  <2> QED
    BY <2>2, <2>3, <2>5, <2>6, <2>7 DEF TypeOK, Init
<1>2. /\ \A h \in Holds : hold[h].status = None
      /\ \A a \in Appointments : appointment[a].status = None
      /\ \A n \in Notices : notice[n].appointment = None
  BY DEF Init, NoHold, NoAppointment
<1>3. RowsLinked
  BY <1>2 DEF RowsLinked
<1>4. RequestsRely
  BY DEF Init, RequestsRely, Relies
<1>5. Claims
  BY <1>2, StatusesNotNone
  DEF Claims, LiveIsCurrent, UnbookedNotices, OneActiveHold, ActiveHoldsOf, AlreadyBooked,
      HoldStatuses
<1>6. VehicleOncePerCalendar
  BY <1>2, StatusesNotNone DEF VehicleOncePerCalendar
<1> QED
  BY <1>1, <1>3, <1>4, <1>5, <1>6 DEF ReceptionInv

LEMMA ReceptionNext == ReceptionInv /\ [Next]_vars => ReceptionInv'
<1> SUFFICES ASSUME ReceptionInv, [Next]_vars
             PROVE  ReceptionInv'
  OBVIOUS
<1>1. ASSUME NEW w \in Workers, Serve(w)
      PROVE  ReceptionInv'
  BY <1>1, CreateHoldStep, RefreshHoldStep, CreateAppointmentStep, ConfirmStep, CancelStep
  DEF Serve
<1>2. ASSUME NEW w \in Workers, Advance(w)
      PROVE  ReceptionInv'
  BY <1>2, CreateHoldNoticeStep, CreateHoldActiveStep, RefreshHoldCalendarStep,
     CreateAppointmentWaits, CreateAppointmentCommitStep, ConfirmWaits, ConfirmNoticeStep,
     CancelNoticeRowStep, RefuseStep
  DEF Advance, DeadlockVictim
<1>3. ASSUME NEW w \in Workers, Crash(w)
      PROVE  ReceptionInv'
  BY <1>3, RefuseStep DEF Crash
<1>4. ASSUME NEW h \in Holds, CancelHold(h) \/ HoldComesDue(h)
      PROVE  ReceptionInv'
  BY <1>4, CancelHoldStep, HoldComesDueStep
<1>5. ASSUME NEW a \in Appointments, RequestReschedule(a)
      PROVE  ReceptionInv'
  BY <1>5, RequestRescheduleStep
<1>6. ASSUME NEW n \in Notices, MarkReady(n) \/ CancelNotice(n)
      PROVE  ReceptionInv'
  BY <1>6, MarkReadyStep, CancelNoticeStep
<1>7. ASSUME NEW c \in Calendars,
             \/ \E target \in Targets : TransitionCalendar(c, target)
             \/ \E l \in Limits : UpdateCalendar(c, l)
             \/ \E s \in Blackouts : AddBlackout(c, s)
      PROVE  ReceptionInv'
  BY <1>7, CalendarOperations
<1>8. ASSUME NEW s \in Passing, TimePasses(s)
      PROVE  ReceptionInv'
  BY <1>8, TimePassesStep, CalendarConstants
<1>9. CASE ExpireHolds
  BY <1>9, ExpireHoldsStep
<1>10. CASE UNCHANGED vars
  <2>1. \A m \in Notices : (AlreadyBooked(m)' <=> AlreadyBooked(m))
                           /\ ActiveHoldsOf(m)' = ActiveHoldsOf(m)
    BY <1>10 DEF AlreadyBooked, ActiveHoldsOf, vars
  <2>2. RowsLinked' /\ Claims'
    BY <1>10, <2>1
    DEF ReceptionInv, RowsLinked, Claims, LiveIsCurrent, UnbookedNotices, OneActiveHold, vars
  <2>3. VehicleOncePerCalendar'
    BY <1>10, NoNewBooking DEF ReceptionInv, vars
  <2>4. \A v \in Workers : Undisturbed(v)
    BY <1>10, <2>1 DEF Undisturbed, vars
  <2> QED
    BY <1>10, <2>2, <2>3, <2>4, RowStep DEF ReceptionInv, TypeOK, vars
<1> QED
  BY <1>1, <1>2, <1>3, <1>4, <1>5, <1>6, <1>7, <1>8, <1>9, <1>10 DEF Next

\* ReceptionInv holds for every number of calendars, notices, slots, holds,
\* appointments and workers.
THEOREM ReceptionInvariance == Spec => []ReceptionInv
  BY ReceptionInit, ReceptionNext, PTL DEF Spec

\* Every variable keeps its type.
THEOREM CalendarTypes == Spec => []TypeOK
<1>1. ReceptionInv => TypeOK
  BY DEF ReceptionInv
<1> QED
  BY <1>1, ReceptionInvariance, PTL

LEMMA ClaimsSuffice ==
  ReceptionInv => OneClaimPerNotice /\ RescheduleUnreachable
<1> SUFFICES ASSUME ReceptionInv
             PROVE  OneClaimPerNotice /\ RescheduleUnreachable
  OBVIOUS
<1>1. ASSUME NEW a \in Appointments, appointment[a].status \in CapacityStatuses
      PROVE  /\ appointment[a].notice \in Notices
             /\ notice[appointment[a].notice].appointment = a
             /\ AlreadyBooked(appointment[a].notice)
             /\ ActiveHoldsOf(appointment[a].notice) = {}
  <2>1. appointment[a].notice \in Notices
    BY <1>1, StatusesNotNone DEF ReceptionInv, RowsLinked
  <2>2. notice[appointment[a].notice].appointment = a
    BY <1>1 DEF ReceptionInv, Claims, LiveIsCurrent
  <2>3. a # None /\ appointment[a].status # "CANCELLED"
    BY <1>1, CalendarConstants DEF CapacityStatuses
  <2>4. AlreadyBooked(appointment[a].notice)
    BY <2>2, <2>3 DEF AlreadyBooked
  <2> QED
    BY <2>1, <2>2, <2>4 DEF ReceptionInv, Claims, UnbookedNotices
<1>2. OneClaimPerNotice
  <2> SUFFICES ASSUME NEW n \in Notices
               PROVE  /\ \A h, i \in ActiveHoldsOf(n) : h = i
                      /\ \A a, b \in LiveAppointmentsOf(n) : a = b
                      /\ ActiveHoldsOf(n) = {} \/ LiveAppointmentsOf(n) = {}
    BY DEF OneClaimPerNotice
  <2>1. \A h, i \in ActiveHoldsOf(n) : h = i
    BY DEF ReceptionInv, Claims, OneActiveHold
  <2>2. \A a, b \in LiveAppointmentsOf(n) : a = b
    BY <1>1 DEF LiveAppointmentsOf
  <2>3. ActiveHoldsOf(n) = {} \/ LiveAppointmentsOf(n) = {}
    BY <1>1 DEF LiveAppointmentsOf
  <2> QED
    BY <2>1, <2>2, <2>3
<1>3. RescheduleUnreachable
  <2>1. \A s : s \in CommittedStatuses => s \in CapacityStatuses
    BY DEF CommittedStatuses, CapacityStatuses
  <2> QED
    BY <1>1, <2>1 DEF RescheduleUnreachable, CanReschedule, ActiveHoldsOf
<1> QED
  BY <1>2, <1>3

\* A notice never claims capacity twice, for every number of requests at once.
THEOREM NoticesClaimOnce == Spec => []OneClaimPerNotice
  BY ClaimsSuffice, ReceptionInvariance, PTL

\* No appointment and no hold ever pass the tests of reschedule together.
THEOREM NothingCanBeRescheduled == Spec => []RescheduleUnreachable
  BY ClaimsSuffice, ReceptionInvariance, PTL

\* No calendar expects a vehicle twice at once, whichever confirmations race.
THEOREM VehiclesExpectedOnce == Spec => []VehicleOncePerCalendar
<1>1. ReceptionInv => VehicleOncePerCalendar
  BY DEF ReceptionInv
<1> QED
  BY <1>1, ReceptionInvariance, PTL
=============================================================================
