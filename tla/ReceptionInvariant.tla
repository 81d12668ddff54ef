------------------------- MODULE ReceptionInvariant -------------------------
(***************************************************************************)
(* The inductive invariant behind the safety properties of                 *)
(* ReceptionCalendar: what a request at each of its steps has locked and   *)
(* still knows, and how the rows of a notice, its holds and its            *)
(* appointments relate.                                                    *)
(***************************************************************************)
EXTENDS ReceptionCalendar

Owns(w, kind, id) == lock[<<kind, id>>] = w

\* Rows that exist refer to rows that exist.
RowsLinked ==
  /\ \A h \in Holds : hold[h].status # None =>
       hold[h].notice \in Notices /\ hold[h].calendar \in Calendars
         /\ hold[h].slot \in Slots
  /\ \A a \in Appointments : appointment[a].status # None =>
       appointment[a].notice \in Notices /\ appointment[a].calendar \in Calendars
         /\ appointment[a].slot \in Slots
  /\ \A n \in Notices : notice[n].appointment # None =>
       appointment[notice[n].appointment].status # None

-----------------------------------------------------------------------------
(* What each kind of request relies on. *)

CreatingHold(w, t) ==
  /\ t.calendar \in Calendars /\ t.notice \in Notices /\ t.slot \in Slots
  /\ Owns(w, "calendar", t.calendar)
  /\ t.pc = "hold" =>
       /\ Owns(w, "notice", t.notice)
       /\ notice[t.notice].status = "READY_FOR_SCHEDULING"
       /\ t.hold \in Holds
       /\ ActiveHoldsOf(t.notice) \subseteq {t.hold}

RefreshingHold(w, t) ==
  /\ t.hold \in Holds /\ t.calendar \in Calendars
  /\ Owns(w, "hold", t.hold)
  /\ hold[t.hold].status # None
  /\ t.fresh => hold[t.hold].status = "ACTIVE"

CreatingAppointment(w, t) ==
  /\ t.hold \in Holds /\ t.notice \in Notices
  /\ Owns(w, "hold", t.hold)
  /\ hold[t.hold].status # None
  /\ t.pc = "commit" =>
       /\ Owns(w, "notice", t.notice)
       /\ hold[t.hold].status = "ACTIVE" /\ hold[t.hold].notice = t.notice
       /\ ~AlreadyBooked(t.notice)

\* The appointments that a confirmation of appointment a competes with.
RivalsOf(a) ==
  {b \in Confirmed :
     /\ appointment[b].calendar = appointment[a].calendar
     /\ Overlap(appointment[b].slot, appointment[a].slot)}

\* Between the test of the capacity and the commit nothing is added to the
\* calendar's confirmed appointments, since its row is locked.
RoomKept(t) ==
  /\ t.override \/ Cardinality(RivalsOf(t.appointment)) < calendar[t.calendar].limit
  /\ VehicleOf[t.notice] # NoVehicle =>
       \A b \in RivalsOf(t.appointment) :
         VehicleOf[appointment[b].notice] # VehicleOf[t.notice]

Confirming(w, t) ==
  /\ t.appointment \in Appointments
  /\ t.calendar \in Calendars /\ t.notice \in Notices
  /\ Owns(w, "appointment", t.appointment)
  /\ appointment[t.appointment].status = "PROPOSED"
  /\ appointment[t.appointment].calendar = t.calendar
  /\ appointment[t.appointment].notice = t.notice
  /\ t.pc = "notice" => Owns(w, "calendar", t.calendar) /\ RoomKept(t)

Cancelling(w, t) ==
  /\ t.appointment \in Appointments /\ t.notice \in Notices
  /\ Owns(w, "appointment", t.appointment)
  /\ appointment[t.appointment].status \in CapacityStatuses
  /\ appointment[t.appointment].notice = t.notice

Relies(w, t) ==
  \/ t = Idle
  \/ t.op = "create_hold" /\ t.pc \in {"notice", "hold"} /\ CreatingHold(w, t)
  \/ t.op = "refresh_hold" /\ t.pc = "calendar" /\ RefreshingHold(w, t)
  \/ /\ t.op = "create_appointment" /\ t.pc \in {"notice", "commit"}
     /\ CreatingAppointment(w, t)
  \/ t.op = "confirm" /\ t.pc \in {"calendar", "notice"} /\ Confirming(w, t)
  \/ t.op = "cancel" /\ t.pc = "notice" /\ Cancelling(w, t)

RequestsRely == \A w \in Workers : Relies(w, txn[w])

-----------------------------------------------------------------------------
\* A live appointment is the current one of its notice.
LiveIsCurrent ==
  \A a \in Appointments :
    appointment[a].status \in CapacityStatuses =>
      notice[appointment[a].notice].appointment = a

\* Notices that may be given a hold, and those that have one, are not booked.
UnbookedNotices ==
  \A n \in Notices :
    (\/ notice[n].status \in {"SUBMITTED", "READY_FOR_SCHEDULING"}
     \/ ActiveHoldsOf(n) # {})
      => ~AlreadyBooked(n)

OneActiveHold ==
  \A n \in Notices : \A h, i \in ActiveHoldsOf(n) : h = i

Claims == LiveIsCurrent /\ UnbookedNotices /\ OneActiveHold

-----------------------------------------------------------------------------
\* All the rows that the transaction of request t has locked.
Held(t) ==
  CASE t.op = "create_hold" ->
         {<<"calendar", t.calendar>>} \cup
           (IF t.pc = "hold" THEN {<<"notice", t.notice>>} ELSE {})
    [] t.op = "refresh_hold" -> {<<"hold", t.hold>>}
    [] t.op = "create_appointment" ->
         {<<"hold", t.hold>>} \cup
           (IF t.pc = "commit" THEN {<<"notice", t.notice>>} ELSE {})
    [] t.op = "confirm" ->
         {<<"appointment", t.appointment>>} \cup
           (IF t.pc = "notice" THEN {<<"calendar", t.calendar>>} ELSE {})
    [] t.op = "cancel" -> {<<"appointment", t.appointment>>}
    [] t.op = "none" -> {}

\* No request holds a lock that its position does not account for: none is
\* left behind by a transaction that ended.
LocksAccounted ==
  \A w \in Workers, r \in Rows : lock[r] = w => r \in Held(txn[w])

ReceptionInv ==
  TypeOK /\ RowsLinked /\ RequestsRely /\ Claims /\ VehicleOncePerCalendar
=============================================================================
