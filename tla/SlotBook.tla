------------------------------ MODULE SlotBook ------------------------------
(***************************************************************************)
(* What the reception calendar promises about confirmed appointments,      *)
(* whatever holds, proposals, locks and clocks lie behind them: the book   *)
(* of a calendar takes one more confirmed appointment only while fewer     *)
(* than its limit overlap it, unless the capacity is overridden, and never *)
(* one whose vehicle is already expected in that calendar at that time.    *)
(***************************************************************************)
EXTENDS Integers, FiniteSets

CONSTANTS
  Calendars,   \* reception calendars, one per warehouse
  Appointments,
  Slots,
  Span,        \* Span[s]: the hours a slot covers
  Vehicles,
  NoVehicle,   \* an appointment that declares no vehicle
  Limits,      \* the concurrent appointments a calendar may admit
  None

VARIABLES
  book,        \* book[a]: the booking of appointment a, None unless confirmed
  limit        \* limit[c]: the concurrent appointments calendar c admits

bookVars == <<book, limit>>

Bookings ==
  [calendar : Calendars, slot : Slots, vehicle : Vehicles \cup {NoVehicle},
   override : BOOLEAN]

Overlap(s, t) == Span[s] \cap Span[t] # {}

\* The appointments in the book that share a calendar and an hour with booking b.
Rivals(b) ==
  {x \in Appointments :
     /\ book[x] # None
     /\ book[x].calendar = b.calendar /\ Overlap(book[x].slot, b.slot)}

Init == book = [a \in Appointments |-> None] /\ limit \in [Calendars -> Limits]

Enter(a, b) ==
  /\ book[a] = None
  /\ b.override \/ Cardinality(Rivals(b)) < limit[b.calendar]
  /\ b.vehicle # NoVehicle => \A x \in Rivals(b) : book[x].vehicle # b.vehicle
  /\ book' = [book EXCEPT ![a] = b]
  /\ UNCHANGED limit

Release(a) ==
  /\ book[a] # None
  /\ book' = [book EXCEPT ![a] = None]
  /\ UNCHANGED limit

\* The limit may be lowered below what is already booked.
SetLimit(c, n) ==
  /\ limit' = [limit EXCEPT ![c] = n]
  /\ UNCHANGED book

Next ==
  \/ \E a \in Appointments, b \in Bookings : Enter(a, b)
  \/ \E a \in Appointments : Release(a)
  \/ \E c \in Calendars, n \in Limits : SetLimit(c, n)

Spec == Init /\ [][Next]_bookVars
=============================================================================
