---------------------------- MODULE MCReception ----------------------------
EXTENDS ReceptionInvariant, TLC
CONSTANTS n1, n2, van, yard
MCHome == [n \in Notices |-> yard]
MCSpan == [s \in Slots |-> {s}]
MCVehicleOf == [n \in Notices |-> van]
MCNoVehicles == [n \in Notices |-> NoVehicle]
Symmetry == Permutations(Notices) \cup Permutations(Workers)
=============================================================================
