--------------------------- MODULE MCAppointmentAtom ------------------------
(* Two Cases, two Attempts and three claims; of the slots two overlap.  A    *)
(* replacement can clash with the other Case's visit, and a failed visit can *)
(* be replaced twice.                                                        *)
EXTENDS AppointmentAtom, TLC

MCSlots == {<<0, 2>>, <<1, 3>>, <<3, 4>>}
MCSymmetry == Permutations(ClaimIds) \cup Permutations(Cases)
              \cup Permutations(AttemptIds) \cup Permutations(Contractors)
=============================================================================
