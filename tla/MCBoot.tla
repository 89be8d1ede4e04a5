------------------------------ MODULE MCBoot -------------------------------
(***************************************************************************)
(* Small instances of Boot.                                                *)
(***************************************************************************)
EXTENDS Boot

Rel(epoch, minEpoch, content, healthy) ==
  [epoch |-> epoch, minEpoch |-> minEpoch, content |-> content, healthy |-> healthy]

\* The release in service, an update that raises the floor, one whose image is
\* damaged, one that never becomes healthy and one that lets the floor be.
Service == Rel(1, 1, "good", TRUE)
Update == Rel(2, 2, "good", TRUE)
Damaged == Rel(2, 2, "bad", TRUE)
Sick == Rel(2, 1, "good", FALSE)
Minor == Rel(2, 1, "good", TRUE)

AllReleases == {Service, Update, Damaged, Sick, Minor}
BothSlots == {1, 2}
OneUpdate == {<<2>>}

\* Slot 1 of each medium holds the release in service, slot 2 of the first any
\* other, and slot 2 of the second a release that runs.
MCInit ==
  /\ Init
  /\ \A m \in Media : release[m][1] = Service
  /\ release[2][2] \in {Service, Update}
MCSpec == MCInit /\ [][Next]_vars /\ WF_vars(Running) /\ WF_vars(Restart)
=============================================================================
