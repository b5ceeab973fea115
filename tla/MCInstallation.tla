--------------------------- MODULE MCInstallation ---------------------------
(***************************************************************************)
(* The instances of Setup and of Releases that TLC checks.  The two share   *)
(* nothing but the step RunSetup of Releases, and are checked beside each   *)
(* other: part says which of them runs.                                     *)
(***************************************************************************)
EXTENDS Setup, Releases

CONSTANT Parts

VARIABLE part

MCProfile == {[r \in Role |-> IF r = 1 THEN 2 ELSE 1]}

InstallationTypeOK == SetupTypeOK /\ ReleasesTypeOK

InstallationInit == part \in Parts /\ SetupInit /\ ReleasesInit

InstallationNext ==
  \/ part = "setup" /\ SetupNext /\ UNCHANGED <<releaseVars, part>>
  \/ part = "releases" /\ ReleasesNext /\ UNCHANGED <<setupVars, part>>

InstallationSpec ==
  InstallationInit /\ [][InstallationNext]_<<setupVars, releaseVars, part>>
=============================================================================
