---------------------------- MODULE MCRayTrainer ----------------------------
(* Instances of RayTrainer for TLC.                                         *)
EXTENDS RayTrainer

KeepTwo == [actor |-> 2, critic |-> 3]
AllModes == {"auto", "resume_path", "disable"}
=============================================================================
