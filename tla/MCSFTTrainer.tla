---------------------------- MODULE MCSFTTrainer ----------------------------
(* Instances of SFTTrainer for TLC.                                         *)
EXTENDS CheckpointResolution

Off == -1    \* trainer.test_freq of sft_trainer.yaml
=============================================================================
