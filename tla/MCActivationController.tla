----------------------- MODULE MCActivationController -----------------------
EXTENDS ActivationController

CONSTANTS full, trial, offline

MCKinds == [a \in Activations |->
              CASE a = full -> "full" [] a = trial -> "trial" [] a = offline -> "offline"]

=============================================================================
