------------------------ MODULE MCPreviewDeployments ------------------------
(***************************************************************************)
(* Instances of PreviewDeployments for TLC: two requests at a time, an     *)
(* application with two pull requests and a limit of two previews.         *)
(***************************************************************************)
EXTENDS PreviewDeployments, TLC

TwoPreviews == [a \in Apps |-> 2]

Symmetric == Permutations(Handlers) \cup Permutations(Apps) \cup Permutations(Pulls)
=============================================================================
