--------------------------- MODULE MCVerification ---------------------------
(* Four paths, sorted: a file in a directory, an exact file, and the two   *)
(* spellings of another exact file that also lies under a directory.       *)
EXTENDS Verification

MCFold == <<"ci/workflow", "dockerfile", "k8s/service", "k8s/service">>
MCInDirectory == {"ci/workflow", "k8s/service"}
MCExact == <<"k8s/service", "dockerfile">>
=============================================================================
