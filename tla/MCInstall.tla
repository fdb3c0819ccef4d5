------------------------------ MODULE MCInstall ------------------------------
(* A model-checking instance of Install: one function of the list is not   *)
(* in this build, another does not fit.                                    *)
EXTENDS Install

MCHooked == <<"pdo_connect", "redis_connect", "curl_exec">>
=============================================================================
