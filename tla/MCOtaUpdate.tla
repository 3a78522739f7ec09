---------------------------- MODULE MCOtaUpdate ----------------------------
(***************************************************************************)
(* OtaUpdate with a factory version, one version that does not start its   *)
(* services, one that does not boot and one without a firmware file.       *)
(***************************************************************************)
EXTENDS OtaUpdate

MCVersions == {"v1", "sick", "dead", "bare"}
MCQuality == [version \in MCVersions |->
                IF version \in {"sick", "dead"} THEN version ELSE "good"]
=============================================================================
