------------------------------- MODULE Uploads -------------------------------
(***************************************************************************)
(* The identities of uploads, shared by the controller's and the           *)
(* registry's modules.  mkstemp makes the temporary file of an upload      *)
(* unique, so the file names the upload; None stands for Python's None.    *)
(***************************************************************************)
CONSTANTS
    Artifacts,  \* identities of uploads, one temporary file each
    None        \* no upload, no operation, no holder of a lock

ASSUME NoneAssumption == None \notin Artifacts
=============================================================================
