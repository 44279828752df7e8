----------------------------- MODULE MCNodeRegistry -----------------------------
(* One node, registered before or not, one administrator who edits it slowly and *)
(* others who do everything else at any time.                                    *)
EXTENDS NodeRegistry
================================================================================
