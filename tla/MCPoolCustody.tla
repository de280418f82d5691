--------------------------- MODULE MCPoolCustody ---------------------------
(* Instances of PoolCustody for TLC.                                         *)
EXTENDS PoolCustody, TLC

\* The root under a live count and under a bracket; a tenant's container,
\* whose plan knows no ceiling (plan_child_population).
MCCustodies ==
    {[scope |-> "root", kind |-> "counted"],
     [scope |-> "root", kind |-> "observed"],
     [scope |-> "child", kind |-> "unknown"]}
=============================================================================
