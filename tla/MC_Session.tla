----------------------------- MODULE MC_Session -----------------------------
(* Values for the constants of Session: one process opens tables through    *)
(* handles, the other a workspace, or it reindexes or builds one of them.   *)
(* Only the first table is edited.                                          *)
EXTENDS Session, TLC

CONSTANTS a, b, scripts, admin

Both    == <<a, b>>
Work    == scripts :> {"open", "close", "dbexit", "exit"}
           @@ admin :> {"wsOpen", "wsClose", "reindex", "build"}
OnlyA   == a :> 1 @@ b :> 0
TwoOfA  == a :> 2 @@ b :> 0
=============================================================================
