----------------------------- MODULE Containers -----------------------------
(***************************************************************************)
(* The containers of utlist.h and uthash.h together: a program uses one of *)
(* them, a list of one of the three kinds or hash tables, and the others   *)
(* stay as they were at the start.                                         *)
(***************************************************************************)
EXTENDS UtListSingle, UtListDouble, UtListCircular, UtHash

VARIABLE used  \* the container in use

containerVars == <<used, utVars, hashVars>>

ContainersInit ==
  /\ used \in {"single", "double", "circular", "hash"}
  /\ UtInit
  /\ UtHashInit

ContainersNext ==
  /\ UNCHANGED used
  /\ \/ used = "single" /\ SingleNext /\ UNCHANGED hashVars
     \/ used = "double" /\ DoubleNext /\ UNCHANGED hashVars
     \/ used = "circular" /\ CircularNext /\ UNCHANGED hashVars
     \/ used = "hash" /\ UtHashNext /\ UNCHANGED utVars

ContainersSpec == ContainersInit /\ [][ContainersNext]_containerVars

-----------------------------------------------------------------------------
(***************************************************************************)
(* The pointers of a list of each kind say what was put into it, whatever  *)
(* macros were used on it, and in which order.                             *)
(***************************************************************************)
SingleFaithful == used = "single" => LL_Faithful
DoubleFaithful == used = "double" => DL_Faithful
CircularFaithful == used = "circular" => CDL_Faithful
=============================================================================
