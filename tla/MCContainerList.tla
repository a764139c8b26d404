---------------------------- MODULE MCContainerList ----------------------------
(* A small instance of ContainerList.                                         *)
EXTENDS ContainerList

\* every container belongs to the one service
MCServiceOf == [c \in Container |-> CHOOSE s \in Service : TRUE]
================================================================================
