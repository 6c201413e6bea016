------------------------------ MODULE MCOsDemo ------------------------------
(* A small instance of OsDemo for TLC: one producer and one consumer, where *)
(* os_init starts one and two, with a shallower nesting.                    *)
EXTENDS OsDemo

CONSTANTS t1, t2

MCBoot2 == <<t1, t2>>
MCSemInit == [s \in {empty, fill} |-> IF s = empty THEN Depth ELSE 0]
=============================================================================
