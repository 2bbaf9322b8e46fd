---------------------------- MODULE MCProjectLife ----------------------------
(***************************************************************************)
(* Two drivers, one with two servers and one with one.                     *)
(***************************************************************************)
EXTENDS ProjectLife

CONSTANTS d1, d2

MCDrivers == {d1, d2}
MCServers == {<<d1, 1>>, <<d1, 2>>, <<d2, 1>>}
==============================================================================
