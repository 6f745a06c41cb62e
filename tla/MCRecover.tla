---- MODULE MCRecover ----
(***************************************************************************)
(* A history 1 - 2 - 3 with a branch 1 - 4, and a mirror that may hold any *)
(* subset of eleven representations: sound ones, one that cannot be        *)
(* decrypted, one that holds an object outside its declared edge, and ones *)
(* with a wrong repository, sequence or base.                              *)
(***************************************************************************)
EXTENDS Recover

MCParent == <<0, 1, 2, 1>>

Bundle(i, t, b, n, h) ==
    [id |-> i, uuid |-> IF i = 11 THEN 8 ELSE 7, tip |-> t, base |-> b, seq |-> n, holds |-> h,
     kind |-> IF b = 0 THEN "full" ELSE "incremental"]

MCRepresentations ==
    {Bundle(1, 1, 0, 0, {}), Bundle(2, 1, 0, 0, {1}), Bundle(3, 1, 0, 1, {1}),
     Bundle(4, 2, 1, 1, {2, 3}), Bundle(5, 2, 1, 1, {2}), Bundle(6, 2, 1, 2, {2}),
     Bundle(7, 3, 2, 2, {3}), Bundle(8, 3, 0, 2, {1, 2, 3}), Bundle(9, 3, 1, 2, {2, 3}),
     Bundle(10, 4, 1, 1, {4}), Bundle(11, 4, 0, 1, {1, 4})}
====
