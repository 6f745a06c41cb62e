---- MODULE MCRestore ----
(* Two files in two packs, a link, and a content nothing selects. *)
EXTENDS Restore, TLC

MCContentOf == <<3, 1>>
MCPackOf == <<1, 2, 2>>
MCPartCount == <<2, 1>>
MCInitialDests ==
    {d \in [1 .. 3 -> {"absent", "old", "other"}] :
        d[1] = "absent" /\ d[2] # "other" /\ d[3] # "old"}
====
