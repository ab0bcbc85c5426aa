------------------------------ MODULE MCFatDir ------------------------------
(***************************************************************************)
(* Instances of FatDir for TLC.  The root directory holds a directory x, a *)
(* directory with a long name whose slots lie in two blocks, and a file is *)
(* in the second one.                                                      *)
(***************************************************************************)
EXTENDS FatDir, TLC

MCLongSlots == "x" :> 0 @@ "L" :> 1 @@ "M" :> 2
MCBase == "x" :> "x" @@ "L" :> "b" @@ "M" :> "b"
NoNames == [n \in Names |-> None]
Frees(k) == [i \in 1 .. k |-> Free]

MCTree ==
    [d \in Dirs |->
        CASE d = Root -> [NoNames EXCEPT !["x"] = 1, !["L"] = 2]
          [] d = 2 -> [NoNames EXCEPT !["x"] = 3]
          [] OTHER -> NoNames]
Volume(root) ==
    [tree |-> MCTree,
     slots |-> [d \in Dirs |->
        CASE d = Root -> root
          [] d = 1 -> NewDir(1, Root)
          [] d = 2 -> Dots(2, Root) \o <<Short(Plain("x"), FALSE, 3)>> \o Frees(1)
          [] OTHER -> <<>>]]

(* The second root directory also holds long slots whose short entries     *)
(* are gone: failed removals have left them.                               *)
x == <<Short(Plain("x"), TRUE, 1)>>
L == vfat_build_slots("L", Alias("L", 1), TRUE, 2)
MCVolumes ==
    {Volume(x \o L \o Frees(3)),
     Volume(<<Long("L", 1, TRUE, Alias("L", 2))>> \o x
            \o <<Long("M", 2, TRUE, Alias("M", 1))>> \o L \o Frees(1))}
MCPlaces == {<<0, "x">>, <<0, "L">>, <<0, "M">>, <<1, "L">>, <<2, "x">>, <<2, "M">>}
=============================================================================
