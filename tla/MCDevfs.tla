------------------------------ MODULE MCDevfs ------------------------------
(* Device files, for TLC: the system disk, which the kernel holds, a       *)
(* second disk, a RAM disk and the clock.                                  *)
EXTENDS Devfs, TLC

MCAttached == <<"rtc", "vioblk", "vioblk", "ramdisk">>
MCBLKSZ == [rtc |-> 2, vioblk |-> 2, ramdisk |-> 1]
MCMounts == <<[name |-> "dev", fs |-> "devfs"], [name |-> "nul", fs |-> "nullfs"],
              [name |-> "dev", fs |-> "nullfs"]>>
Path(mp, base, inst) == [mp |-> mp, base |-> base, inst |-> inst]
MCPaths == {Path("", "", 0), Path("dev", "", 0), Path("dev", "rtc", 0), Path("dev", "vioblk", 0),
            Path("dev", "vioblk", 1), Path("dev", "ramdisk", 0), Path("dev", "vioblk", 2),
            Path("nul", "x", 0), Path("x", "x", 0)}
MCMessages == {<<1>>, <<1, 1, 1>>}
=============================================================================
