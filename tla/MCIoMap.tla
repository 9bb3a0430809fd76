------------------------------ MODULE MCIoMap ------------------------------
(***************************************************************************)
(* The devices of init_device, with the distances of their windows kept:   *)
(* screen and sync are neighbours, vmem fills its page and the keyboard's  *)
(* register lies behind it.                                                *)
(***************************************************************************)
EXTENDS IoMap

MCData == {<<1>>, <<0, 1>>}

MCWord == {<<0, 1, 0, 1>>, <<1, 1, 0, 0>>}

MCScreenSize == <<0, 0, 1, 0>>

MCDevices ==
  <<[name |-> "serial", len |-> 1, mmio |-> 40, port |-> 40],
    [name |-> "rtc", len |-> 4, mmio |-> 20, port |-> 10],
    [name |-> "screen", len |-> 4, mmio |-> 30, port |-> 30],
    [name |-> "sync", len |-> 6, mmio |-> 34, port |-> 34],
    [name |-> "vmem", len |-> 8, mmio |-> 10, port |-> -1],
    [name |-> "keyboard", len |-> 4, mmio |-> 25, port |-> 15]>>
=============================================================================
