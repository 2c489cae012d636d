------------------------------ MODULE MCHeaders ------------------------------
(***************************************************************************)
(* Headers with every number scaled down: words of 12 bits, sectors of 4   *)
(* bytes, tables of up to 4 entries, and a limit of 2^8 bytes.  The fields *)
(* take values below, at and above what the checks look for, and two that  *)
(* make the products wrap.                                                 *)
(***************************************************************************)
EXTENDS Headers

Vmdk4(version, gtes, granularity, capacity, gd, algorithm, flags) ==
  [version |-> version, gtes |-> gtes, granularity |-> granularity,
   capacity |-> capacity, gd_offset |-> gd, rgd_offset |-> 5,
   algorithm |-> algorithm, flags |-> flags]

AtEnd == Word - 1

\* version, flags and place of the directory do not depend on the sizes
Sized(gtes, granularities, capacities) ==
  {Vmdk4(1, n, g, c, 7, 0, {}) : n \in gtes, g \in granularities, c \in capacities}

Footer == Vmdk4(3, 2, 3, 13, 9, 1, {"compressed"})

Vmdk4Files ==
  {[sig |-> "vmdk4", len |-> 2000, header |-> h, footer |-> Footer] :
     h \in Sized(0 .. 5, 0 .. 4, 0 .. 17 \cup {64, 65})
             \cup Sized({2, 4}, {1, 1023, 1024, 2048}, {0, 1, 64, 1024, 1027})}
  \cup
  {[sig |-> "vmdk4", len |-> n, header |-> Vmdk4(v, 2, 2, 10, gd, a, fl), footer |-> f] :
     n \in {7, 78, 1023, 1024, 2000}, v \in {1, 3, 4}, gd \in {7, AtEnd}, a \in {0, 1},
     fl \in {{}, {"rgd", "zero"}}, f \in {Footer, [Footer EXCEPT !.gtes = 0]}}

CowdFiles ==
  {[sig |-> "vmdk3", len |-> n, footer |-> NoHeader,
    header |-> [capacity |-> 10, gd_offset |-> 4, l1dir_size |-> l, granularity |-> g]] :
     n \in {43, 100}, l \in {0, 1, 5, 16}, g \in {0, 1, 4, 64}}

SeFiles ==
  {[sig |-> "sesparse", len |-> n, footer |-> NoHeader,
    header |-> [plain |-> p, grain_size |-> g, grain_table_size |-> t, capacity |-> 10,
                gd_offset |-> 4, gd_size |-> d, gt_offset |-> 6, grains_offset |-> 8]] :
     n \in {207, 300}, p \in BOOLEAN, g \in {2, 3}, t \in {4, 5}, d \in {1, 2, 40, 64}}

OtherFiles == {[sig |-> "none", len |-> 50, header |-> NoHeader, footer |-> NoHeader]}

\* with products that wrap among them
AllFiles == Vmdk4Files \cup CowdFiles \cup SeFiles \cup OtherFiles
=============================================================================
