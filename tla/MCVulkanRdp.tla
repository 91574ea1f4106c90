----------------------------- MODULE MCVulkanRdp -----------------------------
(* A small paraLLEl-RDP for TLC: what is painted is a sum over everything the  *)
(* painting may depend on, so that losing any of it shows.                     *)
EXTENDS VulkanRdp

MCMemory == 0 .. 2
Weight(x) == IF x = Unset THEN 0 ELSE x
Total(f) == IF DOMAIN f = {} THEN 0 ELSE Weight(f[CHOOSE x \in DOMAIN f : TRUE])
Registers(p) == Total(p.state) + Total(p.tile) + Total(p.size)
MCPainted(p, m, u) == (Registers(p) + p.tmem + p.noise + m + u.val) % 3
MCNinth(p, m, u) == (p.hidden + Registers(p) + u.val) % 3
MCFetched(p, m, u) == (m + u.val + Total(p.state)) % 3
MCWoven(p, m) == (p.history + m + Total(p.vi)) % 3
=============================================================================
