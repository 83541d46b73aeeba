--------------------------- MODULE MCVirtualMemory --------------------------
(***************************************************************************)
(* VirtualMemory with values of one page and of two, a command that needs  *)
(* two keys (MGET), and one that changes its key (APPEND).                 *)
(***************************************************************************)
EXTENDS VirtualMemory

MCPagesOf(v) == IF v = "long" THEN 2 ELSE 1
MCCommands ==
  [keys : {<<j, k>> : j, k \in Keys} \ {<<k, k>> : k \in Keys}, write : {"none"}]
    \cup [keys : {<<k>> : k \in Keys}, write : {"long"}]

MCSets == {<<k, "short">> : k \in Keys}

(* Keys are alike, and what is left on a page that nobody uses is never read. *)
Alike == Permutations(Keys)
InUse ==
  srv.bitmap \cup UNION {s.pages : s \in snapshot} \cup UNION {j.pages : j \in processing}
UsedPages ==
  <<srv, processing, [p \in DOMAIN swap |-> IF p \in InUse THEN swap[p] ELSE "none"],
    cmd, saving, snapshot, data>>
=============================================================================
