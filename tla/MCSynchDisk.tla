----------------------------- MODULE MCSynchDisk -----------------------------
(***************************************************************************)
(* Two clients over a cache smaller than the sectors they use.  They share *)
(* a sector that one of them writes, so that hits, misses and evictions of *)
(* one fall between any two steps of the other.                            *)
(***************************************************************************)
EXTENDS SynchDisk

CONSTANTS c1, c2, s1, s2, s3, x

MCClients == {c1, c2}

MCSectors == {s1, s2, s3}

MCData == {Blank, x}

Reads(secs) == [op : {"read"}, sector : secs, data : {NoData}]

Writes(secs) == [op : {"write"}, sector : secs, data : {x}]

MCAsks ==
  [c \in MCClients |-> IF c = c1 THEN Writes({s1}) \cup Reads({s2, s3})
                       ELSE Writes({s2}) \cup Reads({s1})]
=============================================================================
