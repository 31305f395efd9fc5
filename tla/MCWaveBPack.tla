---------------------------- MODULE MCWaveBPack ----------------------------
(***************************************************************************)
(* Small instances of WaveBPack: pads and swaths on a line, on which the   *)
(* distance is the difference.                                             *)
(***************************************************************************)
EXTENDS WaveBPack

CONSTANTS
  LastPoint,      \* bound: the line is 0 .. LastPoint
  MaxSwaths,      \* bound: swaths of a block
  MCEndurances,   \* endurances
  MCGaps          \* recharge times

MCPoints == 0 .. LastPoint

MCDistance == [pq \in MCPoints \X MCPoints |->
                 IF pq[1] < pq[2] THEN pq[2] - pq[1] ELSE pq[1] - pq[2]]

(* One pad at each end of the line. *)
MCPads == {1, 2}
MCPadAt == <<0, LastPoint>>

MCBlocks ==
  UNION {[1 .. n -> {pq \in MCPoints \X MCPoints : pq[1] # pq[2]}] : n \in 0 .. MaxSwaths}

MCBoards ==
  {[swaths |-> [n \in DOMAIN block |-> [id |-> n, start |-> block[n][1], end |-> block[n][2]]],
    home |-> 1, endurance |-> e, rechargeTime |-> g,
    allowRecharge |-> r, allowForeignLanding |-> l, allowForeignTakeoff |-> t] :
     block \in MCBlocks, e \in MCEndurances, g \in MCGaps,
     r \in BOOLEAN, l \in BOOLEAN, t \in BOOLEAN}

=============================================================================
