----------------------------- MODULE MCFlashing -----------------------------
(***************************************************************************)
(* The two ways an image gets into the serial flash: a session with the    *)
(* second stage loader, and a probe that runs the flash algorithm.  A      *)
(* behaviour takes one of them.                                            *)
(*                                                                         *)
(* SSL: three sectors of three cells, chunks of three cells that straddle  *)
(* sectors; an image of 4 cells just fits, one of 5 reaches into the       *)
(* reserved sector, one of 8 leaves the part.                              *)
(* Probe: addresses in every sector and behind the last; buffers that fit, *)
(* cross a sector, cross the end of the part and, the longest, wrap the    *)
(* address.                                                                *)
(***************************************************************************)
EXTENDS SslSession, ProbeFlash

VARIABLE path

MCLengths == {4, 5, 8}
MCProbeData == {<<>>, <<"a">>, <<"a", "b">>, [k \in 1..15 |-> "a"]}

\* Each path's states of the other's are pinned, not multiplied.
FlashingInit ==
  /\ path \in {"ssl", "probe"} /\ Init /\ ProbeInit
  /\ path = "ssl" => pfflash = [c \in PfCells |-> "erased"]
  /\ path = "probe" => flash[0] = Erased /\ flash[CAPACITY - 1] = Erased
                       /\ image.len = 4

FlashingNext ==
  /\ UNCHANGED path
  /\ \/ path = "ssl" /\ Next /\ UNCHANGED pfvars
     \/ path = "probe" /\ ProbeNext /\ UNCHANGED vars

allvars == <<path, vars, pfvars>>

FlashingSpec ==
  /\ FlashingInit /\ [][FlashingNext]_allvars
  /\ WF_vars(path = "ssl" /\ LoaderStep) /\ WF_vars(path = "ssl" /\ HostStep)
=============================================================================
