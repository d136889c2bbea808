----------------------------- MODULE ProbeFlash -----------------------------
(***************************************************************************)
(* The probe-rs flash algorithm (mc1322x-flash-algorithm/src/main.rs): the *)
(* calls a probe makes on the target, one at a time, each checked and then *)
(* served by one routine of the boot ROM, which works cell by cell and may *)
(* fail or be cut off by a reset anywhere.  A cell stands for some bytes.  *)
(***************************************************************************)
EXTENDS Naturals, Sequences

CONSTANTS
    PF_SECTOR,     \* cells of a sector: FLASH_SECTOR_SIZE
    PF_SECTORS,    \* FLASH_NUM_SECTORS, the reserved top one included
    PF_WIDTH,      \* addresses and lengths are below it: 2^32
    ProbeAddrs,    \* addresses a probe passes
    ProbeData      \* buffers a probe passes

ASSUME ProbeAssumption ==
    /\ {PF_SECTOR, PF_SECTORS, PF_WIDTH} \subseteq Nat \ {0}
    /\ PF_SECTOR * PF_SECTORS < PF_WIDTH
    /\ ProbeAddrs \subseteq 0 .. PF_WIDTH - 1
    /\ \A d \in ProbeData : d \in Seq({"a", "b"}) /\ Len(d) < PF_WIDTH

VARIABLES
    pfflash,    \* the cells of the serial flash
    pfpc,       \* "closed", "open", "rom": in a ROM routine, "back": returned
    pfcall,     \* the call: [fn, addr, data]
    pftodo,     \* cells the ROM routine has still to work on
    pfresult    \* what the call returned: "ok" or an error code

pfvars == <<pfflash, pfpc, pfcall, pftodo, pfresult>>

PF_SIZE == PF_SECTOR * PF_SECTORS
PfCells == 0 .. PF_SIZE - 1
PfSector(s) == {c \in PfCells : c \div PF_SECTOR = s}
PfReserved == PfSector(PF_SECTORS - 1)

\* The cells addr .. addr + len - 1, as far as the part has them.
PfRange(addr, len) == {c \in PfCells : addr <= c /\ c < addr + len}
PfNoCall == [fn |-> "none", addr |-> 0, data |-> <<>>]

ProbeInit ==
    /\ pfflash \in [PfCells -> {"erased", "a"}]
    /\ pfpc = "closed" /\ pfcall = PfNoCall /\ pftodo = {} /\ pfresult = "none"

-----------------------------------------------------------------------------
PfReturn(result) == pfpc' = "back" /\ pfresult' = result /\ pftodo' = {}
PfRom(cells) == pfpc' = "rom" /\ pftodo' = cells /\ UNCHANGED pfresult

(* new: stacks, rom_data_init and regulators, then the part is detected; a  *)
(* failure, an unknown code and the code for "no part" are told apart.      *)
ProbeNew ==
    /\ pfpc = "closed"
    /\ \E failed \in BOOLEAN, code \in 0 .. 4 :
         LET result == IF failed THEN "0x7001"
                       ELSE IF code > 3 THEN "0x7008"
                       ELSE IF code = 0 THEN "0x7002" ELSE "ok"
         IN  /\ pfresult' = result
             /\ pfpc' = IF result = "ok" THEN "open" ELSE "closed"
    /\ UNCHANGED <<pfflash, pfcall, pftodo>>

ProbeCall(fn, addr, data) ==
    /\ pfpc = "open"
    /\ pfcall' = [fn |-> fn, addr |-> addr, data |-> data]
    /\ UNCHANGED pfflash

(* erase_all: mask 0x7FFFFFFF, every sector but the reserved one. *)
ProbeEraseAll == ProbeCall("erase_all", 0, <<>>) /\ PfRom(PfCells \ PfReserved)

(* erase_sector: any sector of the part, the reserved one too. *)
ProbeEraseSector ==
    \E addr \in ProbeAddrs :
      LET sector == addr \div PF_SECTOR
      IN  /\ ProbeCall("erase_sector", addr, <<>>)
          /\ IF sector >= PF_SECTORS THEN PfReturn("0x7004")
                                     ELSE PfRom(PfSector(sector))

(* The check of program_page and verify; the sum is a u32, which wraps in a  *)
(* release build. *)
OutOfRange(addr, len) == addr >= PF_SIZE \/ (addr + len) % PF_WIDTH > PF_SIZE

ProbeProgramPage ==
    \E addr \in ProbeAddrs, data \in ProbeData :
      /\ ProbeCall("program_page", addr, data)
      /\ IF data = <<>> THEN PfReturn("ok")
         ELSE IF OutOfRange(addr, Len(data)) THEN PfReturn("0x7006")
         ELSE PfRom(PfRange(addr, Len(data)))

(* verify: the address is the error.  Without data there is nothing to do,  *)
(* as with none of it. *)
ProbeVerify ==
    \E addr \in ProbeAddrs, data \in ProbeData :
      /\ ProbeCall("verify", addr, data)
      /\ IF data = <<>> THEN PfReturn("ok")
         ELSE IF OutOfRange(addr, Len(data)) THEN PfReturn("address")
         ELSE PfRom({})

-----------------------------------------------------------------------------
(* The ROM's nvm_erase, nvm_write and nvm_verify.  What leaves the part is  *)
(* an address-space error before any cell is touched.                       *)
PfDatum(c) == pfcall.data[c - pfcall.addr + 1]
PfOverflow == pfcall.addr + Len(pfcall.data) > PF_SIZE

RomCell ==
    /\ pfpc = "rom" /\ ~PfOverflow
    /\ \E c \in pftodo :
         /\ pfcall.fn = "program_page" => \A d \in pftodo : c <= d
         /\ pftodo' = pftodo \ {c}
         /\ pfflash' = [pfflash EXCEPT ![c] =
              IF pfcall.fn # "program_page" THEN "erased"
              ELSE IF @ \in {"erased", PfDatum(c)} THEN PfDatum(c) ELSE "damaged"]
    /\ UNCHANGED <<pfpc, pfcall, pfresult>>

Matches == \A c \in PfRange(pfcall.addr, Len(pfcall.data)) : pfflash[c] = PfDatum(c)
RomSucceeds == /\ ~PfOverflow /\ pftodo = {}
               /\ pfcall.fn \in {"program_page", "verify"} => Matches

PfFailure == CASE pfcall.fn = "erase_all" -> "0x7003"
               [] pfcall.fn = "erase_sector" -> "0x7005"
               [] pfcall.fn = "program_page" -> "0x7007"
               [] pfcall.fn = "verify" -> "address"

MutRomReturnsIgnored ==
    /\ pfpc = "rom" /\ pftodo = {}
    /\ PfReturn(IF pfcall.fn = "program_page" \/ RomSucceeds THEN "ok" ELSE PfFailure)
    /\ UNCHANGED <<pfflash, pfcall>>

(* The routine's status or error count, and what the call makes of it; the  *)
(* part may fail at any point.                                              *)
RomReturns ==
    /\ pfpc = "rom"
    /\ \/ RomSucceeds /\ PfReturn("ok")
       \/ PfReturn(PfFailure)
    /\ UNCHANGED <<pfflash, pfcall>>

(* The probe, on the host, reads the result and makes its next call, or      *)
(* unloads the algorithm, whose Drop changes nothing.                        *)
ProbeTakes ==
    /\ pfpc = "back"
    /\ pfpc' \in {"open", "closed"} /\ pfcall' = PfNoCall /\ pfresult' = "none"
    /\ UNCHANGED <<pfflash, pftodo>>

(* The probe resets the target, or the target loses power, at any time. *)
ProbeReset ==
    /\ pfpc # "closed"
    /\ pfpc' = "closed" /\ pfcall' = PfNoCall /\ pftodo' = {} /\ pfresult' = "none"
    /\ UNCHANGED pfflash

ProbeNext ==
    \/ ProbeNew \/ ProbeEraseAll \/ ProbeEraseSector \/ ProbeProgramPage
    \/ ProbeVerify \/ RomCell \/ RomReturns \/ ProbeTakes \/ ProbeReset

ProbeSpec == ProbeInit /\ [][ProbeNext]_pfvars

-----------------------------------------------------------------------------
(* The cells a call is about. *)
PfScope(call) ==
    CASE call.fn = "erase_all" -> PfCells \ PfReserved
      [] call.fn = "erase_sector" -> PfSector(call.addr \div PF_SECTOR)
      [] call.fn = "program_page" -> PfRange(call.addr, Len(call.data))
      [] OTHER -> {}

(* A call that answers Ok has done, all of it, what it was asked for: the    *)
(* cells are erased, or hold the data to the last byte, also when the length *)
(* runs past the end of the part or of the address space.                    *)
OkIsTrue ==
    pfpc = "back" /\ pfresult = "ok" =>
      IF pfcall.fn \in {"erase_all", "erase_sector"}
      THEN \A c \in PfScope(pfcall) : pfflash[c] = "erased"
      ELSE pfcall.data = <<>> \/ (~PfOverflow /\ Matches)

(* No call touches a cell it is not about, failing or not: erase_all spares  *)
(* the reserved sector.                                                      *)
StaysInScope ==
    \A c \in PfCells : pfflash'[c] # pfflash[c] => c \in PfScope(pfcall)

(* What the probe is told is so, and nothing else has happened to the part   *)
(* (the range checks and error codes of main.rs).                            *)
ProbeVerified == [][OkIsTrue' /\ StaysInScope]_pfvars
=============================================================================
