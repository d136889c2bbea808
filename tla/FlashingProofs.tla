--------------------------- MODULE FlashingProofs ---------------------------
(***************************************************************************)
(* The two ways into the serial flash, for every geometry of the part,     *)
(* every image and every buffer: what a probe is told is so, and what the  *)
(* flashing script reports is in flash.                                    *)
(***************************************************************************)
EXTENDS SslSession, ProbeFlash, SequenceTheorems, TLAPS

(***************************************************************************)
(* The probe's calls.                                                      *)
(***************************************************************************)
Erasing == {"erase_all", "erase_sector"}
Reading == {"program_page", "verify"}
PfCalls == [fn : Erasing \cup Reading \cup {"none"}, addr : Nat, data : Seq({"a", "b"})]

\* What the call in progress still owes: cells no longer on the list of an
\* erase are erased, and the list names no cell outside the call's scope.
PfWork ==
    pfpc = "rom" =>
      /\ pftodo \subseteq PfScope(pfcall)
      /\ pfcall.fn \in Erasing =>
           \A c \in PfScope(pfcall) \ pftodo : pfflash[c] = "erased"

ProbeInv ==
    /\ pfpc \in {"closed", "open", "rom", "back"}
    /\ pfcall \in PfCalls
    /\ pfpc \in {"rom"} => pfcall.fn # "none"
    /\ pfpc = "back" => pfcall.fn # "none"
    /\ pfflash \in [PfCells -> {"erased", "a", "b", "damaged"}]
    /\ PfWork
    /\ OkIsTrue

\* The scope of each kind of call.
LEMMA ScopeOf ==
  ASSUME NEW call \in PfCalls
  PROVE  /\ call.fn = "erase_all" => PfScope(call) = PfCells \ PfReserved
         /\ call.fn = "erase_sector" =>
              PfScope(call) = PfSector(call.addr \div PF_SECTOR)
         /\ call.fn = "program_page" => PfScope(call) = PfRange(call.addr, Len(call.data))
         /\ call.fn \in {"verify", "none"} => PfScope(call) = {}
BY DEF PfScope, PfCalls

\* What a probe passes.
LEMMA ProbePasses ==
  /\ ProbeAddrs \subseteq Nat
  /\ ProbeData \subseteq Seq({"a", "b"})
  /\ <<>> \in Seq({"a", "b"}) /\ PfNoCall \in PfCalls
<1>1. PF_WIDTH \in Nat /\ ProbeAddrs \subseteq 0 .. PF_WIDTH - 1 BY ProbeAssumption
<1>2. ProbeAddrs \subseteq Nat BY <1>1
<1>3. ProbeData \subseteq Seq({"a", "b"}) BY ProbeAssumption
<1>4. <<>> \in Seq({"a", "b"}) OBVIOUS
<1> QED BY <1>2, <1>3, <1>4 DEF PfNoCall, PfCalls

\* Before new() the algorithm has no call and no ROM routine under way.
LEMMA ProbeStarts == ASSUME ProbeInit PROVE ProbeInv
BY ProbePasses DEF ProbeInit, ProbeInv, PfWork, OkIsTrue, PfNoCall

\* The calls: the check either answers an error, or hands the cells of the
\* call's scope to the ROM; an empty buffer is done at once.
LEMMA ProbeCallStep ==
  ASSUME ProbeInv, NEW fn \in Erasing \cup Reading, NEW addr \in Nat,
         NEW data \in Seq({"a", "b"}), ProbeCall(fn, addr, data),
         \/ PfReturn("ok") /\ data = <<>> /\ fn \in Reading
         \/ \E r \in {"0x7004", "0x7006", "address"} : PfReturn(r)
         \/ PfRom(PfScope([fn |-> fn, addr |-> addr, data |-> data]))
         \/ fn = "verify" /\ PfRom({})
  PROVE  ProbeInv' /\ StaysInScope
<1>1. pfcall' = [fn |-> fn, addr |-> addr, data |-> data] /\ pfflash' = pfflash
  BY DEF ProbeCall
<1>2. pfcall' \in PfCalls /\ pfcall'.fn = fn /\ pfcall'.data = data /\ fn # "none"
  BY <1>1 DEF PfCalls, Erasing, Reading
<1>3. StaysInScope BY <1>1 DEF StaysInScope
<1>4. CASE PfReturn("ok") /\ data = <<>> /\ fn \in Reading
  BY <1>1, <1>2, <1>3, <1>4 DEF ProbeInv, PfWork, OkIsTrue, PfReturn, Erasing, Reading
<1>5. CASE \E r \in {"0x7004", "0x7006", "address"} : PfReturn(r)
  BY <1>1, <1>2, <1>3, <1>5 DEF ProbeInv, PfWork, OkIsTrue, PfReturn
<1>6. CASE PfRom(PfScope([fn |-> fn, addr |-> addr, data |-> data]))
  <2>1. pfpc' = "rom" /\ pftodo' = PfScope(pfcall') BY <1>1, <1>6 DEF PfRom
  <2> QED BY <1>1, <1>2, <1>3, <2>1 DEF ProbeInv, PfWork, OkIsTrue
<1>7. CASE fn = "verify" /\ PfRom({})
  BY <1>1, <1>2, <1>3, <1>7 DEF ProbeInv, PfWork, OkIsTrue, PfRom, Erasing
<1> QED BY <1>4, <1>5, <1>6, <1>7

\* The ROM works on one cell of its list.
LEMMA RomCellStep ==
  ASSUME ProbeInv, RomCell
  PROVE  ProbeInv' /\ StaysInScope
<1>1. PICK c \in pftodo :
        /\ pftodo' = pftodo \ {c}
        /\ pfflash' = [pfflash EXCEPT ![c] =
              IF pfcall.fn # "program_page" THEN "erased"
              ELSE IF @ \in {"erased", PfDatum(c)} THEN PfDatum(c) ELSE "damaged"]
  BY DEF RomCell
<1>2. pfpc = "rom" /\ pfpc' = "rom" /\ pfcall' = pfcall /\ pfresult' = pfresult
  BY DEF RomCell
<1>3. c \in PfScope(pfcall) /\ pftodo \subseteq PfScope(pfcall)
  BY <1>2 DEF ProbeInv, PfWork
<1>4. PfScope(pfcall) \subseteq PfCells
  <2>1. pfcall \in PfCalls /\ pfcall.fn # "none" BY <1>2 DEF ProbeInv
  <2> QED BY <2>1, ScopeOf DEF PfCalls, Erasing, Reading, PfSector, PfRange
<1>5. \A d \in PfCells : d # c => pfflash'[d] = pfflash[d]
  BY <1>1 DEF ProbeInv
<1>6. StaysInScope BY <1>3, <1>5 DEF StaysInScope
<1>7. pfcall.fn = "program_page" => PfDatum(c) \in {"a", "b"}
  <2> SUFFICES ASSUME pfcall.fn = "program_page" PROVE PfDatum(c) \in {"a", "b"}
    OBVIOUS
  <2>1. pfcall.addr \in Nat /\ pfcall.data \in Seq({"a", "b"})
    BY DEF ProbeInv, PfCalls
  <2>2. c \in Int /\ pfcall.addr <= c /\ c < pfcall.addr + Len(pfcall.data)
    <3>1. c \in PfRange(pfcall.addr, Len(pfcall.data))
      BY <1>3, ScopeOf DEF ProbeInv
    <3> QED BY <3>1 DEF PfRange, PfCells
  <2>3. Len(pfcall.data) \in Nat BY <2>1
  <2>4. c - pfcall.addr + 1 \in 1 .. Len(pfcall.data) BY <2>1, <2>2, <2>3
  <2> QED BY <2>1, <2>4 DEF PfDatum
<1>8. pfflash' \in [PfCells -> {"erased", "a", "b", "damaged"}]
  BY <1>1, <1>3, <1>4, <1>7 DEF ProbeInv
<1>9. PfWork'
  <2>1. pftodo' \subseteq PfScope(pfcall') BY <1>1, <1>2, <1>3
  <2>2. ASSUME pfcall.fn \in Erasing, NEW d \in PfScope(pfcall) \ pftodo'
        PROVE  pfflash'[d] = "erased"
    <3>1. CASE d = c
      BY <1>1, <1>3, <1>4, <2>2, <3>1 DEF ProbeInv, Erasing
    <3>2. CASE d # c
      BY <1>1, <1>2, <1>4, <1>5, <2>2, <3>2 DEF ProbeInv, PfWork
    <3> QED BY <3>1, <3>2
  <2> QED BY <1>2, <2>1, <2>2 DEF PfWork
<1> QED BY <1>2, <1>6, <1>8, <1>9 DEF ProbeInv, OkIsTrue

\* The routine returns: the call answers Ok only if the ROM found nothing wrong.
LEMMA RomReturnsStep ==
  ASSUME ProbeInv, RomReturns
  PROVE  ProbeInv' /\ StaysInScope
<1>1. /\ pfpc = "rom" /\ pfpc' = "back" /\ pftodo' = {}
      /\ pfflash' = pfflash /\ pfcall' = pfcall
  BY DEF RomReturns, PfReturn
<1>2. StaysInScope BY <1>1 DEF StaysInScope
<1>3. pfresult' = "ok" => RomSucceeds
  <2>1. pfcall.fn \in Erasing \cup Reading BY <1>1 DEF ProbeInv, PfCalls
  <2>2. PfFailure # "ok" BY <2>1 DEF PfFailure, Erasing, Reading
  <2> QED BY <2>2 DEF RomReturns, PfReturn
<1>4. OkIsTrue'
  <2>1. CASE pfcall.fn \in Erasing
    <3>1. RomSucceeds => \A c \in PfScope(pfcall) : pfflash[c] = "erased"
      BY <1>1, <2>1 DEF ProbeInv, PfWork, RomSucceeds
    <3> QED BY <1>1, <1>3, <2>1, <3>1 DEF OkIsTrue, Erasing
  <2>2. CASE pfcall.fn \notin Erasing
    <3>1. pfcall.fn \in Reading BY <1>1, <2>2 DEF ProbeInv, PfCalls
    <3>2. RomSucceeds => ~PfOverflow /\ Matches
      BY <3>1 DEF RomSucceeds, Reading
    <3>3. (PfOverflow <=> PfOverflow') /\ (Matches <=> Matches')
      BY <1>1 DEF PfOverflow, Matches, PfDatum
    <3> QED BY <1>1, <1>3, <2>2, <3>2, <3>3 DEF OkIsTrue, Erasing
  <2> QED BY <2>1, <2>2
<1> QED BY <1>1, <1>2, <1>4 DEF ProbeInv, PfWork

\* Every step of the algorithm and of the ROM keeps ProbeInv, and no call
\* touches a cell outside its scope.
LEMMA ProbeStep ==
  ASSUME ProbeInv, [ProbeNext]_pfvars
  PROVE  ProbeInv' /\ StaysInScope
<1>1. CASE ProbeNew
  <2>1. pfpc' \in {"open", "closed"} /\ pfflash' = pfflash /\ pfcall' = pfcall
    BY <1>1 DEF ProbeNew
  <2> QED BY <2>1 DEF ProbeInv, PfWork, OkIsTrue, StaysInScope
<1>2. CASE ProbeEraseAll
  <2>1. PfScope([fn |-> "erase_all", addr |-> 0, data |-> <<>>]) = PfCells \ PfReserved
    BY DEF PfScope
  <2> QED BY <1>2, <2>1, ProbePasses, ProbeCallStep DEF ProbeEraseAll, Erasing
<1>3. CASE ProbeEraseSector
  <2>1. PICK addr \in ProbeAddrs :
          /\ ProbeCall("erase_sector", addr, <<>>)
          /\ \/ PfReturn("0x7004") \/ PfRom(PfSector(addr \div PF_SECTOR))
    BY <1>3 DEF ProbeEraseSector
  <2>2. PfScope([fn |-> "erase_sector", addr |-> addr, data |-> <<>>])
          = PfSector(addr \div PF_SECTOR)
    BY DEF PfScope
  <2> QED BY <2>1, <2>2, ProbePasses, ProbeCallStep DEF Erasing
<1>4. CASE ProbeProgramPage
  <2>1. PICK addr \in ProbeAddrs, data \in ProbeData :
          /\ ProbeCall("program_page", addr, data)
          /\ \/ data = <<>> /\ PfReturn("ok")
             \/ PfReturn("0x7006")
             \/ PfRom(PfRange(addr, Len(data)))
    BY <1>4 DEF ProbeProgramPage
  <2>2. PfScope([fn |-> "program_page", addr |-> addr, data |-> data])
          = PfRange(addr, Len(data))
    BY DEF PfScope
  <2> QED BY <2>1, <2>2, ProbePasses, ProbeCallStep DEF Reading
<1>5. CASE ProbeVerify
  <2>1. PICK addr \in ProbeAddrs, data \in ProbeData :
          /\ ProbeCall("verify", addr, data)
          /\ \/ data = <<>> /\ PfReturn("ok")
             \/ PfReturn("address")
             \/ PfRom({})
    BY <1>5 DEF ProbeVerify
  <2> QED BY <2>1, ProbePasses, ProbeCallStep DEF Reading
<1>6. CASE RomCell BY <1>6, RomCellStep
<1>7. CASE RomReturns BY <1>7, RomReturnsStep
<1>8. CASE ProbeTakes \/ ProbeReset
  <2>1. pfpc' \in {"open", "closed"} /\ pfflash' = pfflash /\ pfcall' = PfNoCall
    BY <1>8 DEF ProbeTakes, ProbeReset
  <2> QED BY <2>1, ProbePasses DEF ProbeInv, PfWork, OkIsTrue, StaysInScope
<1>9. CASE UNCHANGED pfvars
  BY <1>9 DEF pfvars, ProbeInv, PfWork, OkIsTrue, StaysInScope, PfOverflow, Matches, PfDatum
<1> QED
  BY <1>1, <1>2, <1>3, <1>4, <1>5, <1>6, <1>7, <1>8, <1>9 DEF ProbeNext

\* Whatever the probe asks for and wherever the ROM fails or the target is
\* reset: a call that answers Ok has erased or programmed all it names, and no
\* call touches a cell it is not about (main.rs: the range checks, the mask of
\* erase_all, the error codes).
THEOREM ProbeIsToldTheTruth == ProbeSpec => ProbeVerified
<1>1. ProbeInit => ProbeInv BY ProbeStarts
<1>2. ProbeInv /\ [ProbeNext]_pfvars => ProbeInv' BY ProbeStep
<1>3. ProbeInv /\ ProbeInv' /\ [ProbeNext]_pfvars
        => [OkIsTrue' /\ StaysInScope]_pfvars
  BY ProbeStep DEF ProbeInv
<1> QED BY <1>1, <1>2, <1>3, PTL DEF ProbeSpec, ProbeVerified

(***************************************************************************)
(* The flashing session.                                                   *)
(***************************************************************************)
Idle == {"off", "boot", "probe", "loop", "reading"}
Busy == {"erase", "write"}
Asking == {"erase", "write", "commit"}
Banners == {"NVM_READY", "READY"}
Answers == {"SUCCESS", "EXEC_ERROR", "WRITE_ERROR", "CRC_ERROR"}

Value == {"erased", "damaged", "signature", "length", "image"} \X Nat \X Nat
Frames == [cmd : Asking, addr : Nat, data : Seq(Value),
           damage : {"none", "flipped", "oversize", "short"}]

AllBanners(q) == \A i \in 1 .. Len(q) : q[i] \in Banners
NoBanners(q) == \A i \in 1 .. Len(q) : q[i] \notin Banners
BannersLast(q) == \A i, j \in 1 .. Len(q) : i < j /\ q[i] \in Banners => q[j] \in Banners
OneAnswer(q) ==
  \A i, j \in 1 .. Len(q) : q[i] \notin Banners /\ q[j] \notin Banners => i = j
Success(q) == \E i \in 1 .. Len(q) : q[i] = "SUCCESS"

Shape ==
  /\ DOMAIN flash = Cells
  /\ lens \in Seq(Lengths) /\ Len(lens) \in 1 .. MaxSession
  /\ host \in [pc : Asking \cup {"ready", "failed", "done"}, offset : Nat, sent : BOOLEAN]
  /\ loader \in [pc : Idle \cup Busy, todo : SUBSET (0 .. ReservedSector - 1),
                 addr : Nat, data : Seq(Value), done : Nat]
  /\ toLoader \in Seq(Frames) /\ Len(toLoader) <= 1
  /\ toHost \in Seq(Banners \cup Answers)

\* One request is on its way, served or answered at a time, also across a loss
\* of power and an operator who forgets the reset: what is still to come from
\* an older session comes before the banner that a new one waits for.
Traffic ==
  /\ host.sent => host.pc \in Asking
  /\ toLoader # <<>> => host.sent /\ loader.pc \in Idle /\ AllBanners(toHost)
  /\ host.pc \in Asking \cup {"done"} /\ ~host.sent => loader.pc \in Idle
  /\ host.pc \in Asking /\ ~host.sent => AllBanners(toHost)
  /\ host.sent => OneAnswer(toHost)
  /\ host.sent /\ loader.pc \in Busy => AllBanners(toHost)
  /\ host.pc = "ready" => BannersLast(toHost)
  /\ host.pc = "ready" /\ loader.pc \in Busy => NoBanners(toHost)

\* The request on the wire is the one the host waits for.
Asked ==
  toLoader # <<>> =>
    /\ toLoader[1].cmd = host.pc
    /\ host.pc = "write" =>
         /\ toLoader[1].addr = FlashAddr(host.offset)
         /\ toLoader[1].data = ImageCells(image.id, host.offset, ChunkLen(host.offset))
    /\ host.pc = "commit" => toLoader[1].addr = image.len

\* So is the one the loader serves ...
Served ==
  host.sent /\ loader.pc \in Busy =>
    \/ host.pc = "erase" /\ loader.pc = "erase"
    \/ /\ host.pc = "write" /\ loader.pc = "write"
       /\ loader.addr = FlashAddr(host.offset)
       /\ loader.data = ImageCells(image.id, host.offset, ChunkLen(host.offset))
    \/ /\ host.pc = "commit" /\ loader.pc = "write"
       /\ loader.addr = 0 /\ loader.data = <<Signature, Length(image.len)>>

\* ... and it is a piece of some session's image, or its header with all of
\* the image already in flash.
ImageWrite(s) ==
  /\ loader.addr >= HEADER_SIZE
  /\ loader.data = ImageCells(s, loader.addr - HEADER_SIZE, Len(loader.data))
  /\ loader.addr - HEADER_SIZE + Len(loader.data) <= lens[s]
HeaderWrite(s) ==
  /\ loader.addr = 0 /\ loader.data = <<Signature, Length(lens[s])>>
  /\ Holds(flash, s, lens[s])

Work ==
  loader.pc = "write" =>
    /\ loader.done <= Len(loader.data)
    /\ loader.addr + Len(loader.data) <= CAPACITY
    /\ \E s \in 1 .. Len(lens) : ImageWrite(s) \/ HeaderWrite(s)

\* What the host was told is in flash.
Progress ==
  /\ host.pc \in {"write", "commit", "done"} => Holds(flash, image.id, host.offset)
  /\ host.pc = "write" => host.offset < image.len
  /\ host.pc \in {"commit", "done"} => host.offset = image.len
  /\ host.pc = "done" => flash[0] = Signature /\ flash[1] = Length(image.len)

\* What it is about to be told is in flash, too.
Told ==
  /\ host.pc = "write" => Holds(flash, image.id, host.offset + ChunkLen(host.offset))
  /\ host.pc = "commit" => flash[0] = Signature /\ flash[1] = Length(image.len)
Confirmed == host.sent /\ Success(toHost) => Told

SessionInv == Shape /\ Traffic /\ Asked /\ Served /\ Work /\ Progress /\ Confirmed

\* The part: its reserved sector is its last, behind at least one other.
LEMMA Geometry ==
  /\ CAPACITY \in Nat /\ CAPACITY >= 4
  /\ ReservedSector \in Nat \ {0} /\ SECTOR \in Nat \ {0}
  /\ ReservedSector * SECTOR \in Nat /\ ReservedSector * SECTOR >= 2
  /\ SectorBitfield(0, ReservedSector * SECTOR) \subseteq 0 .. ReservedSector - 1
  /\ \A c \in Cells : SectorOf(c) = ReservedSector => c >= ReservedSector * SECTOR
<1>1. SECTOR \in Nat /\ SECTOR >= 2 /\ SECTORS \in Nat /\ SECTORS >= 2
  BY SslConstants
<1>2. ReservedSector \in Nat \ {0} /\ SECTORS = ReservedSector + 1
  BY <1>1 DEF ReservedSector
<1>3. ReservedSector * SECTOR \in Nat /\ ReservedSector * SECTOR >= 2
  BY <1>1, <1>2
<1>4. CAPACITY \in Nat /\ CAPACITY >= 4
  <2>1. CAPACITY = ReservedSector * SECTOR + SECTOR BY <1>1, <1>2 DEF CAPACITY
  <2> QED BY <1>1, <1>3, <2>1
<1>5. (ReservedSector * SECTOR) \div SECTOR = ReservedSector BY <1>1, <1>2
<1>6. SectorBitfield(0, ReservedSector * SECTOR) \subseteq 0 .. ReservedSector - 1
  <2>1. 0 \div SECTOR = 0 BY <1>1
  <2>2. (ReservedSector * SECTOR - 0) \div SECTOR = ReservedSector BY <1>3, <1>5
  <2> QED BY <1>2, <2>1, <2>2 DEF SectorBitfield
<1>7. ASSUME NEW c \in Cells, SectorOf(c) = ReservedSector
      PROVE  c >= ReservedSector * SECTOR
  BY <1>1, <1>2, <1>4, <1>7 DEF Cells, SectorOf
<1> QED BY <1>1, <1>2, <1>3, <1>4, <1>6, <1>7

\* A piece of an image.
LEMMA PieceOf ==
  ASSUME NEW s \in Nat, NEW o \in Nat, NEW n \in Nat
  PROVE  /\ ImageCells(s, o, n) \in Seq(Value)
         /\ Len(ImageCells(s, o, n)) = n
         /\ \A k \in 1 .. n : ImageCells(s, o, n)[k] = Datum(s, o + k - 1)
<1>1. \A k \in 1 .. n : o + k - 1 \in Nat OBVIOUS
<1>2. \A m \in Nat : Datum(s, m) \in Value BY DEF Datum, Value
<1>3. \A k \in 1 .. n : Datum(s, o + k - 1) \in Value BY <1>1, <1>2
<1> QED BY <1>3 DEF ImageCells

\* The image of the session in progress.
LEMMA ImageIs ==
  ASSUME Shape
  PROVE  /\ image.id = Len(lens) /\ image.id \in 1 .. Len(lens) /\ image.id \in Nat
         /\ image.len = lens[image.id] /\ image.len \in Nat \ {0}
<1>1. Lengths \subseteq Nat \ {0} BY SslConstants
<1>2. image = [id |-> Len(lens), len |-> lens[Len(lens)]] BY DEF image, Last
<1>3. lens[Len(lens)] \in Lengths
  <2>1. lens \in Seq(Lengths) /\ Len(lens) \in 1 .. MaxSession BY DEF Shape
  <2>2. MaxSession \in Nat BY SslConstants
  <2>3. Len(lens) \in 1 .. Len(lens) BY <2>1, <2>2
  <2> QED BY <2>1, <2>3
<1>4. Len(lens) \in 1 .. Len(lens) /\ Len(lens) \in Nat
  BY SslConstants DEF Shape
<1> QED BY <1>1, <1>2, <1>3, <1>4

\* The next chunk is not empty and ends within the image.
LEMMA NextChunk ==
  ASSUME Shape, NEW o \in Nat, o < image.len
  PROVE  ChunkLen(o) \in Nat /\ o + ChunkLen(o) <= image.len /\ ChunkLen(o) > 0
<1>1. CHUNK \in Nat \ {0} BY SslConstants
<1> QED BY <1>1, ImageIs DEF ChunkLen

\* A queue of banners and answers that grows ...
LEMMA QueueGrows ==
  ASSUME NEW q \in Seq(Banners \cup Answers), NEW a \in Banners \cup Answers
  PROVE  /\ Append(q, a) \in Seq(Banners \cup Answers)
         /\ a \in Banners =>
              /\ AllBanners(q) => AllBanners(Append(q, a))
              /\ BannersLast(q) => BannersLast(Append(q, a))
              /\ OneAnswer(q) => OneAnswer(Append(q, a))
              /\ Success(Append(q, a)) => Success(q)
         /\ AllBanners(q) => OneAnswer(Append(q, a))
         /\ NoBanners(q) => BannersLast(Append(q, a))
         /\ Success(Append(q, a)) => Success(q) \/ a = "SUCCESS"
<1> DEFINE r == Append(q, a)
<1>1. /\ r \in Seq(Banners \cup Answers) /\ Len(r) = Len(q) + 1 /\ Len(q) \in Nat
      /\ r[Len(r)] = a /\ \A i \in 1 .. Len(r) : i # Len(r) => i \in 1 .. Len(q) /\ r[i] = q[i]
  OBVIOUS
<1> HIDE DEF r
<1>2. AllBanners(q) /\ a \in Banners => AllBanners(r) BY <1>1 DEF AllBanners
<1>3. BannersLast(q) /\ a \in Banners => BannersLast(r)
  BY <1>1 DEF BannersLast
<1>4. OneAnswer(q) /\ a \in Banners => OneAnswer(r) BY <1>1 DEF OneAnswer
<1>5. Success(r) => Success(q) \/ a = "SUCCESS" BY <1>1 DEF Success
<1>6. a \in Banners => a # "SUCCESS" BY DEF Banners
<1>7. AllBanners(q) => OneAnswer(r) BY <1>1 DEF AllBanners, OneAnswer
<1>8. NoBanners(q) => BannersLast(r) BY <1>1 DEF NoBanners, BannersLast
<1> QED BY <1>1, <1>2, <1>3, <1>4, <1>5, <1>6, <1>7, <1>8 DEF r

\* ... and shrinks.
LEMMA QueueShrinks ==
  ASSUME NEW q \in Seq(Banners \cup Answers), q # <<>>
  PROVE  /\ Head(q) \in Banners \cup Answers /\ Tail(q) \in Seq(Banners \cup Answers)
         /\ AllBanners(q) => AllBanners(Tail(q)) /\ Head(q) \in Banners
         /\ BannersLast(q) => BannersLast(Tail(q))
         /\ OneAnswer(q) => OneAnswer(Tail(q))
         /\ NoBanners(q) => NoBanners(Tail(q)) /\ Head(q) \notin Banners
         /\ Success(Tail(q)) => Success(q)
         /\ Head(q) = "SUCCESS" => Success(q)
         /\ BannersLast(q) /\ Head(q) \in Banners => AllBanners(Tail(q))
         /\ OneAnswer(q) /\ Head(q) \notin Banners => AllBanners(Tail(q))
<1> DEFINE r == Tail(q)
<1>1. /\ r \in Seq(Banners \cup Answers) /\ Len(q) = Len(r) + 1 /\ Len(r) \in Nat
      /\ q[1] = Head(q) /\ q[1] \in Banners \cup Answers
      /\ \A i \in 1 .. Len(r) : i + 1 \in 1 .. Len(q) /\ r[i] = q[i + 1]
  OBVIOUS
<1> HIDE DEF r
<1>2. AllBanners(q) => AllBanners(r) /\ Head(q) \in Banners BY <1>1 DEF AllBanners
<1>3. BannersLast(q) => BannersLast(r)
  <2> SUFFICES ASSUME BannersLast(q), NEW i \in 1 .. Len(r), NEW j \in 1 .. Len(r),
                      i < j, r[i] \in Banners
               PROVE  r[j] \in Banners
    BY DEF BannersLast
  <2>1. q[i + 1] \in Banners /\ i + 1 < j + 1 BY <1>1
  <2>2. q[j + 1] \in Banners BY <1>1, <2>1 DEF BannersLast
  <2> QED BY <1>1, <2>2
<1>4. OneAnswer(q) => OneAnswer(r)
  <2> SUFFICES ASSUME OneAnswer(q), NEW i \in 1 .. Len(r), NEW j \in 1 .. Len(r),
                      r[i] \notin Banners, r[j] \notin Banners
               PROVE  i = j
    BY DEF OneAnswer
  <2>1. i + 1 = j + 1 BY <1>1 DEF OneAnswer
  <2> QED BY <2>1
<1>5. NoBanners(q) => NoBanners(r) /\ Head(q) \notin Banners BY <1>1 DEF NoBanners
<1>6. Success(r) => Success(q) BY <1>1 DEF Success
<1>7. Head(q) = "SUCCESS" => Success(q) BY <1>1 DEF Success
<1>8. BannersLast(q) /\ Head(q) \in Banners => AllBanners(r)
  <2> SUFFICES ASSUME BannersLast(q), q[1] \in Banners, NEW i \in 1 .. Len(r)
               PROVE  r[i] \in Banners
    BY <1>1 DEF AllBanners
  <2>1. 1 \in 1 .. Len(q) /\ 1 < i + 1 BY <1>1
  <2>2. q[i + 1] \in Banners BY <1>1, <2>1 DEF BannersLast
  <2> QED BY <1>1, <2>2
<1>9. OneAnswer(q) /\ Head(q) \notin Banners => AllBanners(r)
  <2> SUFFICES ASSUME OneAnswer(q), q[1] \notin Banners, NEW i \in 1 .. Len(r),
                      r[i] \notin Banners
               PROVE  FALSE
    BY <1>1 DEF AllBanners
  <2>1. 1 \in 1 .. Len(q) /\ 1 # i + 1 BY <1>1
  <2> QED BY <1>1, <2>1 DEF OneAnswer
<1> QED
  BY <1>1, <1>2, <1>3, <1>4, <1>5, <1>6, <1>7, <1>8, <1>9 DEF r

\* Banners confirm nothing.
LEMMA BannersOnly ==
  ASSUME NEW q, AllBanners(q)
  PROVE  OneAnswer(q) /\ BannersLast(q) /\ ~Success(q)
BY DEF AllBanners, OneAnswer, BannersLast, Success, Banners

\* An image in flash stays there while its cells do.
LEMMA HoldsKept ==
  ASSUME NEW f, NEW g, NEW s, NEW l \in Nat, Holds(f, s, l),
         \A c \in Cells : HEADER_SIZE <= c /\ c < HEADER_SIZE + l => g[c] = f[c]
  PROVE  Holds(g, s, l)
BY Geometry DEF Holds, Cells, HEADER_SIZE

\* A loader that serves nothing yet: its record, and its parts.
LEMMA LoaderAt ==
  ASSUME NEW p \in Idle
  PROVE  /\ Loader(p).pc = p
         /\ Loader(p) \in [pc : Idle \cup Busy, todo : SUBSET (0 .. ReservedSector - 1),
                           addr : Nat, data : Seq(Value), done : Nat]
BY DEF Loader, Idle

\* A board with any image, or none, and an idle host.
LEMMA SessionStarts == ASSUME Init PROVE SessionInv
<1>1. DOMAIN flash = Cells BY DEF Init
<1>2. PICK l \in Lengths : lens = <<l>> BY DEF Init
<1>3. /\ loader = Loader("boot") /\ host = Host("ready", 0)
      /\ toLoader = <<>> /\ toHost = <<>>
  BY DEF Init
<1>4. lens \in Seq(Lengths) /\ Len(lens) \in 1 .. MaxSession
  BY <1>2, SslConstants
<1>5. "boot" \in Idle BY DEF Idle
<1>6. host \in [pc : Asking \cup {"ready", "failed", "done"}, offset : Nat, sent : BOOLEAN]
  BY <1>3 DEF Host
<1>7. Shape BY <1>1, <1>3, <1>4, <1>5, <1>6, LoaderAt DEF Shape
<1>8. Traffic
  BY <1>3, <1>5, LoaderAt
  DEF Traffic, Host, BannersLast, NoBanners, Asking
<1> QED
  BY <1>3, <1>5, <1>7, <1>8, LoaderAt
  DEF SessionInv, Asked, Served, Work, Progress, Confirmed, Host, Loader, Busy, Idle

\* The loader starts, loses power, or turns a request down: it serves nothing,
\* and what it sends is a banner, or an error that answers the request it took.
LEMMA LoaderStops ==
  ASSUME SessionInv, UNCHANGED <<flash, host, lens>>,
         loader' \in [pc : Idle \cup Busy, todo : SUBSET (0 .. ReservedSector - 1),
                      addr : Nat, data : Seq(Value), done : Nat],
         loader'.pc \in Idle,
         toLoader' = <<>> \/ toLoader' = toLoader,
         \/ toHost' = toHost
         \/ \E b \in Banners : toHost' = Append(toHost, b)
         \/ \E e \in Answers \ {"SUCCESS"} :
              toLoader # <<>> /\ toLoader' = <<>> /\ toHost' = Append(toHost, e)
  PROVE  SessionInv'
<1>1. loader'.pc \notin Busy /\ loader'.pc # "write" BY DEF Idle, Busy
<1>2. Shape'
  <2>0. toHost \in Seq(Banners \cup Answers) BY DEF SessionInv, Shape
  <2>1. toHost' \in Seq(Banners \cup Answers)
    <3>1. \A q \in Seq(Banners \cup Answers), a \in Banners \cup Answers :
             Append(q, a) \in Seq(Banners \cup Answers)
      BY QueueGrows
    <3>2. CASE toHost' = toHost BY <2>0, <3>2, Zenon
    <3>3. CASE \E b \in Banners : toHost' = Append(toHost, b) BY <2>0, <3>1, <3>3, Zenon
    <3>4. CASE \E e \in Answers \ {"SUCCESS"} :
                 toLoader # <<>> /\ toLoader' = <<>> /\ toHost' = Append(toHost, e)
      BY <2>0, <3>1, <3>4, Zenon
    <3> QED BY <3>2, <3>3, <3>4, Zenon
  <2>2. toLoader \in Seq(Frames) /\ Len(toLoader) <= 1 BY DEF SessionInv, Shape
  <2>3. <<>> \in Seq(Frames) /\ Len(<<>>) <= 1 OBVIOUS
  <2>4. toLoader' \in Seq(Frames) /\ Len(toLoader') <= 1 BY <2>2, <2>3
  <2> QED BY <2>1, <2>4 DEF SessionInv, Shape
<1>3. image' = image /\ \A o : ChunkLen(o)' = ChunkLen(o) BY DEF image, ChunkLen
<1>4. CASE toHost' = toHost
  <2>1. Traffic' BY <1>1, <1>4 DEF SessionInv, Traffic, Busy
  <2> QED
    BY <1>1, <1>2, <1>3, <1>4, <2>1
    DEF SessionInv, Asked, Served, Work, Progress, Confirmed, Told, FlashAddr
<1>5. CASE \E b \in Banners : toHost' = Append(toHost, b)
  <2>1. /\ AllBanners(toHost) => AllBanners(toHost')
        /\ BannersLast(toHost) => BannersLast(toHost')
        /\ OneAnswer(toHost) => OneAnswer(toHost')
        /\ Success(toHost') => Success(toHost)
    BY <1>5, QueueGrows DEF SessionInv, Shape
  <2>2. Traffic' BY <1>1, <2>1 DEF SessionInv, Traffic, Busy
  <2> QED
    BY <1>1, <1>2, <1>3, <2>1, <2>2
    DEF SessionInv, Asked, Served, Work, Progress, Confirmed, Told, FlashAddr
<1>6. CASE \E e \in Answers \ {"SUCCESS"} :
              toLoader # <<>> /\ toLoader' = <<>> /\ toHost' = Append(toHost, e)
  <2>1. host.sent /\ host.pc \in Asking /\ AllBanners(toHost)
    BY <1>6 DEF SessionInv, Traffic
  <2>2. OneAnswer(toHost') /\ ~Success(toHost')
    BY <1>6, <2>1, QueueGrows, BannersOnly, SMTT(30) DEF SessionInv, Shape
  <2>3. Traffic' BY <1>1, <1>6, <2>1, <2>2 DEF SessionInv, Traffic, Asking
  <2> QED
    BY <1>1, <1>2, <1>3, <1>6, <2>2, <2>3
    DEF SessionInv, Asked, Served, Work, Progress, Confirmed
<1> QED BY <1>4, <1>5, <1>6

\* The loader takes a request up.
LEMMA LoaderServes ==
  ASSUME SessionInv, UNCHANGED <<flash, host, lens, toHost>>,
         toLoader # <<>>, toLoader' = <<>>,
         loader' \in [pc : Idle \cup Busy, todo : SUBSET (0 .. ReservedSector - 1),
                      addr : Nat, data : Seq(Value), done : Nat],
         loader'.pc \in Busy, Served', Work'
  PROVE  SessionInv'
<1>1. host.sent /\ host.pc \in Asking /\ AllBanners(toHost) /\ loader'.pc \notin Idle
  BY DEF SessionInv, Traffic, Idle, Busy
<1>2. Shape'
  <2>1. toLoader' \in Seq(Frames) /\ Len(toLoader') <= 1 OBVIOUS
  <2> QED BY <2>1 DEF SessionInv, Shape
<1>3. image' = image /\ \A o : ChunkLen(o)' = ChunkLen(o) BY DEF image, ChunkLen
<1>4. Traffic' BY <1>1, BannersOnly DEF SessionInv, Traffic, Asking
<1> QED BY <1>1, <1>2, <1>3, <1>4 DEF SessionInv, Asked, Progress, Confirmed, Told

\* The loader answers the request it served.
LEMMA LoaderAnswers ==
  ASSUME SessionInv, UNCHANGED <<flash, host, lens, toLoader>>,
         loader.pc \in Busy, loader' = Loader("loop"),
         NEW a \in Answers, toHost' = Append(toHost, a),
         host.sent /\ a = "SUCCESS" => Told
  PROVE  SessionInv'
<1>1. /\ "loop" \in Idle /\ loader'.pc = "loop" /\ loader'.pc \notin Busy
      /\ loader'.pc # "write" /\ a \notin Banners /\ loader.pc \notin Idle
  BY LoaderAt DEF Idle, Busy, Answers, Banners
<1>2. toLoader = <<>> BY <1>1 DEF SessionInv, Traffic
<1>3. toHost \in Seq(Banners \cup Answers) BY DEF SessionInv, Shape
<1>4. /\ toHost' \in Seq(Banners \cup Answers)
      /\ AllBanners(toHost) => OneAnswer(toHost')
      /\ NoBanners(toHost) => BannersLast(toHost')
      /\ Success(toHost') => Success(toHost) \/ a = "SUCCESS"
  BY <1>3, QueueGrows
<1>5. Shape' BY <1>1, <1>4, LoaderAt DEF SessionInv, Shape
<1>6. image' = image /\ \A o : ChunkLen(o)' = ChunkLen(o) BY DEF image, ChunkLen
<1>7. Traffic' BY <1>1, <1>2, <1>4 DEF SessionInv, Traffic
<1>8. host.sent /\ Success(toHost') => Told
  <2>1. host.sent => ~Success(toHost) BY BannersOnly DEF SessionInv, Traffic
  <2> QED BY <1>4, <2>1
<1>9. Told' <=> Told BY <1>6 DEF Told
<1> QED
  BY <1>1, <1>2, <1>5, <1>6, <1>7, <1>8, <1>9
  DEF SessionInv, Asked, Served, Work, Progress, Confirmed

\* The host's chunk reaches flash behind those it has sent before.
LEMMA ChunkHeld ==
  ASSUME NEW f, NEW s \in Nat, NEW o \in Nat, NEW n \in Nat, Holds(f, s, o),
         HEADER_SIZE + o + n <= CAPACITY,
         \A k \in 1 .. n : f[HEADER_SIZE + o + k - 1] = ImageCells(s, o, n)[k]
  PROVE  Holds(f, s, o + n)
<1>1. HEADER_SIZE + (o + n) <= CAPACITY BY Geometry DEF HEADER_SIZE
<1>2. ASSUME NEW k \in 0 .. o + n - 1 PROVE f[HEADER_SIZE + k] = Datum(s, k)
  <2>1. CASE k < o BY <2>1 DEF Holds
  <2>2. CASE k >= o
    <3> DEFINE j == k - o + 1
    <3>1. j \in 1 .. n /\ HEADER_SIZE + o + j - 1 = HEADER_SIZE + k /\ o + j - 1 = k
      BY <2>2 DEF HEADER_SIZE
    <3>2. ImageCells(s, o, n)[j] = Datum(s, o + j - 1) BY <3>1, PieceOf
    <3> QED BY <3>1, <3>2
  <2> QED BY <2>1, <2>2
<1> QED BY <1>1, <1>2 DEF Holds

\* A requested erase, write or commit, or its refusal.
LEMMA RequestSteps ==
  ASSUME SessionInv, EraseRequest \/ WriteRequest \/ CommitRequest
  PROVE  SessionInv'
<1>1. /\ loader.pc = "loop" /\ toLoader # <<>> /\ toLoader' = Tail(toLoader)
      /\ UNCHANGED <<flash, host, lens>> /\ Head(toLoader).cmd \in Asking
  BY DEF EraseRequest, WriteRequest, CommitRequest, Request, Asking
<1>2. toLoader' = <<>> /\ Head(toLoader) = toLoader[1] /\ toLoader[1] \in Frames
  <2>1. toLoader \in Seq(Frames) /\ Len(toLoader) <= 1 BY DEF SessionInv, Shape
  <2> QED BY <1>1, <2>1
<1>3. host.sent /\ toLoader[1].cmd = host.pc BY <1>1 DEF SessionInv, Traffic, Asked
<1>4. image' = image /\ (\A o : ChunkLen(o)' = ChunkLen(o)) /\ lens' = lens /\ host' = host
  BY <1>1 DEF image, ChunkLen
<1>5. loader \in [pc : Idle \cup Busy, todo : SUBSET (0 .. ReservedSector - 1),
                  addr : Nat, data : Seq(Value), done : Nat]
  BY DEF SessionInv, Shape
<1>6. image.id \in Nat /\ image.id \in 1 .. Len(lens) /\ image.len = lens[image.id]
      /\ image.len \in Nat
  BY ImageIs DEF SessionInv
<1>7. PICK s \in 1 .. Len(lens) : s = image.id BY <1>6
<1>8. ASSUME NEW e \in Answers \ {"SUCCESS"}, Confirm(e), UNCHANGED loader
      PROVE  SessionInv'
  <2>1. loader'.pc \in Idle BY <1>1, <1>8 DEF Idle
  <2>2. toHost' = Append(toHost, e) BY <1>8 DEF Confirm
  <2> QED BY <1>1, <1>2, <1>5, <1>8, <2>1, <2>2, LoaderStops
<1>9. CASE EraseRequest
  <2> DEFINE to == ReservedSector * SECTOR
  <2>1. CASE CheckErase(0, to)
    <3>1. /\ loader' = [Loader("erase") EXCEPT !.todo = SectorBitfield(0, to)]
          /\ toHost' = toHost /\ Head(toLoader).cmd = "erase"
      BY <1>9, <2>1 DEF EraseRequest, Request
    <3>2. /\ loader' \in [pc : Idle \cup Busy, todo : SUBSET (0 .. ReservedSector - 1),
                          addr : Nat, data : Seq(Value), done : Nat]
          /\ loader'.pc = "erase"
      <4>1. SectorBitfield(0, to) \in SUBSET (0 .. ReservedSector - 1) BY Geometry
      <4>2. loader' = [pc |-> "erase", todo |-> SectorBitfield(0, to), addr |-> 0,
                       data |-> <<>>, done |-> 0]
        BY <3>1 DEF Loader
      <4>3. <<>> \in Seq(Value) OBVIOUS
      <4> HIDE DEF to
      <4> QED BY <4>1, <4>2, <4>3 DEF Busy
    <3>3. Served' /\ Work' /\ loader'.pc \in Busy
      BY <1>2, <1>3, <1>4, <3>1, <3>2 DEF Served, Work, Busy
    <3> QED BY <1>1, <1>2, <3>1, <3>2, <3>3, LoaderServes
  <2>2. CASE ~CheckErase(0, to)
    <3>1. Confirm("EXEC_ERROR") /\ UNCHANGED loader BY <1>9, <2>2 DEF EraseRequest
    <3> QED BY <1>8, <3>1 DEF Answers
  <2> QED BY <2>1, <2>2
<1>10. ASSUME NEW addr \in Nat, NEW data \in Seq(Value), StartWrite(addr, data),
             \/ /\ host.pc = "write" /\ addr = FlashAddr(host.offset)
                /\ data = ImageCells(image.id, host.offset, ChunkLen(host.offset))
             \/ /\ host.pc = "commit" /\ addr = 0
                /\ data = <<Signature, Length(image.len)>>
      PROVE  SessionInv'
  <2>1. CASE CheckWrite(addr, data)
    <3>1. /\ loader' = [Loader("write") EXCEPT !.addr = addr, !.data = data]
          /\ toHost' = toHost
      BY <1>10, <2>1 DEF StartWrite
    <3>2. /\ loader' \in [pc : Idle \cup Busy, todo : SUBSET (0 .. ReservedSector - 1),
                          addr : Nat, data : Seq(Value), done : Nat]
          /\ loader'.pc = "write" /\ loader'.addr = addr /\ loader'.data = data
          /\ loader'.done = 0
      BY <1>10, <3>1 DEF Loader, Busy
    <3>3. Served'
      BY <1>4, <1>10, <3>2 DEF Served, FlashAddr
    <3>4. Len(data) \in Nat /\ addr + Len(data) <= CAPACITY
      BY <2>1, <1>10 DEF CheckWrite
    <3>5. ASSUME host.pc = "write" PROVE Work'
      <4> DEFINE o == host.offset
                 n == ChunkLen(host.offset)
      <4>1. o \in Nat /\ o < image.len BY <3>5 DEF SessionInv, Shape, Progress
      <4>2. n \in Nat /\ o + n <= image.len BY <4>1, NextChunk DEF SessionInv
      <4>3. addr = HEADER_SIZE + o /\ data = ImageCells(image.id, o, n)
        BY <1>10, <3>5 DEF FlashAddr
      <4>4. Len(data) = n BY <1>6, <4>1, <4>2, <4>3, PieceOf
      <4>5. /\ addr >= HEADER_SIZE /\ addr - HEADER_SIZE = o
            /\ data = ImageCells(image.id, addr - HEADER_SIZE, Len(data))
            /\ addr - HEADER_SIZE + Len(data) <= lens[image.id]
        BY <1>6, <4>1, <4>2, <4>3, <4>4 DEF HEADER_SIZE
      <4> HIDE DEF o, n
      <4>6. ImageWrite(s)' BY <1>4, <1>7, <3>2, <4>5 DEF ImageWrite
      <4>7. loader'.done <= Len(loader'.data) /\ loader'.addr + Len(loader'.data) <= CAPACITY
        BY <3>2, <3>4
      <4>8. s \in 1 .. Len(lens') BY <1>4
      <4> QED BY <4>6, <4>7, <4>8, Zenon DEF Work
    <3>6. ASSUME host.pc = "commit" PROVE Work'
      <4>1. Holds(flash, image.id, image.len)
        BY <3>6 DEF SessionInv, Progress
      <4>2. addr = 0 /\ data = <<Signature, Length(lens[s])>>
        BY <1>6, <1>10, <1>7, <3>6
      <4>3. Holds(flash', s, lens'[s])
        BY <1>1, <1>6, <1>7, <4>1
      <4>4. loader'.addr = 0 /\ loader'.data = <<Signature, Length(lens'[s])>>
        BY <1>4, <3>2, <4>2
      <4>5. loader'.done <= Len(loader'.data) /\ loader'.addr + Len(loader'.data) <= CAPACITY
        BY <3>2, <3>4
      <4>6. s \in 1 .. Len(lens') BY <1>4
      <4>7. HeaderWrite(s)' BY <4>3, <4>4 DEF HeaderWrite
      <4> QED BY <4>5, <4>6, <4>7, Zenon DEF Work
    <3>7. Work' BY <1>10, <3>5, <3>6, Zenon
    <3> QED BY <1>1, <1>2, <3>1, <3>2, <3>3, <3>7, LoaderServes DEF Busy
  <2>2. CASE ~CheckWrite(addr, data)
    <3>1. Confirm("WRITE_ERROR") /\ UNCHANGED loader BY <1>10, <2>2 DEF StartWrite
    <3> QED BY <1>8, <3>1 DEF Answers
  <2> QED BY <2>1, <2>2
<1>11. CASE WriteRequest
  <2>1. host.pc = "write" /\ StartWrite(toLoader[1].addr, toLoader[1].data)
    BY <1>2, <1>3, <1>11 DEF WriteRequest, Request
  <2>2. toLoader[1].addr \in Nat /\ toLoader[1].data \in Seq(Value) BY <1>2 DEF Frames
  <2>3. /\ toLoader[1].addr = FlashAddr(host.offset)
        /\ toLoader[1].data = ImageCells(image.id, host.offset, ChunkLen(host.offset))
    BY <1>1, <2>1 DEF SessionInv, Asked
  <2> QED BY <1>10, <2>1, <2>2, <2>3
<1>12. CASE CommitRequest
  <2>1. host.pc = "commit" /\ StartWrite(0, <<Signature, Length(toLoader[1].addr)>>)
    BY <1>2, <1>3, <1>12 DEF CommitRequest, Request
  <2>2. toLoader[1].addr = image.len BY <1>1, <2>1 DEF SessionInv, Asked
  <2>3. Signature \in Value /\ Length(image.len) \in Value
    BY <1>6 DEF Signature, Length, Value
  <2>4. <<Signature, Length(image.len)>> \in Seq(Value) BY <2>3
  <2> QED BY <1>10, <2>1, <2>2, <2>4
<1> QED BY <1>9, <1>11, <1>12

\* The ROM erases a sector: never the reserved one, and nothing that any host
\* counts on.
LEMMA EraseSectorStep ==
  ASSUME SessionInv, EraseSector
  PROVE  SessionInv'
<1>1. /\ loader.pc = "erase" /\ UNCHANGED <<host, lens, toLoader, toHost>>
      /\ DOMAIN flash' = Cells
  BY DEF EraseSector
<1>2. PICK s \in loader.todo : loader' = [loader EXCEPT !.todo = @ \ {s}]
  BY DEF EraseSector
<1>3. /\ loader' \in [pc : Idle \cup Busy, todo : SUBSET (0 .. ReservedSector - 1),
                      addr : Nat, data : Seq(Value), done : Nat]
      /\ loader'.pc = "erase"
  BY <1>1, <1>2 DEF SessionInv, Shape
<1>4. loader.pc \in Busy /\ loader.pc \notin Idle BY <1>1 DEF Busy, Idle
<1>5. host.pc \notin {"write", "commit", "done"}
  BY <1>1, <1>4 DEF SessionInv, Traffic, Served, Asking
<1>6. image' = image BY <1>1 DEF image
<1>7. Shape' BY <1>1, <1>3 DEF SessionInv, Shape
<1>8. Traffic' BY <1>1, <1>3 DEF SessionInv, Traffic
<1>9. host.sent => ~Success(toHost) BY <1>4, BannersOnly DEF SessionInv, Traffic
<1>10. Asked' BY <1>1, <1>6, <1>5 DEF SessionInv, Asked
<1>11. Served' BY <1>1, <1>3, <1>4, <1>5 DEF SessionInv, Served
<1> QED
  BY <1>1, <1>3, <1>5, <1>7, <1>8, <1>9, <1>10, <1>11
  DEF SessionInv, Work, Progress, Confirmed

\* The length of a session's image.
LEMMA SizeOf ==
  ASSUME SessionInv, NEW s \in 1 .. Len(lens)
  PROVE  lens[s] \in Nat \ {0} /\ s \in Nat
<1>1. lens \in Seq(Lengths) BY DEF SessionInv, Shape
<1>2. Len(lens) \in Nat BY <1>1
<1>3. lens[s] \in Lengths BY <1>1
<1>4. Lengths \subseteq Nat \ {0} BY SslConstants
<1>5. lens[s] \in Nat \ {0} BY <1>3, <1>4
<1>6. s \in Nat BY <1>2
<1> QED BY <1>5, <1>6

\* Where a write stands: in some session's image, behind the header, or in the
\* header, with that session's image in flash.
WritesImage(s) ==
  /\ ImageWrite(s)
  /\ loader.addr + loader.done >= HEADER_SIZE
  /\ loader.addr + loader.done < HEADER_SIZE + lens[s]
  /\ loader.data[loader.done + 1] = Datum(s, (loader.addr + loader.done) - HEADER_SIZE)
WritesHeader(s) == HeaderWrite(s) /\ loader.addr + loader.done < HEADER_SIZE

\* The cell the loader programs next lies in the part, and belongs to a chunk
\* of the image or to its header.
LEMMA ProgramPlace ==
  ASSUME SessionInv, loader.pc = "write", loader.done < Len(loader.data)
  PROVE  /\ loader.addr + loader.done \in Cells /\ loader.done + 1 \in 1 .. Len(loader.data)
         /\ \E s \in 1 .. Len(lens) : WritesImage(s) \/ WritesHeader(s)
<1>1. /\ loader.addr \in Nat /\ loader.done \in Nat /\ loader.data \in Seq(Value)
      /\ lens \in Seq(Lengths) /\ Lengths \subseteq Nat
  BY SslConstants DEF SessionInv, Shape
<1>2. PICK s \in 1 .. Len(lens) : ImageWrite(s) \/ HeaderWrite(s)
  BY DEF SessionInv, Work
<1>3. loader.addr + Len(loader.data) <= CAPACITY /\ Len(loader.data) \in Nat
  BY <1>1 DEF SessionInv, Work
<1>4. loader.addr + loader.done \in Cells /\ loader.done + 1 \in 1 .. Len(loader.data)
  BY <1>1, <1>3, Geometry, SMTT(30) DEF Cells
<1>5. lens[s] \in Nat /\ s \in Nat BY SizeOf
<1>6. CASE ImageWrite(s)
  <2> DEFINE o == loader.addr - HEADER_SIZE
             n == Len(loader.data)
  <2>1. o \in Nat /\ n \in Nat /\ o + n <= lens[s] /\ loader.data = ImageCells(s, o, n)
    BY <1>1, <1>3, <1>6 DEF ImageWrite, HEADER_SIZE
  <2>2. ImageCells(s, o, n)[loader.done + 1] = Datum(s, o + (loader.done + 1) - 1)
    BY <1>4, <1>5, <2>1, PieceOf, ZenonT(40)
  <2>3. o + (loader.done + 1) - 1 = (loader.addr + loader.done) - HEADER_SIZE
    BY <1>1 DEF HEADER_SIZE
  <2>4. /\ loader.addr + loader.done >= HEADER_SIZE
        /\ loader.addr + loader.done < HEADER_SIZE + lens[s]
    BY <1>1, <1>3, <1>5, <1>6, <2>1, SMTT(30) DEF ImageWrite, HEADER_SIZE
  <2>5. loader.data[loader.done + 1] = Datum(s, (loader.addr + loader.done) - HEADER_SIZE)
    BY <2>1, <2>2, <2>3
  <2>6. WritesImage(s) BY <1>6, <2>4, <2>5 DEF WritesImage
  <2> QED BY <1>4, <2>6
<1>7. CASE HeaderWrite(s)
  <2>1. loader.addr = 0 /\ Len(loader.data) = 2 BY <1>7 DEF HeaderWrite
  <2>2. loader.addr + loader.done < HEADER_SIZE BY <1>1, <2>1 DEF HEADER_SIZE
  <2>3. WritesHeader(s) BY <1>7, <2>2 DEF WritesHeader
  <2> QED BY <1>4, <2>3
<1> QED BY <1>2, <1>6, <1>7

\* The ROM programs a cell: not one that its host counts on already.
LEMMA ProgramCellStep ==
  ASSUME SessionInv, ProgramCell
  PROVE  SessionInv'
<1> DEFINE c == loader.addr + loader.done
<1>1. /\ loader.pc = "write" /\ loader.done < Len(loader.data)
      /\ UNCHANGED <<host, lens, toLoader, toHost>>
      /\ loader' = [loader EXCEPT !.done = @ + 1]
      /\ flash' = [flash EXCEPT ![c] = Program(@, loader.data[loader.done + 1])]
  BY DEF ProgramCell
<1>2. c \in Cells /\ loader.done + 1 \in 1 .. Len(loader.data) BY <1>1, ProgramPlace
<1>3. loader \in [pc : Idle \cup Busy, todo : SUBSET (0 .. ReservedSector - 1),
                  addr : Nat, data : Seq(Value), done : Nat]
  BY DEF SessionInv, Shape
<1>4. /\ loader' \in [pc : Idle \cup Busy, todo : SUBSET (0 .. ReservedSector - 1),
                      addr : Nat, data : Seq(Value), done : Nat]
      /\ loader'.pc = "write" /\ loader'.addr = loader.addr /\ loader'.data = loader.data
      /\ loader'.done = loader.done + 1
  BY <1>1, <1>3
<1>5. DOMAIN flash' = Cells /\ \A d \in Cells : d # c => flash'[d] = flash[d]
  BY <1>1 DEF SessionInv, Shape
<1>6. c \in Int /\ loader.addr \in Nat /\ loader.done \in Nat /\ c >= loader.addr BY <1>3
<1> HIDE DEF c
<1>7. image' = image /\ \A o : ChunkLen(o)' = ChunkLen(o) BY <1>1 DEF image, ChunkLen
<1>8. Shape' BY <1>1, <1>4, <1>5 DEF SessionInv, Shape
<1>9. Traffic' BY <1>1, <1>4 DEF SessionInv, Traffic
<1>10. loader.pc \in Busy /\ loader.pc \notin Idle BY <1>1 DEF Busy, Idle
<1>11. host.sent => ~Success(toHost) BY <1>10, BannersOnly DEF SessionInv, Traffic
<1>12. Asked' BY <1>1, <1>7 DEF SessionInv, Asked, FlashAddr
<1>13. Served' BY <1>1, <1>4, <1>7, <1>10 DEF SessionInv, Served, FlashAddr
<1>14. Work'
  <2>1. loader'.done <= Len(loader'.data) /\ loader'.addr + Len(loader'.data) <= CAPACITY
    BY <1>2, <1>4, <1>1 DEF SessionInv, Work
  <2>2. PICK s \in 1 .. Len(lens) : WritesImage(s) \/ WritesHeader(s)
    BY <1>1, ProgramPlace
  <2>3. CASE WritesImage(s)
    <3>1. ImageWrite(s)' BY <1>1, <1>4, <2>3 DEF ImageWrite, WritesImage
    <3> QED BY <1>1, <2>1, <3>1, Zenon DEF Work
  <2>4. CASE WritesHeader(s)
    <3>1. \A d \in Cells : HEADER_SIZE <= d => flash'[d] = flash[d]
      BY <1>5, <2>4 DEF c, Cells, HEADER_SIZE, WritesHeader
    <3>2. lens[s] \in Nat BY SizeOf
    <3>3. Holds(flash', s, lens[s]) BY <2>4, <3>1, <3>2, HoldsKept DEF HeaderWrite, WritesHeader
    <3>4. HeaderWrite(s)' BY <1>1, <1>4, <2>4, <3>3 DEF HeaderWrite, WritesHeader
    <3> QED BY <1>1, <2>1, <3>4, Zenon DEF Work
  <2> QED BY <2>2, <2>3, <2>4
<1>15. Progress'
  <2>1. host.pc # "done" BY <1>10 DEF SessionInv, Traffic, Asking
  <2>2. host.offset \in Nat BY DEF SessionInv, Shape
  <2>3. CASE host.pc \in {"write", "commit"}
    <3>1. host.sent BY <1>10, <2>3 DEF SessionInv, Traffic, Asking
    <3>2. c < HEADER_SIZE \/ c >= HEADER_SIZE + host.offset
      <4>1. CASE host.pc = "write"
        <5>1. loader.addr = HEADER_SIZE + host.offset
          BY <1>1, <1>10, <3>1, <4>1 DEF SessionInv, Served, FlashAddr
        <5> QED BY <1>6, <2>2, <5>1 DEF HEADER_SIZE
      <4>2. CASE host.pc = "commit"
        <5>1. loader.addr = 0 /\ Len(loader.data) = 2
          BY <1>1, <1>10, <3>1, <4>2 DEF SessionInv, Served
        <5> QED BY <1>1, <1>6, <5>1 DEF c, HEADER_SIZE
      <4> QED BY <2>3, <4>1, <4>2
    <3>3. \A d \in Cells :
            HEADER_SIZE <= d /\ d < HEADER_SIZE + host.offset => flash'[d] = flash[d]
      BY <1>5, <1>6, <2>2, <3>2 DEF HEADER_SIZE, Cells
    <3>4. Holds(flash, image.id, host.offset) BY <2>3 DEF SessionInv, Progress
    <3>5. Holds(flash', image.id, host.offset) BY <2>2, <3>3, <3>4, HoldsKept
    <3> QED BY <1>1, <1>7, <2>3, <3>5 DEF SessionInv, Progress
  <2>4. CASE host.pc \notin {"write", "commit"}
    BY <1>1, <2>1, <2>4 DEF Progress
  <2> QED BY <2>3, <2>4
<1> QED
  BY <1>1, <1>8, <1>9, <1>11, <1>12, <1>13, <1>14, <1>15 DEF SessionInv, Confirmed

\* The ROM routine ends; a write is confirmed when it reads back as it was
\* meant.
LEMMA RomDoneSteps ==
  ASSUME SessionInv, EraseDone \/ WriteDone
  PROVE  SessionInv'
<1>1. loader.pc \in Busy /\ loader' = Loader("loop") /\ UNCHANGED <<flash, host, lens, toLoader>>
  BY DEF EraseDone, WriteDone, Busy
<1>2. CASE EraseDone
  <2>1. PICK a \in Answers : toHost' = Append(toHost, a)
    BY <1>2 DEF EraseDone, Confirm, Answers
  <2>2. host.sent => Told
    BY <1>2, <1>1 DEF EraseDone, SessionInv, Served, Told
  <2> QED BY <1>1, <2>1, <2>2, LoaderAnswers
<1>3. CASE WriteDone
  <2> DEFINE ok == Verifies(loader.addr, loader.data)
  <2>1. PICK a \in Answers : toHost' = Append(toHost, a) /\ (a = "SUCCESS" => ok)
    BY <1>3 DEF WriteDone, Confirm, Answers
  <2>2. ASSUME host.sent, ok PROVE Told
    <3>1. CASE host.pc = "write"
      <4> DEFINE o == host.offset
                 n == ChunkLen(host.offset)
      <4>1. o \in Nat /\ o < image.len /\ Holds(flash, image.id, o)
        BY <3>1 DEF SessionInv, Shape, Progress
      <4>2. n \in Nat /\ image.id \in Nat BY <4>1, NextChunk, ImageIs DEF SessionInv
      <4>3. loader.addr = HEADER_SIZE + o /\ loader.data = ImageCells(image.id, o, n)
            /\ loader.pc = "write"
        BY <1>1, <2>2, <3>1 DEF SessionInv, Served, FlashAddr
      <4> HIDE DEF o, n
      <4>8. Len(ImageCells(image.id, o, n)) = n BY <4>1, <4>2, PieceOf
      <4>4. Len(loader.data) = n BY <4>3, <4>8
      <4>5. HEADER_SIZE + o + n <= CAPACITY BY <4>3, <4>4 DEF SessionInv, Work
      <4>6. \A k \in 1 .. n : flash[HEADER_SIZE + o + k - 1] = ImageCells(image.id, o, n)[k]
        BY <2>2, <4>3, <4>4 DEF Verifies
      <4>7. Holds(flash, image.id, o + n) BY <4>1, <4>2, <4>5, <4>6, ChunkHeld
      <4> QED BY <3>1, <4>7 DEF Told, o, n
    <3>2. CASE host.pc = "commit"
      <4>1. loader.addr = 0 /\ loader.data = <<Signature, Length(image.len)>>
        BY <1>1, <2>2, <3>2 DEF SessionInv, Served
      <4>2. \A k \in 1 .. 2 : flash[0 + k - 1] = <<Signature, Length(image.len)>>[k]
        BY <2>2, <4>1 DEF Verifies
      <4>3. flash[0 + 1 - 1] = Signature /\ flash[0 + 2 - 1] = Length(image.len)
        BY <4>2
      <4>4. 0 + 1 - 1 = 0 /\ 0 + 2 - 1 = 1 OBVIOUS
      <4>5. flash[0] = Signature /\ flash[1] = Length(image.len) BY <4>3, <4>4
      <4> QED BY <3>2, <4>5 DEF Told
    <3> QED BY <3>1, <3>2 DEF Told
  <2> HIDE DEF ok
  <2> QED BY <1>1, <2>1, <2>2, LoaderAnswers
<1> QED BY <1>2, <1>3

\* The loader's start-up, what cuts it off, and the frames it can not read.
LEMMA LoaderStopSteps ==
  ASSUME SessionInv, BootBanner \/ EnterCommandLoop \/ Reboot \/ PowerLoss \/ ReadDamagedFrame
  PROVE  SessionInv'
<1>1. {"probe", "loop", "off", "boot", "reading"} \subseteq Idle BY DEF Idle
<1>2. {"NVM_READY", "READY"} \subseteq Banners BY DEF Banners
<1>3. CASE BootBanner \/ EnterCommandLoop
  <2>1. /\ UNCHANGED <<flash, host, lens, toLoader>>
        /\ \E p \in Idle : loader' = Loader(p)
        /\ \E b \in Banners : toHost' = Append(toHost, b)
    BY <1>1, <1>2, <1>3 DEF BootBanner, EnterCommandLoop, Confirm
  <2> QED BY <2>1, LoaderAt, LoaderStops
<1>4. CASE Reboot \/ PowerLoss
  <2>1. /\ UNCHANGED <<flash, host, lens, toHost>>
        /\ \E p \in Idle : loader' = Loader(p)
        /\ toLoader' = <<>> \/ toLoader' = toLoader
    BY <1>1, <1>4 DEF Reboot, PowerLoss
  <2> QED BY <2>1, LoaderAt, LoaderStops
<1>5. CASE ReadDamagedFrame
  <2>1. /\ loader.pc = "loop" /\ toLoader # <<>> /\ toLoader' = Tail(toLoader)
        /\ UNCHANGED <<flash, host, lens>> /\ Head(toLoader).damage # "none"
    BY <1>5 DEF ReadDamagedFrame
  <2>2. toLoader' = <<>> /\ Head(toLoader) \in Frames
    <3>1. toLoader \in Seq(Frames) /\ Len(toLoader) <= 1 BY DEF SessionInv, Shape
    <3> QED BY <2>1, <3>1
  <2>3. Head(toLoader).damage \in {"flipped", "oversize", "short"}
    BY <2>1, <2>2 DEF Frames
  <2>4. /\ loader' = loader \/ loader' = Loader("reading")
        /\ toHost' = toHost \/ toHost' = Append(toHost, "CRC_ERROR")
    BY <1>5, <2>3, Zenon DEF ReadDamagedFrame, Confirm
  <2>5. /\ loader' \in [pc : Idle \cup Busy, todo : SUBSET (0 .. ReservedSector - 1),
                        addr : Nat, data : Seq(Value), done : Nat]
        /\ loader'.pc \in Idle
    BY <1>1, <2>1, <2>4, LoaderAt DEF SessionInv, Shape
  <2>6. "CRC_ERROR" \in Answers \ {"SUCCESS"} BY DEF Answers
  <2> QED BY <2>1, <2>2, <2>4, <2>5, <2>6, LoaderStops
<1> QED BY <1>3, <1>4, <1>5

\* The script finds a banner: nothing older can reach it any more.
LEMMA WaitForReadyStep ==
  ASSUME SessionInv, WaitForReady
  PROVE  SessionInv'
<1>1. /\ host.pc = "ready" /\ toHost # <<>> /\ toHost' = Tail(toHost)
      /\ UNCHANGED <<flash, loader, lens, toLoader>>
      /\ \/ host' = host
         \/ host' = Host("erase", 0) /\ Head(toHost) \in Banners
  BY DEF WaitForReady, Banners
<1>2. ~host.sent /\ toLoader = <<>> BY <1>1 DEF SessionInv, Traffic, Asking
<1>3. toHost \in Seq(Banners \cup Answers) BY DEF SessionInv, Shape
<1>4. /\ toHost' \in Seq(Banners \cup Answers)
      /\ BannersLast(toHost) => BannersLast(toHost')
      /\ NoBanners(toHost) => NoBanners(toHost') /\ Head(toHost) \notin Banners
      /\ BannersLast(toHost) /\ Head(toHost) \in Banners => AllBanners(toHost')
  BY <1>1, <1>3, QueueShrinks
<1>5. image' = image BY <1>1 DEF image
<1>6. CASE host' = host
  <2>1. Shape' BY <1>1, <1>4, <1>6 DEF SessionInv, Shape
  <2>2. Traffic' BY <1>1, <1>2, <1>4, <1>6 DEF SessionInv, Traffic, Asking
  <2>3. Work' BY <1>1, Zenon DEF SessionInv, Work, ImageWrite, HeaderWrite, Holds
  <2> QED
    BY <1>1, <1>2, <1>6, <2>1, <2>2, <2>3
    DEF SessionInv, Asked, Served, Progress, Confirmed
<1>7. CASE host' = Host("erase", 0) /\ Head(toHost) \in Banners
  <2>1. host'.pc = "erase" /\ host'.sent = FALSE /\ host'.offset = 0
    BY <1>7 DEF Host
  <2>2. host' \in [pc : Asking \cup {"ready", "failed", "done"}, offset : Nat, sent : BOOLEAN]
    BY <1>7 DEF Host, Asking
  <2>3. Shape' BY <1>1, <1>4, <2>2 DEF SessionInv, Shape
  <2>4. loader.pc \in Idle /\ AllBanners(toHost')
    BY <1>1, <1>4, <1>7 DEF SessionInv, Shape, Traffic
  <2>5. Traffic' BY <1>1, <1>2, <2>1, <2>4 DEF Traffic
  <2>6. Work' BY <1>1, Zenon DEF SessionInv, Work, ImageWrite, HeaderWrite, Holds
  <2> QED
    BY <1>1, <1>2, <2>1, <2>3, <2>5, <2>6
    DEF SessionInv, Asked, Served, Progress, Confirmed
<1> QED BY <1>1, <1>6, <1>7

\* The host sends its next request.
LEMMA SendSteps ==
  ASSUME SessionInv, SendErase \/ SendWrite \/ SendCommit
  PROVE  SessionInv'
<1>1. /\ host.pc \in Asking /\ ~host.sent
      /\ host' = [host EXCEPT !.sent = TRUE]
      /\ UNCHANGED <<flash, loader, lens, toHost>>
  BY DEF SendErase, SendWrite, SendCommit, Send, Asking
<1>2. toLoader = <<>> /\ loader.pc \in Idle /\ AllBanners(toHost)
  BY <1>1 DEF SessionInv, Traffic
<1>3. host \in [pc : Asking \cup {"ready", "failed", "done"}, offset : Nat, sent : BOOLEAN]
  BY DEF SessionInv, Shape
<1>4. /\ host' \in [pc : Asking \cup {"ready", "failed", "done"}, offset : Nat, sent : BOOLEAN]
      /\ host'.pc = host.pc /\ host'.offset = host.offset /\ host'.sent = TRUE
  BY <1>1, <1>3
<1>5. image' = image /\ \A o : ChunkLen(o)' = ChunkLen(o) BY <1>1 DEF image, ChunkLen
<1>6. image.id \in Nat /\ image.len \in Nat BY ImageIs DEF SessionInv
<1>7. \/ toLoader' = toLoader
      \/ \E addr \in Nat, data \in Seq(Value) :
           /\ toLoader' = <<[cmd |-> host.pc, addr |-> addr, data |-> data,
                             damage |-> "none"]>>
           /\ host.pc = "write" =>
                /\ addr = FlashAddr(host.offset)
                /\ data = ImageCells(image.id, host.offset, ChunkLen(host.offset))
           /\ host.pc = "commit" => addr = image.len
  <2>1. CASE loader.pc = "off"
    BY <2>1 DEF SendErase, SendWrite, SendCommit, Send
  <2>2. CASE loader.pc # "off"
    <3>1. <<>> \in Seq(Value) OBVIOUS
    <3>2. CASE SendErase
      <4>1. toLoader' = <<[cmd |-> "erase", addr |-> 0, data |-> <<>>, damage |-> "none"]>>
        BY <1>2, <2>2, <3>2 DEF SendErase, Send
      <4>2. host.pc = "erase" BY <3>2 DEF SendErase
      <4> QED BY <3>1, <4>1, <4>2
    <3>3. CASE SendWrite
      <4> DEFINE a == FlashAddr(host.offset)
                 d == ImageCells(image.id, host.offset, ChunkLen(host.offset))
      <4>1. host.pc = "write" BY <3>3 DEF SendWrite
      <4>2. host.offset \in Nat /\ host.offset < image.len
        BY <1>3, <4>1 DEF SessionInv, Progress
      <4>3. ChunkLen(host.offset) \in Nat BY <4>2, NextChunk DEF SessionInv
      <4>4. a \in Nat /\ d \in Seq(Value)
        <5>1. a \in Nat BY <4>2 DEF FlashAddr, HEADER_SIZE
        <5>2. d \in Seq(Value) BY <1>6, <4>2, <4>3, PieceOf
        <5> QED BY <5>1, <5>2
      <4>5. toLoader' = <<[cmd |-> "write", addr |-> a, data |-> d, damage |-> "none"]>>
        BY <1>2, <2>2, <3>3 DEF SendWrite, Send
      <4> QED BY <4>1, <4>4, <4>5
    <3>4. CASE SendCommit
      <4>1. toLoader' = <<[cmd |-> "commit", addr |-> image.len, data |-> <<>>,
                           damage |-> "none"]>>
        BY <1>2, <2>2, <3>4 DEF SendCommit, Send
      <4>2. host.pc = "commit" BY <3>4 DEF SendCommit
      <4> QED BY <1>6, <3>1, <4>1, <4>2
    <3> QED BY <3>2, <3>3, <3>4
  <2> QED BY <2>1, <2>2
<1>8. toLoader' \in Seq(Frames) /\ Len(toLoader') <= 1
  <2>1. CASE toLoader' = toLoader BY <2>1 DEF SessionInv, Shape
  <2>2. CASE toLoader' # toLoader
    <3>1. PICK r \in Frames : toLoader' = <<r>> BY <1>1, <1>7, <2>2 DEF Frames
    <3> QED BY <3>1
  <2> QED BY <2>1, <2>2
<1>9. Shape' BY <1>1, <1>4, <1>8 DEF SessionInv, Shape
<1>10. Traffic'
  BY <1>1, <1>2, <1>4, BannersOnly DEF SessionInv, Traffic, Busy, Idle, Asking
<1>11. Asked'
  <2>1. CASE toLoader' = toLoader BY <1>2, <2>1 DEF Asked
  <2>2. CASE toLoader' # toLoader BY <1>4, <1>5, <1>7, <2>2 DEF Asked, FlashAddr
  <2> QED BY <2>1, <2>2
<1>12. Served' BY <1>1, <1>2 DEF Served, Idle, Busy
<1>13. Work' BY <1>1, <1>2 DEF Work, Idle
<1>14. Progress' BY <1>1, <1>4, <1>5 DEF SessionInv, Progress, Holds
<1>15. Confirmed' BY <1>1, <1>2, BannersOnly DEF Confirmed
<1> QED BY <1>9, <1>10, <1>11, <1>12, <1>13, <1>14, <1>15 DEF SessionInv

\* The host takes an answer, and goes on only with what it has been told.
LEMMA ExpectConfirmStep ==
  ASSUME SessionInv, ExpectConfirm
  PROVE  SessionInv'
<1>1. /\ host.sent /\ toHost # <<>> /\ toHost' = Tail(toHost)
      /\ UNCHANGED <<flash, loader, lens, toLoader>>
  BY DEF ExpectConfirm
<1>2. host.pc \in Asking BY <1>1 DEF SessionInv, Traffic
<1>3. toHost \in Seq(Banners \cup Answers) BY DEF SessionInv, Shape
<1>4. /\ toHost' \in Seq(Banners \cup Answers)
      /\ AllBanners(toHost) => AllBanners(toHost') /\ Head(toHost) \in Banners
      /\ OneAnswer(toHost) => OneAnswer(toHost')
      /\ Success(toHost') => Success(toHost)
      /\ Head(toHost) = "SUCCESS" => Success(toHost)
      /\ OneAnswer(toHost) /\ Head(toHost) \notin Banners => AllBanners(toHost')
  BY <1>1, <1>3, QueueShrinks
<1>5. image' = image /\ \A o : ChunkLen(o)' = ChunkLen(o) BY <1>1 DEF image, ChunkLen
<1>6. Work' BY <1>1, Zenon DEF SessionInv, Work, ImageWrite, HeaderWrite, Holds
<1>7. host.offset \in Nat BY DEF SessionInv, Shape
<1>8. CASE Head(toHost) \in Banners
  <2>1. host' = host
    BY <1>8, Zenon DEF ExpectConfirm, Banners
  <2>2. Shape' BY <1>1, <1>4, <2>1 DEF SessionInv, Shape
  <2>3. Traffic' BY <1>1, <1>2, <1>4, <2>1 DEF SessionInv, Traffic, Asking
  <2>4. Told' <=> Told BY <1>1, <1>5, <2>1 DEF Told, Holds
  <2> QED
    BY <1>1, <1>4, <1>5, <1>6, <2>1, <2>2, <2>3, <2>4
    DEF SessionInv, Asked, Served, Progress, Confirmed, FlashAddr, Holds
<1>9. ASSUME Head(toHost) \notin Banners
      PROVE  /\ toLoader = <<>> /\ loader.pc \in Idle /\ loader.pc \notin Busy
             /\ AllBanners(toHost')
  <2>1. ~AllBanners(toHost) BY <1>4, <1>9
  <2>2. loader.pc \notin Busy /\ toLoader = <<>> BY <1>1, <2>1 DEF SessionInv, Traffic
  <2>3. AllBanners(toHost') BY <1>1, <1>4, <1>9 DEF SessionInv, Traffic
  <2> QED BY <2>2, <2>3 DEF SessionInv, Shape
<1>10. ASSUME Head(toHost) \notin Banners,
              NEW p \in Asking \cup {"failed", "done"}, NEW o \in Nat, host' = Host(p, o),
              Progress'
       PROVE  SessionInv'
  <2>1. host'.pc = p /\ host'.sent = FALSE /\ p # "ready" BY <1>10 DEF Host, Asking
  <2>2. host' \in [pc : Asking \cup {"ready", "failed", "done"}, offset : Nat, sent : BOOLEAN]
    BY <1>10 DEF Host
  <2>3. Shape' BY <1>1, <1>4, <2>2 DEF SessionInv, Shape
  <2>4. Traffic' BY <1>1, <1>9, <1>10, <2>1 DEF Traffic
  <2> QED
    BY <1>1, <1>6, <1>9, <1>10, <2>1, <2>3, <2>4
    DEF SessionInv, Asked, Served, Confirmed
<1>11. CASE Head(toHost) = "SUCCESS"
  <2>1. Head(toHost) \notin Banners /\ Told
    BY <1>1, <1>4, <1>11 DEF SessionInv, Confirmed, Banners
  <2>2. host' = Advanced
    BY <1>11, Zenon DEF ExpectConfirm
  <2>3. image.len \in Nat \ {0} BY ImageIs DEF SessionInv
  <2>4. CASE host.pc = "erase"
    <3>1. host' = Host("write", 0) BY <2>2, <2>4, Zenon DEF Advanced
    <3>2. Holds(flash, image.id, 0) BY Geometry DEF Holds, HEADER_SIZE
    <3>3. Progress' BY <1>1, <1>5, <2>3, <3>1, <3>2 DEF Progress, Host, Holds
    <3> QED BY <1>10, <2>1, <3>1, <3>3 DEF Asking
  <2>5. CASE host.pc = "write"
    <3> DEFINE next == host.offset + ChunkLen(host.offset)
    <3>1. host' = Host(IF next < image.len THEN "write" ELSE "commit", next)
      BY <2>2, <2>5, Zenon DEF Advanced
    <3>2. next \in Nat /\ next <= image.len
      <4>1. host.offset < image.len BY <2>5 DEF SessionInv, Progress
      <4> QED BY <1>7, <4>1, NextChunk DEF SessionInv
    <3>3. Holds(flash, image.id, next) BY <2>1, <2>5 DEF Told
    <3> HIDE DEF next
    <3>4. CASE next < image.len
      <4>1. host' = Host("write", next) BY <3>1, <3>4
      <4>2. Progress' BY <1>1, <1>5, <3>3, <3>4, <4>1 DEF Progress, Host, Holds
      <4> QED BY <1>10, <2>1, <3>2, <4>1, <4>2 DEF Asking
    <3>5. CASE ~(next < image.len)
      <4>1. host' = Host("commit", next) /\ next = image.len BY <2>3, <3>1, <3>2, <3>5
      <4>2. Progress' BY <1>1, <1>5, <3>3, <4>1 DEF Progress, Host, Holds
      <4> QED BY <1>10, <2>1, <3>2, <4>1, <4>2 DEF Asking
    <3> QED BY <3>4, <3>5
  <2>6. CASE host.pc = "commit"
    <3>1. host' = Host("done", host.offset) BY <2>2, <2>6, Zenon DEF Advanced
    <3>2. /\ flash[0] = Signature /\ flash[1] = Length(image.len)
          /\ Holds(flash, image.id, host.offset) /\ host.offset = image.len
      BY <2>1, <2>6 DEF Told, SessionInv, Progress
    <3>3. Progress' BY <1>1, <1>5, <3>1, <3>2 DEF Progress, Host, Holds
    <3> QED BY <1>7, <1>10, <2>1, <3>1, <3>3
  <2> QED BY <1>2, <2>4, <2>5, <2>6 DEF Asking
<1>12. CASE Head(toHost) \notin Banners \cup {"SUCCESS"}
  <2>1. host' = Host("failed", host.offset)
    BY <1>12, Zenon DEF ExpectConfirm, Banners
  <2>2. Progress' BY <2>1 DEF Progress, Host
  <2> QED BY <1>7, <1>10, <1>12, <2>1, <2>2
<1> QED BY <1>8, <1>11, <1>12

\* The script gives up, or is run again.
LEMMA GiveUpSteps ==
  ASSUME SessionInv, Timeout \/ NewSession
  PROVE  SessionInv'
<1>1. CASE Timeout
  <2>1. /\ UNCHANGED <<flash, loader, lens, toLoader, toHost>> /\ toLoader = <<>>
        /\ host' = Host("failed", host.offset)
    BY <1>1 DEF Timeout, Quiet
  <2>2. /\ host' \in [pc : Asking \cup {"ready", "failed", "done"}, offset : Nat, sent : BOOLEAN]
        /\ host'.pc = "failed" /\ host'.sent = FALSE
    BY <2>1 DEF SessionInv, Shape, Host
  <2>3. Shape' BY <2>1, <2>2 DEF SessionInv, Shape
  <2>4. Traffic' BY <2>1, <2>2 DEF Traffic, Asking
  <2>5. Work' BY <2>1, Zenon DEF SessionInv, Work, ImageWrite, HeaderWrite, Holds
  <2> QED BY <2>1, <2>2, <2>3, <2>4, <2>5 DEF SessionInv, Asked, Served, Progress, Confirmed
<1>2. CASE NewSession
  <2>1. PICK l \in Lengths : lens' = Append(lens, l) BY <1>2 DEF NewSession
  <2>2. /\ host.pc \in {"done", "failed"} /\ Len(lens) < MaxSession /\ flash' = flash
        /\ host' = Host("ready", 0) /\ toHost' = <<>>
        /\ \/ loader' = Loader("boot") /\ toLoader' = <<>>
           \/ loader' = loader /\ toLoader' = toLoader
    BY <1>2 DEF NewSession
  <2>3. ~host.sent /\ toLoader = <<>> BY <2>2 DEF SessionInv, Traffic, Asking
  <2>4. toLoader' = <<>> BY <2>2, <2>3
  <2>5. /\ lens' \in Seq(Lengths) /\ Len(lens') = Len(lens) + 1
        /\ \A s \in 1 .. Len(lens) : s \in 1 .. Len(lens') /\ lens'[s] = lens[s]
        /\ Len(lens') \in 1 .. MaxSession
    BY <2>1, <2>2, SslConstants DEF SessionInv, Shape
  <2>6. loader' \in [pc : Idle \cup Busy, todo : SUBSET (0 .. ReservedSector - 1),
                     addr : Nat, data : Seq(Value), done : Nat]
    BY <2>2, LoaderAt DEF SessionInv, Shape, Idle
  <2>7. /\ host' \in [pc : Asking \cup {"ready", "failed", "done"}, offset : Nat, sent : BOOLEAN]
        /\ host'.pc = "ready" /\ host'.sent = FALSE
    BY <2>2 DEF Host
  <2>8. Shape' BY <2>2, <2>4, <2>5, <2>6, <2>7 DEF SessionInv, Shape
  <2>9. Traffic'
    BY <2>2, <2>4, <2>7 DEF Traffic, Asking, BannersLast, NoBanners
  <2>10. Work'
    <3> SUFFICES ASSUME loader'.pc = "write" PROVE Work'
      BY DEF Work
    <3>1. loader' = loader BY <2>2 DEF Loader
    <3>2. PICK s \in 1 .. Len(lens) : ImageWrite(s) \/ HeaderWrite(s)
      BY <3>1 DEF SessionInv, Work
    <3>3. s \in 1 .. Len(lens') /\ lens'[s] = lens[s] BY <2>5
    <3>4. ImageWrite(s)' \/ HeaderWrite(s)'
      BY <2>2, <3>1, <3>2, <3>3 DEF ImageWrite, HeaderWrite, Holds
    <3>5. loader'.done <= Len(loader'.data) /\ loader'.addr + Len(loader'.data) <= CAPACITY
      BY <3>1 DEF SessionInv, Work
    <3> QED BY <3>3, <3>4, <3>5, Zenon DEF Work
  <2> QED
    BY <2>4, <2>7, <2>8, <2>9, <2>10 DEF SessionInv, Asked, Served, Progress, Confirmed
<1> QED BY <1>1, <1>2

\* A wire that carries one frame.
LEMMA OneFrame ==
  ASSUME NEW S, NEW q \in Seq(S), Len(q) <= 1, q # <<>>
  PROVE  Len(q) = 1 /\ q[1] \in S
<1>1. Len(q) \in Nat \ {0} BY EmptySeq
<1> QED BY <1>1

\* A request is damaged or lost, or an answer.
LEMMA WireSteps ==
  ASSUME SessionInv, DamageRequest \/ LoseAnswer
  PROVE  SessionInv'
<1>1. CASE DamageRequest
  <2>1. /\ UNCHANGED <<flash, loader, host, lens, toHost>> /\ toLoader # <<>>
        /\ \/ \E d \in {"flipped", "oversize", "short"} :
                toLoader' = [toLoader EXCEPT ![1].damage = d]
           \/ toLoader' = Tail(toLoader)
    BY <1>1 DEF DamageRequest
  <2>2. toLoader \in Seq(Frames) /\ Len(toLoader) = 1 /\ toLoader[1] \in Frames
    <3>1. toLoader \in Seq(Frames) /\ Len(toLoader) <= 1 BY DEF SessionInv, Shape
    <3> QED BY <2>1, <3>1, OneFrame
  <2>3. \/ toLoader' = <<>>
        \/ /\ toLoader' \in Seq(Frames) /\ Len(toLoader') = 1
           /\ toLoader'[1].cmd = toLoader[1].cmd /\ toLoader'[1].addr = toLoader[1].addr
           /\ toLoader'[1].data = toLoader[1].data
    <3>1. CASE toLoader' = Tail(toLoader) BY <2>2, <3>1
    <3>2. CASE \E d \in {"flipped", "oversize", "short"} :
                toLoader' = [toLoader EXCEPT ![1].damage = d]
      <4>1. PICK d \in {"flipped", "oversize", "short"} :
              toLoader' = [toLoader EXCEPT ![1].damage = d]
        BY <3>2
      <4>2. [toLoader[1] EXCEPT !.damage = d] \in Frames BY <2>2 DEF Frames
      <4>3. toLoader' = [toLoader EXCEPT ![1] = [toLoader[1] EXCEPT !.damage = d]]
        BY <4>1
      <4>4. toLoader' \in Seq(Frames) /\ Len(toLoader') = 1
            /\ toLoader'[1] = [toLoader[1] EXCEPT !.damage = d]
        BY <2>2, <4>2, <4>3
      <4>5. /\ toLoader'[1].cmd = toLoader[1].cmd /\ toLoader'[1].addr = toLoader[1].addr
            /\ toLoader'[1].data = toLoader[1].data
        BY <2>2, <4>4 DEF Frames
      <4> QED BY <4>4, <4>5
    <3> QED BY <2>1, <3>1, <3>2
  <2>4. <<>> \in Seq(Frames) /\ Len(<<>>) = 0 OBVIOUS
  <2>5. image' = image /\ \A o : ChunkLen(o)' = ChunkLen(o) BY <2>1 DEF image, ChunkLen
  <2>6. Shape'
    <3>1. toLoader' \in Seq(Frames) /\ Len(toLoader') <= 1
      <4>1. CASE toLoader' = <<>> BY <2>4, <4>1
      <4>2. CASE toLoader' # <<>>
        <5>1. toLoader' \in Seq(Frames) /\ Len(toLoader') = 1 BY <2>3, <4>2, Zenon
        <5> QED BY <5>1
      <4> QED BY <4>1, <4>2
    <3> QED BY <2>1, <3>1 DEF SessionInv, Shape
  <2>7. Traffic' BY <2>1, Zenon DEF SessionInv, Traffic
  <2>8. Asked' BY <2>1, <2>3, <2>5 DEF SessionInv, Asked, FlashAddr
  <2>9. Work' BY <2>1, Zenon DEF SessionInv, Work, ImageWrite, HeaderWrite, Holds
  <2>10. Served' /\ Progress' /\ Confirmed'
    BY <2>1, <2>5 DEF SessionInv, Served, Progress, Confirmed, Told, FlashAddr, Holds
  <2> QED BY <2>6, <2>7, <2>8, <2>9, <2>10 DEF SessionInv
<1>2. CASE LoseAnswer
  <2>1. /\ UNCHANGED <<flash, loader, host, lens, toLoader>>
        /\ toHost # <<>> /\ toHost' = Tail(toHost)
    BY <1>2 DEF LoseAnswer
  <2>2. toHost \in Seq(Banners \cup Answers) BY DEF SessionInv, Shape
  <2>3. /\ toHost' \in Seq(Banners \cup Answers)
        /\ AllBanners(toHost) => AllBanners(toHost')
        /\ BannersLast(toHost) => BannersLast(toHost')
        /\ OneAnswer(toHost) => OneAnswer(toHost')
        /\ NoBanners(toHost) => NoBanners(toHost')
        /\ Success(toHost') => Success(toHost)
    BY <2>1, <2>2, QueueShrinks
  <2>4. image' = image /\ \A o : ChunkLen(o)' = ChunkLen(o) BY <2>1 DEF image, ChunkLen
  <2>5. Shape' BY <2>1, <2>3 DEF SessionInv, Shape
  <2>6. Traffic' BY <2>1, <2>3 DEF SessionInv, Traffic
  <2>7. Work' BY <2>1, Zenon DEF SessionInv, Work, ImageWrite, HeaderWrite, Holds
  <2>8. Asked' /\ Served' /\ Progress'
    BY <2>1, <2>4 DEF SessionInv, Asked, Served, Progress, FlashAddr, Holds
  <2>9. Told' <=> Told BY <2>1, <2>4 DEF Told, Holds
  <2>10. Confirmed' BY <2>1, <2>3, <2>9 DEF SessionInv, Confirmed
  <2> QED BY <2>5, <2>6, <2>7, <2>8, <2>10 DEF SessionInv
<1> QED BY <1>1, <1>2

\* Every step of host, wire, loader and operator keeps SessionInv.
LEMMA SessionStep ==
  ASSUME SessionInv, [Next]_vars
  PROVE  SessionInv'
<1>1. CASE UNCHANGED vars
  <2>1. image' = image /\ \A o : ChunkLen(o)' = ChunkLen(o) BY <1>1 DEF vars, image, ChunkLen
  <2>2. Work' BY <1>1, Zenon DEF vars, SessionInv, Work, ImageWrite, HeaderWrite, Holds
  <2> QED
    BY <1>1, <2>1, <2>2
    DEF vars, SessionInv, Shape, Traffic, Asked, Served, Progress, Confirmed, Told,
        FlashAddr, Holds
<1>2. CASE LoaderStep
  BY <1>2, LoaderStopSteps, RequestSteps, EraseSectorStep, ProgramCellStep, RomDoneSteps
  DEF LoaderStep
<1>3. CASE HostStep
  BY <1>3, WaitForReadyStep, SendSteps, ExpectConfirmStep, GiveUpSteps DEF HostStep
<1>4. CASE DamageRequest \/ LoseAnswer \/ PowerLoss \/ Reboot \/ NewSession
  BY <1>4, WireSteps, LoaderStopSteps, GiveUpSteps
<1> QED BY <1>1, <1>2, <1>3, <1>4 DEF Next

\* Sessions keep what the invariant says of the flash, the wire and the two ends.
THEOREM SessionInvariance == Spec => []SessionInv
<1>1. Init => SessionInv BY SessionStarts
<1>2. SessionInv /\ [Next]_vars => SessionInv' BY SessionStep
<1> QED BY <1>1, <1>2, PTL DEF Spec

\* However many sessions, images, losses, power cuts and forgotten resets there
\* were: a script that reports "All done" has its header and every cell of its
\* image in flash (flash_host.py: flash_image; main.rs of the loader).
THEOREM DoneIsFlashed == Spec => []DoneMeansFlashed
<1>1. SessionInv => DoneMeansFlashed
  BY DEF SessionInv, Progress, DoneMeansFlashed
<1> QED BY <1>1, SessionInvariance, PTL

\* The flash changes only under the ROM's hands.
LEMMA RomAlone ==
  ASSUME [Next]_vars, flash' # flash
  PROVE  EraseSector \/ ProgramCell
BY DEF Next, LoaderStep, HostStep, vars, BootBanner, EnterCommandLoop, ReadDamagedFrame,
       EraseRequest, WriteRequest, CommitRequest, Request, EraseDone, WriteDone,
       WaitForReady, SendErase, SendWrite, SendCommit, Send, ExpectConfirm, Timeout,
       DamageRequest, LoseAnswer, PowerLoss, Reboot, NewSession

\* The signature is programmed only over the whole image it announces,
\* whichever session sent it and whatever failed before (flash_image commits
\* last; the loader programs nothing it was not asked for).  A header that was
\* there already is another matter: an erase cut short may leave it over
\* erased sectors, which FlashService calls Torn.
THEOREM SignatureIsLast == Spec => SignatureOnlyOnWhole
<1>1. ASSUME SessionInv, [Next]_vars, flash[0] # Signature, flash'[0] = Signature
      PROVE  \E s \in 1 .. MaxSession, l \in Lengths :
               loader.data[2] = Length(l) /\ Holds(flash, s, l)
  <2>1. ProgramCell \/ EraseSector
    <3>1. flash' # flash BY <1>1
    <3> QED BY <1>1, <3>1, RomAlone
  <2>2. 0 \in Cells BY Geometry DEF Cells
  <2>3. CASE EraseSector
    <3>1. flash'[0] \in {Erased, flash[0]} BY <2>2, <2>3 DEF EraseSector
    <3> QED BY <1>1, <3>1 DEF Erased, Signature
  <2>4. CASE ProgramCell
    <3> DEFINE c == loader.addr + loader.done
    <3>1. /\ loader.pc = "write" /\ loader.done < Len(loader.data)
          /\ flash' = [flash EXCEPT ![c] = Program(@, loader.data[loader.done + 1])]
      BY <2>4 DEF ProgramCell
    <3>2. DOMAIN flash = Cells BY <1>1 DEF SessionInv, Shape
    <3>3. c = 0 BY <1>1, <2>2, <3>1, <3>2
    <3>4. PICK s \in 1 .. Len(lens) : WritesImage(s) \/ WritesHeader(s)
      BY <1>1, <3>1, ProgramPlace
    <3>5. ~WritesImage(s) BY <3>3 DEF WritesImage, HEADER_SIZE
    <3>6. loader.data = <<Signature, Length(lens[s])>> /\ Holds(flash, s, lens[s])
      BY <3>4, <3>5 DEF WritesHeader, HeaderWrite
    <3>7. loader.data[2] = Length(lens[s]) BY <3>6
    <3>8. s \in 1 .. MaxSession /\ lens[s] \in Lengths
      <4>1. lens \in Seq(Lengths) /\ Len(lens) \in 1 .. MaxSession /\ MaxSession \in Nat
        BY <1>1, SslConstants DEF SessionInv, Shape
      <4> QED BY <4>1
    <3> QED BY <3>6, <3>7, <3>8
  <2> QED BY <2>1, <2>3, <2>4
<1>2. SessionInv /\ [Next]_vars =>
        [flash[0] # Signature /\ flash'[0] = Signature =>
           \E s \in 1 .. MaxSession, l \in Lengths :
             loader.data[2] = Length(l) /\ Holds(flash, s, l)]_vars
  BY <1>1
<1> QED BY <1>2, SessionInvariance, PTL DEF Spec, SignatureOnlyOnWhole

\* The reserved last sector changes only under an image that does not leave
\* room for it, and then only by cells of that image: no erase touches it
\* (main.rs: the erase of the whole chip stops short of it).
THEOREM ReservedIsKept == Spec => ReservedKept
<1>1. ASSUME SessionInv, [Next]_vars, NEW c \in Cells, SectorOf(c) = ReservedSector,
             flash'[c] # flash[c]
      PROVE  \E s \in DOMAIN lens : /\ ~Fits(lens[s])
                                    /\ \E k \in Cells : Contains(loader.data, Datum(s, k))
  <2>1. ProgramCell \/ EraseSector
    <3>1. flash' # flash BY <1>1
    <3> QED BY <1>1, <3>1, RomAlone
  <2>2. c >= ReservedSector * SECTOR /\ ReservedSector * SECTOR >= HEADER_SIZE
    BY <1>1, Geometry DEF HEADER_SIZE
  <2>3. CASE EraseSector
    <3>1. PICK s \in loader.todo :
            flash' = [d \in Cells |-> IF SectorOf(d) = s THEN Erased ELSE flash[d]]
      BY <2>3 DEF EraseSector
    <3>2. s \in 0 .. ReservedSector - 1 BY <1>1 DEF SessionInv, Shape
    <3>3. SectorOf(c) = s BY <1>1, <3>1
    <3> QED BY <1>1, <3>2, <3>3, Geometry
  <2>4. CASE ProgramCell
    <3> DEFINE p == loader.addr + loader.done
    <3>1. /\ loader.pc = "write" /\ loader.done < Len(loader.data)
          /\ flash' = [flash EXCEPT ![p] = Program(@, loader.data[loader.done + 1])]
      BY <2>4 DEF ProgramCell
    <3>2. DOMAIN flash = Cells BY <1>1 DEF SessionInv, Shape
    <3>3. c = p BY <1>1, <3>1, <3>2
    <3>4. loader.done + 1 \in 1 .. Len(loader.data) BY <1>1, <3>1, ProgramPlace
    <3>5. PICK s \in 1 .. Len(lens) : WritesImage(s) \/ WritesHeader(s)
      BY <1>1, <3>1, ProgramPlace
    <3> HIDE DEF p
    <3>6. c \in Nat /\ ReservedSector * SECTOR \in Nat /\ lens[s] \in Nat
      BY <1>1, Geometry, SizeOf DEF Cells
    <3>7. ~WritesHeader(s) BY <2>2, <3>3, <3>6 DEF p, WritesHeader, HEADER_SIZE
    <3>8. c < HEADER_SIZE + lens[s] /\ loader.data[loader.done + 1] = Datum(s, c - HEADER_SIZE)
      <4>1. WritesImage(s) BY <3>5, <3>7
      <4>2. loader.addr + loader.done = c BY <3>3 DEF p
      <4> QED BY <4>1, <4>2, Zenon DEF WritesImage
    <3>9. ~Fits(lens[s]) BY <2>2, <3>6, <3>8 DEF Fits, HEADER_SIZE
    <3>10. c - HEADER_SIZE \in Cells BY <1>1, <2>2, <3>6, Geometry DEF Cells, HEADER_SIZE
    <3>11. Contains(loader.data, Datum(s, c - HEADER_SIZE))
      BY <3>4, <3>8 DEF Contains
    <3>12. s \in DOMAIN lens
      <4>1. lens \in Seq(Lengths) BY <1>1 DEF SessionInv, Shape
      <4> QED BY <4>1
    <3> QED BY <3>9, <3>10, <3>11, <3>12
  <2> QED BY <2>1, <2>3, <2>4
<1>2. SessionInv /\ [Next]_vars =>
        [(\E c \in Cells : SectorOf(c) = ReservedSector /\ flash'[c] # flash[c])
           => \E s \in DOMAIN lens : /\ ~Fits(lens[s])
                                     /\ \E k \in Cells : Contains(loader.data, Datum(s, k))]_vars
  BY <1>1
<1> QED BY <1>2, SessionInvariance, PTL DEF Spec, ReservedKept
-----------------------------------------------------------------------------
(* Flashing implements the service it promises.  What the host knows of its *)
(* own image is not enough for that: the chip must be without an image from *)
(* the erase to the commit, and an image in flash is never the one that the *)
(* session at hand has still to write.                                      *)

\* The header is blank while an image is written, and until its commit is
\* served; then it is there up to the cell that the loader has come to.
HeaderBlank == flash[0] = Erased /\ flash[1] = Erased
Cleared ==
  /\ loader.pc = "erase" /\ 0 \notin loader.todo => HeaderBlank
  /\ loader.pc = "write" /\ (loader.addr >= HEADER_SIZE \/ loader.done = 0) => HeaderBlank
  /\ loader.pc = "write" /\ loader.addr < HEADER_SIZE /\ loader.done = 1 =>
       flash[0] = Signature /\ flash[1] = Erased
  /\ host.pc = "erase" /\ host.sent /\ Success(toHost) => HeaderBlank
  /\ host.pc = "write" => HeaderBlank
  /\ host.pc = "commit" /\ (~host.sent \/ toLoader # <<>>) => HeaderBlank

\* The image in flash is some session's; until a session's erase is over, not
\* its own.
StartsIn(s) == flash[HEADER_SIZE] = Datum(s, 0)
Owned == \A s \in Nat : StartsIn(s) => s <= Len(lens)
Fresh ==
  /\ host.pc \in {"ready", "erase"} \/ loader.pc = "erase" =>
       \A s \in Nat : StartsIn(s) => s < Len(lens)
  /\ host.pc \in {"ready", "erase"} /\ loader.pc = "write" /\ loader.addr >= HEADER_SIZE =>
       \E s \in 1 .. Len(lens) - 1 : ImageWrite(s)

ServiceInv == SessionInv /\ Cleared /\ Owned /\ Fresh

\* Sector 0 holds the header; the whole-chip erase begins with it.
LEMMA HeaderSector ==
  /\ {0, 1, HEADER_SIZE} \subseteq Cells
  /\ SectorOf(0) = 0 /\ SectorOf(1) = 0
  /\ 0 \in SectorBitfield(0, ReservedSector * SECTOR)
<1>1. SECTOR \in Nat /\ SECTOR >= 2 BY SslConstants
<1>2. CAPACITY \in Nat /\ CAPACITY >= 4 /\ ReservedSector \in Nat \ {0}
      /\ ReservedSector * SECTOR \in Nat
  BY Geometry
<1>3. {0, 1, HEADER_SIZE} \subseteq Cells BY <1>2 DEF Cells, HEADER_SIZE
<1>4. 0 \div SECTOR = 0 /\ 1 \div SECTOR = 0 BY <1>1
<1>5. (ReservedSector * SECTOR - 0) \div SECTOR = ReservedSector BY <1>1, <1>2
<1>6. 0 \in SectorBitfield(0, ReservedSector * SECTOR)
  <2>1. 0 \in 0 .. (ReservedSector * SECTOR - 0) \div SECTOR - 1 BY <1>2, <1>5
  <2>2. 0 \div SECTOR + 0 = 0 BY <1>4
  <2> QED BY <2>1, <2>2 DEF SectorBitfield
<1> QED BY <1>3, <1>4, <1>6 DEF SectorOf

\* The session of an image is found in its first cell.
LEMMA StartIsDatum ==
  ASSUME NEW s \in Nat, NEW t \in Nat, StartsIn(s), StartsIn(t)
  PROVE  s = t
BY DEF StartsIn, Datum

\* A piece of an image names its session.
LEMMA CellKinds ==
  /\ Erased # Signature /\ Erased # Damaged
  /\ \A l : Length(l) # Erased /\ Length(l) # Signature
  /\ \A s, k : /\ Datum(s, k) # Erased /\ Datum(s, k) # Signature
               /\ Datum(s, k) # Damaged /\ Datum(s, k) # Length(k)
BY DEF Erased, Signature, Damaged, Length, Datum

\* A chip as it comes holds no session's image.
LEMMA StartedOld ==
  ASSUME Init, NEW s \in Nat, StartsIn(s)
  PROVE  s = 0
<1>1. flash[HEADER_SIZE] \in {Datum(0, HEADER_SIZE), Erased, Signature, Length(1), Datum(0, 0)}
  BY HeaderSector, SMTT(30) DEF Init
<1> QED BY <1>1 DEF StartsIn, Datum, Erased, Signature, Length, HEADER_SIZE

\* A board with any image, or none: the old one is image 0.
LEMMA ServiceStarts == ASSUME Init PROVE ServiceInv
<1>1. SessionInv BY SessionStarts
<1>2. loader.pc = "boot" /\ host.pc = "ready" /\ Len(lens) \in Nat \ {0}
  <2>1. loader = Loader("boot") /\ host = Host("ready", 0) BY DEF Init
  <2>2. Len(lens) \in 1 .. MaxSession /\ MaxSession \in Nat
    BY <1>1, SslConstants DEF SessionInv, Shape
  <2> QED BY <2>1, <2>2 DEF Loader, Host
<1>3. \A s \in Nat : StartsIn(s) => s = 0 BY StartedOld
<1>4. Cleared BY <1>2 DEF Cleared
<1>5. Owned /\ Fresh BY <1>2, <1>3 DEF Owned, Fresh
<1> QED BY <1>1, <1>4, <1>5 DEF ServiceInv

\* A loader that serves nothing, and a host that is told nothing.
LEMMA StopsService ==
  ASSUME ServiceInv, UNCHANGED <<flash, host, lens>>, loader'.pc \in Idle,
         toLoader' = <<>> \/ toLoader' = toLoader, Success(toHost') => Success(toHost)
  PROVE  Cleared' /\ Owned' /\ Fresh'
<1>1. loader'.pc \notin {"erase", "write"} BY DEF Idle
<1>2. HeaderBlank' <=> HeaderBlank BY DEF HeaderBlank
<1>3. \A s : StartsIn(s)' <=> StartsIn(s) BY DEF StartsIn
<1>4. Cleared' BY <1>1, <1>2 DEF ServiceInv, Cleared
<1>5. Owned' /\ Fresh' BY <1>1, <1>3 DEF ServiceInv, Owned, Fresh
<1> QED BY <1>4, <1>5

\* The loader's start-up, what cuts it off, and the frames it can not read.
LEMMA LoaderStopService ==
  ASSUME ServiceInv, BootBanner \/ EnterCommandLoop \/ Reboot \/ PowerLoss \/ ReadDamagedFrame
  PROVE  Cleared' /\ Owned' /\ Fresh'
<1>1. toHost \in Seq(Banners \cup Answers) BY DEF ServiceInv, SessionInv, Shape
<1>2. CASE BootBanner \/ EnterCommandLoop \/ Reboot \/ PowerLoss
  <2>1. UNCHANGED <<flash, host, lens>> /\ (toLoader' = <<>> \/ toLoader' = toLoader)
    BY <1>2 DEF BootBanner, EnterCommandLoop, Reboot, PowerLoss
  <2>2. loader'.pc \in Idle
    BY <1>2 DEF BootBanner, EnterCommandLoop, Reboot, PowerLoss, Loader, Idle
  <2>3. toHost' = toHost \/ \E a \in Banners : toHost' = Append(toHost, a)
    BY <1>2 DEF BootBanner, EnterCommandLoop, Reboot, PowerLoss, Confirm, Banners
  <2>4. Success(toHost') => Success(toHost) BY <1>1, <2>3, QueueGrows
  <2> QED BY <2>1, <2>2, <2>4, StopsService
<1>3. CASE ReadDamagedFrame
  <2>1. /\ loader.pc = "loop" /\ toLoader # <<>> /\ toLoader' = Tail(toLoader)
        /\ Head(toLoader).damage # "none" /\ UNCHANGED <<flash, host, lens>>
    BY <1>3 DEF ReadDamagedFrame
  <2>2. Head(toLoader) = toLoader[1] /\ toLoader[1] \in Frames /\ toLoader' = <<>>
    <3>1. toLoader \in Seq(Frames) /\ Len(toLoader) <= 1
      BY DEF ServiceInv, SessionInv, Shape
    <3> QED BY <2>1, <3>1
  <2>3. Head(toLoader).damage \in {"flipped", "oversize", "short"}
    BY <2>1, <2>2 DEF Frames
  <2>4. /\ loader' = loader \/ loader' = Loader("reading")
        /\ toHost' = toHost \/ toHost' = Append(toHost, "CRC_ERROR")
    BY <1>3, <2>3, Zenon DEF ReadDamagedFrame, Confirm
  <2>5. loader'.pc \in Idle BY <2>1, <2>4 DEF Loader, Idle
  <2>6. Success(toHost') => Success(toHost) BY <1>1, <2>4, QueueGrows DEF Answers
  <2> QED BY <2>1, <2>2, <2>5, <2>6, StopsService
<1> QED BY <1>2, <1>3

\* A request is served, or refused.
LEMMA RequestService ==
  ASSUME ServiceInv, EraseRequest \/ WriteRequest \/ CommitRequest
  PROVE  Cleared' /\ Owned' /\ Fresh'
<1>1. /\ loader.pc = "loop" /\ toLoader # <<>> /\ toLoader' = Tail(toLoader)
      /\ UNCHANGED <<flash, host, lens>>
  BY DEF EraseRequest, WriteRequest, CommitRequest, Request
<1>2. toLoader' = <<>> /\ Head(toLoader) = toLoader[1] /\ toLoader[1] \in Frames
  <2>1. toLoader \in Seq(Frames) /\ Len(toLoader) <= 1
    BY DEF ServiceInv, SessionInv, Shape
  <2> QED BY <1>1, <2>1
<1>3. host.sent /\ toLoader[1].cmd = host.pc
  BY <1>1 DEF ServiceInv, SessionInv, Traffic, Asked
<1>4. HeaderBlank' <=> HeaderBlank BY <1>1 DEF HeaderBlank
<1>5. \A s : StartsIn(s)' <=> StartsIn(s) BY <1>1 DEF StartsIn
<1>6. ASSUME NEW e \in Answers \ {"SUCCESS"}, Confirm(e), UNCHANGED loader
      PROVE  Cleared' /\ Owned' /\ Fresh'
  <2>1. toHost \in Seq(Banners \cup Answers) BY DEF ServiceInv, SessionInv, Shape
  <2>2. Success(toHost') => Success(toHost)
    BY <1>6, <2>1, QueueGrows DEF Confirm
  <2>3. loader'.pc \in Idle BY <1>1, <1>6 DEF Idle
  <2> QED BY <1>1, <1>2, <2>2, <2>3, StopsService
<1>7. CASE EraseRequest
  <2> DEFINE to == ReservedSector * SECTOR
  <2>1. CASE CheckErase(0, to)
    <3>1. /\ loader' = [Loader("erase") EXCEPT !.todo = SectorBitfield(0, to)]
          /\ toHost' = toHost /\ Head(toLoader).cmd = "erase"
      BY <1>7, <2>1 DEF EraseRequest, Request
    <3>2. loader'.pc = "erase" /\ 0 \in loader'.todo
      BY <3>1, HeaderSector DEF Loader
    <3>3. host.pc = "erase" BY <1>2, <1>3, <3>1
    <3>4. Cleared' BY <1>1, <1>2, <1>4, <3>1, <3>2, <3>3 DEF ServiceInv, Cleared
    <3>5. Owned' /\ Fresh' BY <1>1, <1>5, <3>2, <3>3 DEF ServiceInv, Owned, Fresh
    <3> QED BY <3>4, <3>5
  <2>2. CASE ~CheckErase(0, to)
    <3>1. Confirm("EXEC_ERROR") /\ UNCHANGED loader BY <1>7, <2>2 DEF EraseRequest
    <3> QED BY <1>6, <3>1 DEF Answers
  <2> QED BY <2>1, <2>2
<1>8. ASSUME NEW addr, NEW data, StartWrite(addr, data), host.pc \in {"write", "commit"}
      PROVE  Cleared' /\ Owned' /\ Fresh'
  <2>1. CASE CheckWrite(addr, data)
    <3>1. /\ loader' = [Loader("write") EXCEPT !.addr = addr, !.data = data]
          /\ toHost' = toHost
      BY <1>8, <2>1 DEF StartWrite
    <3>2. loader'.pc = "write" /\ loader'.done = 0 BY <3>1 DEF Loader
    <3>3. HeaderBlank BY <1>1, <1>8 DEF ServiceInv, Cleared
    <3>4. Cleared' BY <1>1, <1>2, <1>4, <1>8, <3>2, <3>3 DEF Cleared
    <3>5. Owned' /\ Fresh' BY <1>1, <1>5, <1>8, <3>2 DEF ServiceInv, Owned, Fresh
    <3> QED BY <3>4, <3>5
  <2>2. CASE ~CheckWrite(addr, data)
    <3>1. Confirm("WRITE_ERROR") /\ UNCHANGED loader BY <1>8, <2>2 DEF StartWrite
    <3> QED BY <1>6, <3>1 DEF Answers
  <2> QED BY <2>1, <2>2
<1>9. CASE WriteRequest
  BY <1>2, <1>3, <1>8, <1>9 DEF WriteRequest, Request
<1>10. CASE CommitRequest
  BY <1>2, <1>3, <1>8, <1>10 DEF CommitRequest, Request
<1> QED BY <1>7, <1>9, <1>10

\* The ROM erases a sector: the first one takes the header with it.
LEMMA EraseSectorService ==
  ASSUME ServiceInv, EraseSector
  PROVE  Cleared' /\ Owned' /\ Fresh'
<1>1. loader.pc = "erase" /\ UNCHANGED <<host, lens, toLoader, toHost>>
  BY DEF EraseSector
<1>2. PICK i \in loader.todo :
        /\ loader' = [loader EXCEPT !.todo = @ \ {i}]
        /\ flash' = [c \in Cells |-> IF SectorOf(c) = i THEN Erased ELSE flash[c]]
  BY DEF EraseSector
<1>3. loader'.pc = "erase" /\ loader'.todo = loader.todo \ {i}
  BY <1>1, <1>2 DEF ServiceInv, SessionInv, Shape
<1>4. HeaderBlank => HeaderBlank'
  BY <1>2, HeaderSector DEF HeaderBlank
<1>5. i = 0 => HeaderBlank' BY <1>2, HeaderSector DEF HeaderBlank
<1>6. \A s : StartsIn(s)' => StartsIn(s)
  BY <1>2, HeaderSector, CellKinds DEF StartsIn
<1>7. Cleared' BY <1>1, <1>3, <1>4, <1>5 DEF ServiceInv, Cleared
<1>8. Owned' /\ Fresh'
  BY <1>1, <1>3, <1>6 DEF ServiceInv, Owned, Fresh
<1> QED BY <1>7, <1>8

\* The cell that the loader programs, and the cells that matter here.
LEMMA ProgramsCell ==
  ASSUME ServiceInv, ProgramCell
  PROVE  LET c == loader.addr + loader.done
         IN  /\ loader.pc = "write" /\ loader.pc \notin Idle /\ c \in Cells
             /\ loader.addr \in Nat /\ loader.done \in Nat
             /\ UNCHANGED <<host, lens, toLoader, toHost>>
             /\ loader'.pc = "write" /\ loader'.addr = loader.addr
             /\ loader'.data = loader.data /\ loader'.done = loader.done + 1
             /\ flash'[c] = Program(flash[c], loader.data[loader.done + 1])
             /\ \A d \in Cells : d # c => flash'[d] = flash[d]
             /\ \E s \in 1 .. Len(lens) : WritesImage(s) \/ WritesHeader(s)
<1> DEFINE c == loader.addr + loader.done
<1>1. /\ loader.pc = "write" /\ loader.done < Len(loader.data)
      /\ UNCHANGED <<host, lens, toLoader, toHost>>
      /\ loader' = [loader EXCEPT !.done = @ + 1]
      /\ flash' = [flash EXCEPT ![c] = Program(@, loader.data[loader.done + 1])]
  BY DEF ProgramCell
<1>2. c \in Cells /\ \E s \in 1 .. Len(lens) : WritesImage(s) \/ WritesHeader(s)
  BY <1>1, ProgramPlace DEF ServiceInv
<1>3. DOMAIN flash = Cells BY DEF ServiceInv, SessionInv, Shape
<1>4. loader \in [pc : Idle \cup Busy, todo : SUBSET (0 .. ReservedSector - 1),
                  addr : Nat, data : Seq(Value), done : Nat]
  BY DEF ServiceInv, SessionInv, Shape
<1>5. loader.pc \notin Idle BY <1>1 DEF Idle
<1> HIDE DEF c
<1>6. /\ flash'[c] = Program(flash[c], loader.data[loader.done + 1])
      /\ \A d \in Cells : d # c => flash'[d] = flash[d]
  BY <1>1, <1>2, <1>3
<1> QED BY <1>1, <1>2, <1>4, <1>5, <1>6 DEF c

\* A chunk goes behind the header, the header into blank cells.
LEMMA ProgramCellService ==
  ASSUME ServiceInv, ProgramCell
  PROVE  Cleared' /\ Owned' /\ Fresh'
<1> DEFINE c == loader.addr + loader.done
<1>1. /\ loader.pc = "write" /\ loader.pc \notin Idle /\ c \in Cells
      /\ loader.addr \in Nat /\ loader.done \in Nat
      /\ UNCHANGED <<host, lens, toLoader, toHost>>
      /\ loader'.pc = "write" /\ loader'.addr = loader.addr
      /\ loader'.data = loader.data /\ loader'.done = loader.done + 1
      /\ flash'[c] = Program(flash[c], loader.data[loader.done + 1])
      /\ \A d \in Cells : d # c => flash'[d] = flash[d]
  BY ProgramsCell
<1>2. PICK s \in 1 .. Len(lens) : WritesImage(s) \/ WritesHeader(s)
  BY ProgramsCell
<1>3. s \in Nat /\ Len(lens) \in Nat
  BY SizeOf DEF ServiceInv, SessionInv, Shape
<1> HIDE DEF c
<1>4. host.sent => ~Success(toHost)
  BY <1>1, BannersOnly DEF ServiceInv, SessionInv, Traffic, Busy
<1>5. host.pc \in Asking => host.sent /\ toLoader = <<>>
  BY <1>1 DEF ServiceInv, SessionInv, Traffic
<1>6. CASE WritesImage(s)
  <2>1. loader.addr >= HEADER_SIZE /\ c >= HEADER_SIZE
        /\ loader.data[loader.done + 1] = Datum(s, c - HEADER_SIZE)
    BY <1>6 DEF WritesImage, ImageWrite, c
  <2>2. HeaderBlank BY <1>1, <2>1 DEF ServiceInv, Cleared
  <2>3. 0 # c /\ 1 # c BY <2>1 DEF HEADER_SIZE
  <2>4. HeaderBlank' BY <1>1, <2>2, <2>3, HeaderSector DEF HeaderBlank
  <2>5. Cleared'
    <3>1. ~(loader.addr < HEADER_SIZE) BY <1>1, <2>1 DEF HEADER_SIZE
    <3> QED BY <1>1, <2>4, <3>1 DEF Cleared
  <2>6. ASSUME NEW t \in Nat, StartsIn(t)' PROVE StartsIn(t) \/ t = s
    <3>1. flash'[HEADER_SIZE] \in {flash[HEADER_SIZE], Datum(s, c - HEADER_SIZE), Damaged}
      BY <1>1, <2>1, HeaderSector DEF Program
    <3> QED BY <2>6, <3>1 DEF StartsIn, Datum, Damaged
  <2>7. Owned' BY <1>1, <1>3, <2>6 DEF ServiceInv, Owned
  <2>8. Fresh'
    <3> SUFFICES ASSUME host.pc \in {"ready", "erase"} PROVE Fresh'
      BY <1>1 DEF Fresh
    <3>1. PICK t \in 1 .. Len(lens) - 1 : ImageWrite(t)
      BY <1>1, <2>1 DEF ServiceInv, Fresh
    <3>2. ImageWrite(t)' BY <1>1, <3>1 DEF ImageWrite
    <3>3. t \in Nat /\ t < Len(lens) BY <1>3
    <3>4. s = t
      <4>1. loader.done + 1 \in 1 .. Len(loader.data) /\ loader.data \in Seq(Value)
        BY ProgramPlace DEF ServiceInv, SessionInv, Shape, ProgramCell
      <4>2. loader.addr - HEADER_SIZE \in Nat /\ Len(loader.data) \in Nat
        BY <1>1, <2>1, <4>1 DEF HEADER_SIZE
      <4>3. PICK o \in Nat : o = loader.addr - HEADER_SIZE BY <4>2
      <4>4. PICK n \in Nat : n = Len(loader.data) BY <4>2
      <4>5. loader.data = ImageCells(t, o, n) BY <3>1, <4>3, <4>4, Zenon DEF ImageWrite
      <4>6. \A k \in 1 .. n : ImageCells(t, o, n)[k] = Datum(t, o + k - 1)
        BY <3>3, <4>3, <4>4, PieceOf, ZenonT(60)
      <4>7. loader.data[loader.done + 1] = Datum(t, o + (loader.done + 1) - 1)
        BY <4>1, <4>4, <4>5, <4>6, ZenonT(40)
      <4> QED BY <2>1, <4>7 DEF Datum
    <3>5. \A r \in Nat : StartsIn(r) => r < Len(lens)
      BY DEF ServiceInv, Fresh
    <3>6. \A r \in Nat : StartsIn(r)' => r < Len(lens)
      BY <2>6, <3>3, <3>4, <3>5
    <3>7. \E r \in 1 .. Len(lens') - 1 : ImageWrite(r)' BY <1>1, <3>2
    <3> QED BY <1>1, <3>6, <3>7 DEF Fresh
  <2> QED BY <2>5, <2>7, <2>8
<1>7. CASE WritesHeader(s)
  <2>1. loader.addr = 0 /\ loader.data = <<Signature, Length(lens[s])>> /\ c = loader.done
        /\ c \in {0, 1}
    BY <1>1, <1>7 DEF WritesHeader, HeaderWrite, HEADER_SIZE, c
  <2>2. c = 0 => HeaderBlank BY <1>1, <2>1 DEF ServiceInv, Cleared
  <2>3. c = 0 => flash'[0] = Signature /\ flash'[1] = Erased
    <3> SUFFICES ASSUME c = 0 PROVE flash'[0] = Signature /\ flash'[1] = Erased
      OBVIOUS
    <3>1. loader.data[loader.done + 1] = Signature BY <2>1
    <3>2. flash[0] = Erased /\ flash[1] = Erased BY <2>2 DEF HeaderBlank
    <3> QED BY <1>1, <3>1, <3>2, HeaderSector DEF Program
  <2>4. host.pc # "write"
    <3> SUFFICES ASSUME host.pc = "write" PROVE FALSE
      OBVIOUS
    <3>1. host.sent BY <1>5 DEF Asking
    <3>2. loader.addr = FlashAddr(host.offset) /\ host.offset \in Nat
      BY <1>1, <3>1 DEF ServiceInv, SessionInv, Served, Shape, Busy
    <3> QED BY <2>1, <3>2 DEF FlashAddr, HEADER_SIZE
  <2>5. Cleared'
    <3>1. loader'.pc = "write" /\ loader'.done # 0 /\ ~(loader'.addr >= HEADER_SIZE)
      BY <1>1, <2>1 DEF HEADER_SIZE
    <3>2. loader'.done = 1 => c = 0 BY <1>1, <2>1
    <3>3. host'.pc = "erase" /\ host'.sent => ~Success(toHost') BY <1>1, <1>4
    <3>4. host'.pc = "commit" => host'.sent /\ toLoader' = <<>> BY <1>1, <1>5 DEF Asking
    <3>5. host'.pc # "write" BY <1>1, <2>4
    <3> QED BY <2>3, <3>1, <3>2, <3>3, <3>4, <3>5 DEF Cleared
  <2>6. \A t : StartsIn(t)' <=> StartsIn(t)
    <3>1. HEADER_SIZE # c BY <2>1 DEF HEADER_SIZE
    <3> QED BY <1>1, <3>1, HeaderSector DEF StartsIn
  <2>7. Owned' BY <1>1, <2>6 DEF ServiceInv, Owned
  <2>8. Fresh'
    <3>1. ~(loader'.addr >= HEADER_SIZE) BY <1>1, <2>1 DEF HEADER_SIZE
    <3> QED BY <1>1, <2>6, <3>1 DEF ServiceInv, Fresh
  <2> QED BY <2>5, <2>7, <2>8
<1> QED BY <1>2, <1>6, <1>7

\* The ROM routine ends: an erase is confirmed when every sector is blank.
LEMMA RomDoneService ==
  ASSUME ServiceInv, EraseDone \/ WriteDone
  PROVE  Cleared' /\ Owned' /\ Fresh'
<1>1. /\ loader.pc \in Busy /\ loader' = Loader("loop")
      /\ UNCHANGED <<flash, host, lens, toLoader>>
  BY DEF EraseDone, WriteDone, Busy
<1>2. loader'.pc = "loop" BY <1>1 DEF Loader
<1>3. HeaderBlank' <=> HeaderBlank BY <1>1 DEF HeaderBlank
<1>4. \A s : StartsIn(s)' <=> StartsIn(s) BY <1>1 DEF StartsIn
<1>5. host.pc = "erase" /\ host.sent /\ Success(toHost') => HeaderBlank
  <2> SUFFICES ASSUME host.pc = "erase", host.sent, Success(toHost') PROVE HeaderBlank
    OBVIOUS
  <2>1. loader.pc = "erase" /\ ~Success(toHost)
    BY <1>1, BannersOnly DEF ServiceInv, SessionInv, Served, Traffic
  <2>2. toHost \in Seq(Banners \cup Answers) BY DEF ServiceInv, SessionInv, Shape
  <2>3. EraseDone BY <2>1 DEF WriteDone
  <2>4. loader.todo = {}
    <3> SUFFICES ASSUME Confirm("EXEC_ERROR") PROVE FALSE
      BY <2>3 DEF EraseDone
    <3> QED BY <2>1, <2>2, QueueGrows DEF Confirm, Answers
  <2> QED BY <2>1, <2>4 DEF ServiceInv, Cleared
<1>6. Cleared' BY <1>1, <1>2, <1>3, <1>5 DEF ServiceInv, Cleared
<1>7. Owned' /\ Fresh' BY <1>1, <1>2, <1>4 DEF ServiceInv, Owned, Fresh
<1> QED BY <1>6, <1>7

\* The host takes what it finds: a confirmed erase leaves the header blank, and
\* nothing fills it before the commit.
LEMMA HostService ==
  ASSUME ServiceInv,
         \/ WaitForReady \/ SendErase \/ SendWrite \/ SendCommit
         \/ ExpectConfirm \/ Timeout
  PROVE  Cleared' /\ Owned' /\ Fresh'
<1>1. UNCHANGED <<flash, loader, lens>>
  BY DEF WaitForReady, SendErase, SendWrite, SendCommit, Send, ExpectConfirm, Timeout
<1>2. HeaderBlank' <=> HeaderBlank BY <1>1 DEF HeaderBlank
<1>3. \A s : (StartsIn(s)' <=> StartsIn(s)) /\ (ImageWrite(s)' <=> ImageWrite(s))
  BY <1>1 DEF StartsIn, ImageWrite
<1>4. Owned' BY <1>1, <1>3 DEF ServiceInv, Owned
<1>5. toHost \in Seq(Banners \cup Answers) BY DEF ServiceInv, SessionInv, Shape
<1>6. host \in [pc : Asking \cup {"ready", "failed", "done"}, offset : Nat, sent : BOOLEAN]
  BY DEF ServiceInv, SessionInv, Shape
<1>7. CASE WaitForReady
  <2>1. /\ host.pc = "ready" /\ ~host.sent
        /\ host' = host \/ host' = Host("erase", 0)
    BY <1>7 DEF WaitForReady, ServiceInv, SessionInv, Traffic, Asking
  <2>2. host'.pc \in {"ready", "erase"} /\ ~host'.sent BY <2>1 DEF Host
  <2>3. Cleared' BY <1>1, <1>2, <2>2 DEF ServiceInv, Cleared
  <2>4. Fresh' BY <1>1, <1>3, <2>1, <2>2 DEF ServiceInv, Fresh
  <2> QED BY <1>4, <2>3, <2>4
<1>8. CASE SendErase \/ SendWrite \/ SendCommit
  <2>1. host.pc \in Asking /\ ~host.sent /\ host' = [host EXCEPT !.sent = TRUE]
        /\ toHost' = toHost
    BY <1>8 DEF SendErase, SendWrite, SendCommit, Send, Asking
  <2>2. host'.pc = host.pc BY <1>6, <2>1
  <2>3. ~Success(toHost) BY <2>1, BannersOnly DEF ServiceInv, SessionInv, Traffic
  <2>4. Cleared' BY <1>1, <1>2, <2>1, <2>2, <2>3 DEF ServiceInv, Cleared
  <2>5. Fresh' BY <1>1, <1>3, <2>2 DEF ServiceInv, Fresh
  <2> QED BY <1>4, <2>4, <2>5
<1>9. CASE ExpectConfirm
  <2>1. /\ host.sent /\ toHost # <<>> /\ toHost' = Tail(toHost) /\ toLoader' = toLoader
        /\ host.pc \in Asking
    BY <1>9 DEF ExpectConfirm, ServiceInv, SessionInv, Traffic
  <2>2. /\ Success(toHost') => Success(toHost)
        /\ Head(toHost) = "SUCCESS" => Success(toHost)
    BY <1>5, <2>1, QueueShrinks
  <2>3. CASE host' = host
    <3>1. Cleared' BY <1>1, <1>2, <2>1, <2>2, <2>3 DEF ServiceInv, Cleared
    <3>2. Fresh' BY <1>1, <1>3, <2>3 DEF ServiceInv, Fresh
    <3> QED BY <1>4, <3>1, <3>2
  <2>4. CASE Head(toHost) = "SUCCESS"
    <3>1. host' = Advanced BY <1>9, <2>4, Zenon DEF ExpectConfirm
    <3>2. CASE host.pc = "erase"
      <4>1. host' = Host("write", 0) BY <3>1, <3>2, Zenon DEF Advanced
      <4>2. host'.pc = "write" BY <4>1 DEF Host
      <4>3. HeaderBlank BY <2>1, <2>2, <2>4, <3>2 DEF ServiceInv, Cleared
      <4>4. Cleared' BY <1>1, <1>2, <4>2, <4>3 DEF ServiceInv, Cleared
      <4>5. Fresh' BY <1>1, <1>3, <4>2 DEF ServiceInv, Fresh
      <4> QED BY <1>4, <4>4, <4>5
    <3>3. CASE host.pc = "write"
      <4>1. \E o : host' = Host("write", o) \/ host' = Host("commit", o)
        BY <3>1, <3>3, Zenon DEF Advanced
      <4>2. host'.pc \in {"write", "commit"} BY <4>1 DEF Host
      <4>3. HeaderBlank BY <3>3 DEF ServiceInv, Cleared
      <4>4. Cleared' BY <1>1, <1>2, <4>2, <4>3 DEF ServiceInv, Cleared
      <4>5. Fresh' BY <1>1, <1>3, <4>2 DEF ServiceInv, Fresh
      <4> QED BY <1>4, <4>4, <4>5
    <3>4. CASE host.pc = "commit"
      <4>1. host' = Host("done", host.offset) BY <3>1, <3>4, Zenon DEF Advanced
      <4>2. host'.pc = "done" BY <4>1 DEF Host
      <4>3. Cleared' BY <1>1, <1>2, <4>2 DEF ServiceInv, Cleared
      <4>4. Fresh' BY <1>1, <1>3, <4>2 DEF ServiceInv, Fresh
      <4> QED BY <1>4, <4>3, <4>4
    <3> QED BY <2>1, <3>2, <3>3, <3>4 DEF Asking
  <2>5. CASE Head(toHost) # "SUCCESS" /\ host' # host
    <3>1. host' = Host("failed", host.offset) BY <1>9, <2>5, Zenon DEF ExpectConfirm
    <3>2. host'.pc = "failed" BY <3>1 DEF Host
    <3>3. Cleared' BY <1>1, <1>2, <3>2 DEF ServiceInv, Cleared
    <3>4. Fresh' BY <1>1, <1>3, <3>2 DEF ServiceInv, Fresh
    <3> QED BY <1>4, <3>3, <3>4
  <2> QED BY <2>3, <2>4, <2>5
<1>10. CASE Timeout
  <2>1. host'.pc = "failed" BY <1>10 DEF Timeout, Host
  <2>2. Cleared' BY <1>1, <1>2, <2>1 DEF ServiceInv, Cleared
  <2>3. Fresh' BY <1>1, <1>3, <2>1 DEF ServiceInv, Fresh
  <2> QED BY <1>4, <2>2, <2>3
<1> QED BY <1>7, <1>8, <1>9, <1>10

\* The wire takes something away.
LEMMA WireService ==
  ASSUME ServiceInv, DamageRequest \/ LoseAnswer
  PROVE  Cleared' /\ Owned' /\ Fresh'
<1>1. UNCHANGED <<flash, loader, host, lens>> BY DEF DamageRequest, LoseAnswer
<1>2. HeaderBlank' <=> HeaderBlank BY <1>1 DEF HeaderBlank
<1>3. \A s : (StartsIn(s)' <=> StartsIn(s)) /\ (ImageWrite(s)' <=> ImageWrite(s))
  BY <1>1 DEF StartsIn, ImageWrite
<1>4. Success(toHost') => Success(toHost)
  <2>1. toHost \in Seq(Banners \cup Answers) BY DEF ServiceInv, SessionInv, Shape
  <2>2. CASE DamageRequest BY <2>2 DEF DamageRequest
  <2>3. CASE LoseAnswer BY <2>1, <2>3, QueueShrinks DEF LoseAnswer
  <2> QED BY <2>2, <2>3
<1>5. toLoader' # <<>> => toLoader # <<>>
  BY DEF DamageRequest, LoseAnswer
<1>6. Cleared' BY <1>1, <1>2, <1>4, <1>5 DEF ServiceInv, Cleared
<1>7. Owned' /\ Fresh' BY <1>1, <1>3 DEF ServiceInv, Owned, Fresh
<1> QED BY <1>6, <1>7

\* A new session is fresh: all that is in flash, and all that a loader nobody
\* reset may still be writing, is from before it.
LEMMA NewSessionService ==
  ASSUME ServiceInv, NewSession
  PROVE  Cleared' /\ Owned' /\ Fresh'
<1>1. /\ flash' = flash /\ host' = Host("ready", 0) /\ toHost' = <<>>
      /\ loader' = Loader("boot") \/ loader' = loader
  BY DEF NewSession
<1>2. host'.pc = "ready" BY <1>1 DEF Host
<1>3. PICK l \in Lengths : lens' = Append(lens, l) BY DEF NewSession
<1>4. /\ Len(lens) \in Nat /\ Len(lens') = Len(lens) + 1
      /\ \A s \in 1 .. Len(lens) : lens'[s] = lens[s]
  BY <1>3 DEF ServiceInv, SessionInv, Shape
<1>5. loader'.pc \in {"erase", "write"} => loader' = loader BY <1>1 DEF Loader
<1>6. \A s : StartsIn(s)' <=> StartsIn(s) BY <1>1 DEF StartsIn
<1>7. Cleared' BY <1>1, <1>2, <1>5 DEF ServiceInv, Cleared, HeaderBlank
<1>8. Owned' BY <1>4, <1>6 DEF ServiceInv, Owned
<1>9. \A s \in Nat : StartsIn(s)' => s < Len(lens') BY <1>4, <1>6 DEF ServiceInv, Owned
<1>10. ASSUME loader'.pc = "write", loader'.addr >= HEADER_SIZE
       PROVE  \E s \in 1 .. Len(lens') - 1 : ImageWrite(s)'
  <2>1. loader' = loader BY <1>5, <1>10
  <2>2. PICK s \in 1 .. Len(lens) : ImageWrite(s) \/ HeaderWrite(s)
    BY <1>10, <2>1 DEF ServiceInv, SessionInv, Work
  <2>3. ImageWrite(s) BY <1>10, <2>1, <2>2 DEF HeaderWrite, HEADER_SIZE
  <2>4. ImageWrite(s)' BY <1>4, <2>1, <2>3 DEF ImageWrite
  <2>5. s \in 1 .. Len(lens') - 1 BY <1>4
  <2> QED BY <2>4, <2>5
<1>11. Fresh' BY <1>9, <1>10 DEF Fresh
<1> QED BY <1>7, <1>8, <1>11

\* Every step keeps what the refinement rests on.
LEMMA ServiceInvStep ==
  ASSUME ServiceInv, [Next]_vars
  PROVE  ServiceInv'
<1>1. SessionInv' BY SessionStep DEF ServiceInv
<1>2. CASE UNCHANGED vars
  BY <1>1, <1>2
  DEF vars, ServiceInv, Cleared, Owned, Fresh, HeaderBlank, StartsIn, ImageWrite
<1>3. CASE LoaderStep
  BY <1>1, <1>3, LoaderStopService, RequestService, EraseSectorService, ProgramCellService,
     RomDoneService
  DEF LoaderStep, ServiceInv
<1>4. CASE HostStep BY <1>1, <1>4, HostService DEF HostStep, ServiceInv
<1>5. CASE DamageRequest \/ LoseAnswer \/ PowerLoss \/ Reboot \/ NewSession
  BY <1>1, <1>5, WireService, LoaderStopService, NewSessionService DEF ServiceInv
<1> QED BY <1>2, <1>3, <1>4, <1>5 DEF Next

-----------------------------------------------------------------------------
\* The length of an image that may be in flash.
LEMMA SizeKnown ==
  ASSUME NEW g \in Seq(Nat \ {0}), NEW s \in 0 .. Len(g)
  PROVE  SizeIn(g, s) \in Nat \ {0} /\ s \in Nat
<1>1. CASE s = 0 BY <1>1 DEF SizeIn
<1>2. CASE s # 0
  <2>1. s \in 1 .. Len(g) BY <1>2
  <2> QED BY <1>2, <2>1 DEF SizeIn
<1> QED BY <1>1, <1>2

\* An image that is there tells its session.
LEMMA WholeStarts ==
  ASSUME NEW f, NEW g \in Seq(Nat \ {0}), NEW s \in 0 .. Len(g), Holds(f, s, SizeIn(g, s))
  PROVE  f[HEADER_SIZE] = Datum(s, 0) /\ f[HEADER_SIZE][2] = s
<1>1. SizeIn(g, s) \in Nat \ {0} BY SizeKnown
<1>2. f[HEADER_SIZE + 0] = Datum(s, 0) BY <1>1 DEF Holds
<1>3. HEADER_SIZE + 0 = HEADER_SIZE BY DEF HEADER_SIZE
<1> QED BY <1>2, <1>3 DEF Datum

\* The four things the boot ROM may find.
LEMMA FoundIs ==
  ASSUME NEW f, NEW g \in Seq(Nat \ {0})
  PROVE  /\ f[0] # Signature => Found(f, g) = <<"none", 0>>
         /\ \A s \in 0 .. Len(g) : Installed(f, g, s) => Found(f, g) = <<"whole", s>>
         /\ \A s \in 0 .. Len(g) : Announced(f, g, s) => Found(f, g) = <<"half", s>>
         /\ f[0] = Signature =>
              \/ \E s \in 0 .. Len(g) : Installed(f, g, s)
              \/ \E s \in 0 .. Len(g) : Announced(f, g, s)
              \/ Found(f, g) = <<"torn", 0>>
<1>1. f[0] # Signature => Found(f, g) = <<"none", 0>> BY DEF Found
<1>2. ASSUME NEW s \in 0 .. Len(g), Installed(f, g, s) PROVE Found(f, g) = <<"whole", s>>
  <2>1. f[0] = Signature /\ f[HEADER_SIZE][2] = s
    BY <1>2, WholeStarts DEF Installed
  <2> QED BY <1>2, <2>1, Zenon DEF Found
<1>3. ASSUME NEW s \in 0 .. Len(g), Announced(f, g, s) PROVE Found(f, g) = <<"half", s>>
  <2>1. f[0] = Signature /\ f[1] = Erased /\ f[HEADER_SIZE][2] = s
    BY <1>3, WholeStarts DEF Announced
  <2>2. ~\E t \in 0 .. Len(g) : Installed(f, g, t) BY <2>1, CellKinds DEF Installed
  <2> QED BY <1>3, <2>1, <2>2, Zenon DEF Found
<1>4. ASSUME f[0] = Signature,
             ~\E s \in 0 .. Len(g) : Installed(f, g, s),
             ~\E s \in 0 .. Len(g) : Announced(f, g, s)
      PROVE  Found(f, g) = <<"torn", 0>>
  BY <1>4, Zenon DEF Found
<1> QED BY <1>1, <1>2, <1>3, <1>4

\* A new session finds what the last one left: its own image is not there yet.
LEMMA FoundLeft ==
  ASSUME NEW f, NEW g \in Seq(Nat \ {0}), NEW l \in Nat \ {0},
         \A s \in Nat : f[HEADER_SIZE] = Datum(s, 0) => s <= Len(g)
  PROVE  Found(f, Append(g, l)) = Found(f, g)
<1> DEFINE h == Append(g, l)
<1>1. /\ h \in Seq(Nat \ {0}) /\ Len(h) = Len(g) + 1 /\ Len(g) \in Nat
      /\ \A s \in 1 .. Len(g) : h[s] = g[s]
  OBVIOUS
<1> HIDE DEF h
<1>2. ASSUME NEW s \in 0 .. Len(g)
      PROVE  /\ s \in 0 .. Len(h)
             /\ Installed(f, h, s) <=> Installed(f, g, s)
             /\ Announced(f, h, s) <=> Announced(f, g, s)
  <2>1. SizeIn(h, s) = SizeIn(g, s)
    <3>1. s = 0 \/ s \in 1 .. Len(g) BY <1>1
    <3> QED BY <1>1, <3>1 DEF SizeIn
  <2>2. s \in 0 .. Len(h) BY <1>1
  <2> QED BY <2>1, <2>2, Zenon DEF Installed, Announced
<1>3. ASSUME NEW s \in 0 .. Len(h), Installed(f, h, s) \/ Announced(f, h, s)
      PROVE  s \in 0 .. Len(g)
  <2>1. f[HEADER_SIZE] = Datum(s, 0) BY <1>1, <1>3, WholeStarts DEF Installed, Announced
  <2>2. s \in Nat BY <1>1
  <2>3. s <= Len(g) BY <2>1, <2>2
  <2> QED BY <1>1, <2>2, <2>3
<1>4. /\ (\E s \in 0 .. Len(h) : Installed(f, h, s)) <=> (\E s \in 0 .. Len(g) : Installed(f, g, s))
      /\ (\E s \in 0 .. Len(h) : Announced(f, h, s)) <=> (\E s \in 0 .. Len(g) : Announced(f, g, s))
  BY <1>2, <1>3, Zenon
<1> QED BY <1>4, Zenon DEF Found, h

\* The images that the sessions were given are not empty.
LEMMA Given == ASSUME SessionInv PROVE lens \in Seq(Nat \ {0}) /\ Len(lens) \in Nat \ {0}
<1>1. lens \in Seq(Lengths) /\ Len(lens) \in 1 .. MaxSession /\ MaxSession \in Nat
  BY SslConstants DEF SessionInv, Shape
<1>2. \A i \in 1 .. Len(lens) : lens[i] \in Nat \ {0}
  <2>1. \A i \in 1 .. Len(lens) : lens[i] \in Lengths BY <1>1
  <2>2. Lengths \subseteq Nat \ {0} BY SslConstants
  <2> QED BY <2>1, <2>2
<1>3. lens \in [1 .. Len(lens) -> Nat \ {0}] BY <1>1, <1>2
<1> QED BY <1>1, <1>3, SMTT(30)

\* What an erase takes is not the current session's.
LEMMA ErasesOld ==
  ASSUME ServiceInv, loader.pc = "erase", flash[0] = Signature
  PROVE  Found(flash, lens) \notin {Service!None, Service!Half(Len(lens)),
                                    Service!Whole(Len(lens))}
<1>1. lens \in Seq(Nat \ {0}) BY Given DEF ServiceInv
<1>2. ASSUME NEW s \in 0 .. Len(lens),
             Installed(flash, lens, s) \/ Announced(flash, lens, s)
      PROVE  s # Len(lens)
  <2>1. StartsIn(s) BY <1>1, <1>2, WholeStarts DEF Installed, Announced, StartsIn
  <2> QED BY <1>1, <2>1 DEF ServiceInv, Fresh
<1>3. CASE \E s \in 0 .. Len(lens) : Installed(flash, lens, s)
  <2>1. PICK s \in 0 .. Len(lens) : Installed(flash, lens, s) BY <1>3
  <2>2. Found(flash, lens) = <<"whole", s>> BY <1>1, <2>1, FoundIs
  <2>3. s # Len(lens) BY <1>2, <2>1
  <2> QED BY <2>2, <2>3 DEF Service!None, Service!Half, Service!Whole
<1>4. CASE \E s \in 0 .. Len(lens) : Announced(flash, lens, s)
  <2>1. PICK s \in 0 .. Len(lens) : Announced(flash, lens, s) BY <1>4
  <2>2. Found(flash, lens) = <<"half", s>> BY <1>1, <2>1, FoundIs
  <2>3. s # Len(lens) BY <1>2, <2>1
  <2> QED BY <2>2, <2>3 DEF Service!None, Service!Half, Service!Whole
<1>5. CASE Found(flash, lens) = <<"torn", 0>>
  BY <1>5 DEF Service!None, Service!Half, Service!Whole
<1> QED BY <1>1, <1>3, <1>4, <1>5, FoundIs

\* An erase never gives the boot ROM an image, and takes no image of the
\* current session.
LEMMA EraseWipes ==
  ASSUME ServiceInv, EraseSector
  PROVE  Service!Wipe \/ Found(flash', lens') = Found(flash, lens)
<1>1. loader.pc = "erase" /\ UNCHANGED <<host, lens>> BY DEF EraseSector
<1>2. PICK i \in loader.todo :
        flash' = [c \in Cells |-> IF SectorOf(c) = i THEN Erased ELSE flash[c]]
  BY DEF EraseSector
<1>3. lens \in Seq(Nat \ {0}) BY Given DEF ServiceInv
<1>4. \A c \in Cells : flash'[c] # Erased => flash'[c] = flash[c] BY <1>2
<1>5. Reported # "done" /\ UNCHANGED <<Len(lens), Reported>>
  <2>1. loader.pc \notin Idle BY <1>1 DEF Idle
  <2>2. host.pc # "done" BY <2>1 DEF ServiceInv, SessionInv, Traffic, Asking
  <2> QED BY <1>1, <2>2 DEF Reported
<1>6. ASSUME flash[0] = Signature, Found(flash', lens') \in {Service!None, Service!Torn}
      PROVE  Service!Wipe
  <2>1. Found(flash, lens) \notin {Service!None, Service!Half(Len(lens)),
                                   Service!Whole(Len(lens))}
    BY <1>1, <1>6, ErasesOld
  <2> QED BY <1>5, <1>6, <2>1, Zenon DEF Service!Wipe, Service!None, Service!Torn
<1>7. CASE flash'[0] # Signature
  <2>1. Found(flash', lens') = <<"none", 0>> BY <1>7, Zenon DEF Found
  <2>2. flash[0] # Signature => Found(flash, lens) = <<"none", 0>> BY <1>3, FoundIs
  <2> QED BY <1>6, <2>1, <2>2, Zenon DEF Service!None
<1>8. CASE flash'[0] = Signature
  <2>1. flash[0] = Signature /\ flash'[1] = flash[1]
    BY <1>2, <1>8, HeaderSector, CellKinds
  <2>2. ASSUME NEW s \in 0 .. Len(lens), Holds(flash', s, SizeIn(lens, s))
        PROVE  Holds(flash, s, SizeIn(lens, s))
    <3>1. SizeIn(lens, s) \in Nat BY <1>3, SizeKnown
    <3>2. ASSUME NEW k \in 0 .. SizeIn(lens, s) - 1 PROVE flash[HEADER_SIZE + k] = Datum(s, k)
      <4>1. HEADER_SIZE + k \in Cells
        BY <2>2, <3>1, Geometry DEF Holds, Cells, HEADER_SIZE
      <4>2. flash'[HEADER_SIZE + k] = Datum(s, k) BY <2>2 DEF Holds
      <4> QED BY <1>4, <4>1, <4>2, CellKinds
    <3> QED BY <2>2, <3>2 DEF Holds
  <2>3. CASE \E s \in 0 .. Len(lens) : Installed(flash', lens, s)
    <3>1. PICK s \in 0 .. Len(lens) : Installed(flash', lens, s) BY <2>3
    <3>2. Installed(flash, lens, s) BY <2>1, <2>2, <3>1 DEF Installed
    <3> QED BY <1>1, <1>3, <3>1, <3>2, FoundIs
  <2>4. CASE \E s \in 0 .. Len(lens) : Announced(flash', lens, s)
    <3>1. PICK s \in 0 .. Len(lens) : Announced(flash', lens, s) BY <2>4
    <3>2. Announced(flash, lens, s) BY <2>1, <2>2, <3>1 DEF Announced
    <3> QED BY <1>1, <1>3, <3>1, <3>2, FoundIs
  <2>5. CASE Found(flash', lens) = <<"torn", 0>>
    BY <1>1, <1>6, <2>1, <2>5, Zenon DEF Service!Torn
  <2> QED BY <1>3, <1>8, <2>3, <2>4, <2>5, FoundIs
<1> QED BY <1>7, <1>8

\* The header goes over a whole image on a chip without one, its signature
\* first.
LEMMA ProgramCommits ==
  ASSUME ServiceInv, ProgramCell
  PROVE  \/ Service!Announce \/ Service!Complete
         \/ Found(flash', lens') = Found(flash, lens)
<1> DEFINE c == loader.addr + loader.done
<1>1. /\ loader.pc = "write" /\ loader.pc \notin Idle /\ c \in Cells
      /\ loader.addr \in Nat /\ loader.done \in Nat
      /\ UNCHANGED <<host, lens>>
      /\ flash'[c] = Program(flash[c], loader.data[loader.done + 1])
      /\ \A d \in Cells : d # c => flash'[d] = flash[d]
  BY ProgramsCell
<1>2. PICK s \in 1 .. Len(lens) : WritesImage(s) \/ WritesHeader(s)
  BY ProgramsCell
<1> HIDE DEF c
<1>3. lens \in Seq(Nat \ {0}) /\ s \in 0 .. Len(lens) BY Given DEF ServiceInv
<1>4. Reported # "done" /\ UNCHANGED <<Len(lens), Reported>>
  <2>1. host.pc # "done" BY <1>1 DEF ServiceInv, SessionInv, Traffic, Asking
  <2> QED BY <1>1, <2>1 DEF Reported
<1>5. CASE WritesImage(s)
  <2>1. loader.addr >= HEADER_SIZE /\ 0 # c
    BY <1>5 DEF WritesImage, ImageWrite, c, HEADER_SIZE
  <2>2. flash[0] = Erased BY <1>1, <2>1 DEF ServiceInv, Cleared, HeaderBlank
  <2>3. flash'[0] = Erased BY <1>1, <2>1, <2>2, HeaderSector
  <2> QED BY <1>1, <1>3, <2>2, <2>3, FoundIs, CellKinds
<1>6. CASE WritesHeader(s)
  <2>1. /\ loader.addr = 0 /\ loader.data = <<Signature, Length(lens[s])>>
        /\ c = loader.done /\ c \in {0, 1} /\ Holds(flash, s, lens[s])
    BY <1>1, <1>6 DEF WritesHeader, HeaderWrite, HEADER_SIZE, c
  <2>2. SizeIn(lens, s) = lens[s] /\ lens[s] \in Nat BY <1>3 DEF SizeIn
  <2>3. Holds(flash', s, SizeIn(lens, s))
    <3>1. \A d \in Cells : HEADER_SIZE <= d => flash'[d] = flash[d]
      BY <1>1, <2>1 DEF HEADER_SIZE
    <3> QED BY <2>1, <2>2, <3>1, HoldsKept
  <2>4. CASE c = 0
    <3>1. flash[0] = Erased /\ flash[1] = Erased
      BY <1>1, <2>1, <2>4 DEF ServiceInv, Cleared, HeaderBlank
    <3>2. flash'[0] = Signature /\ flash'[1] = Erased
      <4>1. loader.data[loader.done + 1] = Signature BY <2>1, <2>4
      <4> QED BY <1>1, <2>4, <3>1, <4>1, HeaderSector DEF Program
    <3>3. Found(flash, lens) = <<"none", 0>> BY <1>3, <3>1, FoundIs, CellKinds
    <3>4. Announced(flash', lens, s) BY <2>3, <3>2 DEF Announced
    <3>5. Found(flash', lens') = <<"half", s>> BY <1>1, <1>3, <3>4, FoundIs
    <3> QED BY <1>4, <3>3, <3>5, Zenon DEF Service!Announce, Service!None, Service!Half
  <2>5. CASE c = 1
    <3>1. flash[0] = Signature /\ flash[1] = Erased
      BY <1>1, <2>1, <2>5 DEF ServiceInv, Cleared, HEADER_SIZE
    <3>2. flash'[0] = Signature /\ flash'[1] = Length(lens[s])
      <4>1. loader.data[loader.done + 1] = Length(lens[s]) BY <2>1, <2>5
      <4> QED BY <1>1, <2>5, <3>1, <4>1, HeaderSector DEF Program
    <3>3. Announced(flash, lens, s) BY <2>1, <2>2, <3>1 DEF Announced
    <3>4. Installed(flash', lens, s) BY <2>2, <2>3, <3>2 DEF Installed
    <3>5. Found(flash, lens) = <<"half", s>> BY <1>3, <3>3, FoundIs
    <3>6. Found(flash', lens') = <<"whole", s>> BY <1>1, <1>3, <3>4, FoundIs
    <3> QED BY <1>4, <3>5, <3>6, Zenon DEF Service!Complete, Service!Half, Service!Whole
  <2> QED BY <2>1, <2>4, <2>5
<1> QED BY <1>2, <1>5, <1>6

\* A script that has ended says nothing more until it is run again.
LEMMA EndedStays ==
  ASSUME ServiceInv, [Next]_vars, ~NewSession
  PROVE  lens' = lens /\ (host.pc \in {"done", "failed"} => host' = host)
<1>1. lens' = lens
  BY DEF Next, LoaderStep, HostStep, vars, BootBanner, EnterCommandLoop, ReadDamagedFrame,
         EraseRequest, WriteRequest, CommitRequest, Request, EraseSector, ProgramCell,
         EraseDone, WriteDone, WaitForReady, SendErase, SendWrite, SendCommit, Send,
         ExpectConfirm, Timeout, DamageRequest, LoseAnswer, PowerLoss, Reboot
<1>2. ASSUME host.pc \in {"done", "failed"} PROVE host' = host
  <2>1. ~host.sent BY <1>2 DEF ServiceInv, SessionInv, Traffic, Asking
  <2>2. ~HostStep
    BY <1>2, <2>1
    DEF HostStep, WaitForReady, SendErase, SendWrite, SendCommit, ExpectConfirm, Timeout
  <2> QED
    BY <2>2
    DEF Next, LoaderStep, vars, BootBanner, EnterCommandLoop, ReadDamagedFrame,
        EraseRequest, WriteRequest, CommitRequest, Request, EraseSector, ProgramCell,
        EraseDone, WriteDone, DamageRequest, LoseAnswer, PowerLoss, Reboot
<1> QED BY <1>1, <1>2

\* Every step of flashing is one of the service's, or none that it sees.
LEMMA ServiceStep ==
  ASSUME ServiceInv, [Next]_vars
  PROVE  [Service!Next]_(Service!flashVars)
<1>1. SessionInv /\ SessionInv' /\ lens \in Seq(Nat \ {0})
  BY SessionStep, Given DEF ServiceInv
<1>2. CASE EraseSector
  <2>1. UNCHANGED <<Len(lens), Reported>> BY <1>2 DEF EraseSector, Reported
  <2> QED BY <1>2, <2>1, EraseWipes, Zenon DEF Service!Next, Service!flashVars
<1>3. CASE ProgramCell
  <2>1. UNCHANGED <<Len(lens), Reported>> BY <1>3 DEF ProgramCell, Reported
  <2> QED BY <1>3, <2>1, ProgramCommits, Zenon DEF Service!Next, Service!flashVars
<1>4. CASE NewSession
  <2>1. flash' = flash /\ host.pc \in {"done", "failed"} /\ host' = Host("ready", 0)
    BY <1>4 DEF NewSession
  <2>2. PICK l \in Lengths : lens' = Append(lens, l) BY <1>4 DEF NewSession
  <2>3. l \in Nat \ {0} BY SslConstants
  <2>4. \A s \in Nat : flash[HEADER_SIZE] = Datum(s, 0) => s <= Len(lens)
    BY DEF ServiceInv, Owned, StartsIn
  <2>5. Found(flash', lens') = Found(flash, lens)
    BY <1>1, <2>1, <2>2, <2>3, <2>4, FoundLeft
  <2>6. Len(lens') = Len(lens) + 1 BY <1>1, <2>2
  <2>7. Reported # "running" /\ Reported' = "running" BY <2>1 DEF Reported, Host
  <2>8. Service!Again BY <2>5, <2>6, <2>7, Zenon DEF Service!Again
  <2> QED BY <2>8, Zenon DEF Service!Next
<1>5. CASE ~EraseSector /\ ~ProgramCell /\ ~NewSession
  <2>1. flash' = flash /\ lens' = lens BY <1>5, RomAlone, EndedStays
  <2>2. Found(flash', lens') = Found(flash, lens) /\ Len(lens') = Len(lens) BY <2>1
  <2>3. CASE Reported' = Reported BY <2>2, <2>3 DEF Service!flashVars
  <2>4. CASE Reported' # Reported
    <3>1. Reported = "running" /\ Reported' \in {"done", "failed"}
      BY <1>5, <2>4, EndedStays DEF Reported
    <3>2. CASE Reported' = "failed"
      <4>1. Service!Fail BY <2>2, <3>1, <3>2, Zenon DEF Service!Fail
      <4> QED BY <4>1, Zenon DEF Service!Next
    <3>3. CASE Reported' = "done"
      <4>1. host'.pc = "done" BY <3>3 DEF Reported
      <4>2. image' = image BY <2>1 DEF image
      <4>3. Installed(flash, lens, Len(lens))
        <5>1. /\ flash[0] = Signature /\ flash[1] = Length(image.len)
              /\ Holds(flash, image.id, image.len)
          BY <1>1, <2>1, <4>1, <4>2 DEF SessionInv, Progress
        <5>2. image.id = Len(lens) /\ image.len = SizeIn(lens, Len(lens))
          BY <1>1, ImageIs DEF SizeIn, SessionInv
        <5> QED BY <5>1, <5>2 DEF Installed
      <4>4. Found(flash, lens) = <<"whole", Len(lens)>>
        <5>1. Len(lens) \in 0 .. Len(lens) BY <1>1
        <5> QED BY <1>1, <4>3, <5>1, FoundIs
      <4>5. Service!Succeed
        BY <2>2, <3>1, <3>3, <4>4, Zenon DEF Service!Succeed, Service!Whole
      <4> QED BY <4>5, Zenon DEF Service!Next
    <3> QED BY <3>1, <3>2, <3>3
  <2> QED BY <2>3, <2>4
<1> QED BY <1>2, <1>3, <1>4, <1>5

\* Flashing implements the service it promises, for every part, chunk, image
\* and number of sessions: the chip holds the old image, then none, then the
\* new one; no image is changed in place; and after "All done" nothing but
\* another session takes the image away (flash_image; the loader's command
\* loop and its erase of the whole chip).
THEOREM FlashingImplementsService == Spec => ImplementsFlashService
<1>1. Init => Service!Init
  <2> SUFFICES ASSUME Init PROVE Service!Init
    OBVIOUS
  <2>1. SessionInv /\ ServiceInv BY ServiceStarts DEF ServiceInv
  <2>2. lens \in Seq(Nat \ {0}) /\ Len(lens) = 1 /\ Reported = "running"
    <3>1. \E l \in Lengths : lens = <<l>> BY DEF Init
    <3>2. host.pc = "ready" BY DEF Init, Host
    <3> QED BY <2>1, <3>1, <3>2, Given DEF Reported
  <2>3. flash[1] # Erased \/ flash[0] # Signature
    BY HeaderSector, CellKinds, SMTT(30) DEF Init
  <2>4. ASSUME NEW s \in 0 .. Len(lens), Installed(flash, lens, s)
        PROVE  s = 0
    <3>1. flash[HEADER_SIZE] = Datum(s, 0) BY <2>2, <2>4, WholeStarts DEF Installed
    <3> QED BY <2>2, <3>1, StartedOld DEF StartsIn
  <2>5. Found(flash, lens) \in {<<"none", 0>>, <<"torn", 0>>, <<"whole", 0>>}
    <3>1. CASE flash[0] # Signature BY <2>2, <3>1, FoundIs
    <3>2. CASE \E s \in 0 .. Len(lens) : Installed(flash, lens, s)
      <4>1. PICK s \in 0 .. Len(lens) : Installed(flash, lens, s) BY <3>2
      <4>2. s = 0 BY <2>4, <4>1
      <4>3. Found(flash, lens) = <<"whole", s>> BY <2>2, <4>1, FoundIs
      <4> QED BY <4>2, <4>3
    <3>3. CASE flash[0] = Signature /\ ~\E s \in 0 .. Len(lens) : Installed(flash, lens, s)
      <4>1. ~\E s \in 0 .. Len(lens) : Announced(flash, lens, s)
        BY <2>3, <3>3 DEF Announced
      <4> QED BY <2>2, <3>3, <4>1, FoundIs
    <3> QED BY <3>1, <3>2, <3>3
  <2> QED
    BY <2>2, <2>5 DEF Service!Init, Service!None, Service!Torn, Service!Whole
<1>2. Init => ServiceInv BY ServiceStarts
<1>3. ServiceInv /\ [Next]_vars => ServiceInv' BY ServiceInvStep
<1>4. ServiceInv /\ [Next]_vars => [Service!Next]_(Service!flashVars) BY ServiceStep
<1> QED BY <1>1, <1>2, <1>3, <1>4, PTL DEF Spec, ImplementsFlashService, Service!Spec
=============================================================================
