----------------------------- MODULE SslSession -----------------------------
(***************************************************************************)
(* One flashing session after another: the host scripts (flash_host.py,   *)
(* ssl_protocol.py) send Erase, Write and Commit requests over a UART, the *)
(* second stage loader (mc1322x-ssl/src/main.rs) serves them through       *)
(* mc1322x-hal's Nvm and the boot ROM's flash routines.  Frames and        *)
(* answers are damaged or lost, flash operations fail, the board loses     *)
(* power between any two flash cells.                                      *)
(*                                                                         *)
(* The flash is an array of cells, a cell standing for a few bytes.  A     *)
(* header is two cells, the signature and the length, so that the write of *)
(* a header can be cut between them.                                       *)
(***************************************************************************)
EXTENDS Naturals, Sequences, FiniteSets, SequencesExt

CONSTANTS
  SECTOR,       \* cells per erase sector (4096 bytes in the code)
  SECTORS,      \* sectors of the part, the reserved last one included
  CHUNK,        \* cells the host writes per request (CHUNK_SIZE)
  Lengths,      \* the lengths of the images the host is given
  MaxSession,   \* bound: sessions
  MaxFaults     \* bound: failures of the wire, the flash, the supply, the operator

ASSUME SslConstants ==
  /\ {SECTOR, CHUNK, MaxSession} \subseteq Nat \ {0}
  /\ SECTORS \in Nat \ {0, 1}
  /\ MaxFaults \in Nat
  /\ SECTOR >= 2
  /\ Lengths \subseteq Nat \ {0}

VARIABLES
  flash,    \* the cells of the serial flash
  loader,   \* the loader: where it is, the sectors and cells it works on
  host,     \* the script: where it is, its offset, whether it awaits an answer
  lens,     \* the length of each session's image, the current one last
  toLoader, \* request frames on the wire
  toHost,   \* banners and answers on the wire
  faults    \* failures still to come

vars == <<flash, loader, host, lens, toLoader, toHost, faults>>

CAPACITY == SECTORS * SECTOR
HEADER_SIZE == 2
Cells == 0 .. CAPACITY - 1

\* The contents of a cell.  Values all have one shape so that they compare.
Erased == <<"erased", 0, 0>>
Damaged == <<"damaged", 0, 0>>
Signature == <<"signature", 0, 0>>
Length(l) == <<"length", l, 0>>
Datum(s, k) == <<"image", s, k>>

SectorOf(c) == c \div SECTOR
ReservedSector == SECTORS - 1
Fits(l) == HEADER_SIZE + l <= ReservedSector * SECTOR

ImageCells(s, from, len) == [k \in 1 .. len |-> Datum(s, from + k - 1)]

\* flash holds the whole of image s, of length l, behind the header.
Holds(f, s, l) == /\ HEADER_SIZE + l <= CAPACITY
                  /\ \A k \in 0 .. l - 1 : f[HEADER_SIZE + k] = Datum(s, k)

-----------------------------------------------------------------------------
(* Nvm and the ROM.  Programming a cell can only clear bits, and nvm_write *)
(* compares what it wrote with what it was given.                          *)

CheckWrite(addr, data) == addr + Len(data) <= CAPACITY
CheckErase(from, to) == /\ from % SECTOR = 0 /\ to % SECTOR = 0
                        /\ from <= to /\ to <= CAPACITY

\* MUTANT: the fold includes the end of the range.
MutSectorBitfieldInclusive(from, to) ==
  {from \div SECTOR + i : i \in 0 .. (to - from) \div SECTOR}

\* MUTANT: the last sector of the range is left out.
MutSectorBitfieldShort(from, to) ==
  {from \div SECTOR + i : i \in 0 .. (to - from) \div SECTOR - 1}
    \ {to \div SECTOR - 1}

\* Nvm::erase turns the range into the bitfield of its sectors.
SectorBitfield(from, to) ==
  {from \div SECTOR + i : i \in 0 .. (to - from) \div SECTOR - 1}

Program(old, v) == IF old \in {Erased, v} THEN v ELSE Damaged

Verifies(addr, data) ==
  \A k \in 1 .. Len(data) : flash[addr + k - 1] = data[k]

-----------------------------------------------------------------------------
Loader(pc) == [pc |-> pc, todo |-> {}, addr |-> 0, data |-> <<>>, done |-> 0]
Host(pc, offset) == [pc |-> pc, offset |-> offset, sent |-> FALSE]

\* A chip as it comes: blank, or with an older image, and the reserved
\* sector with or without factory contents.
Init ==
  /\ flash \in {[c \in Cells |->
                   IF SectorOf(c) = ReservedSector
                     THEN IF factory THEN Datum(0, c) ELSE Erased
                   ELSE IF blank THEN Erased
                   ELSE IF c = 0 THEN Signature
                   ELSE IF c = 1 THEN Length(1)
                   ELSE IF c = 2 THEN Datum(0, 0) ELSE Erased] :
                 blank, factory \in BOOLEAN}
  /\ loader = Loader("boot")
  /\ host = Host("ready", 0)
  /\ \E l \in Lengths : lens = <<l>>
  /\ toLoader = <<>>
  /\ toHost = <<>>
  /\ faults = MaxFaults

-----------------------------------------------------------------------------
(* The loader.                                                             *)

Fault == faults > 0 /\ faults' = faults - 1

Confirm(status) == toHost' = Append(toHost, status)

\* Start-up: "NVM_READY" and the probe read come before the "READY" that
\* opens the command loop.
BootBanner ==
  /\ loader.pc = "boot"
  /\ loader' = Loader("probe")
  /\ Confirm("NVM_READY")
  /\ UNCHANGED <<flash, host, lens, toLoader, faults>>

EnterCommandLoop ==
  /\ loader.pc = "probe"
  /\ loader' = Loader("loop")
  /\ Confirm("READY")
  /\ UNCHANGED <<flash, host, lens, toLoader, faults>>

Request(cmd) ==
  /\ loader.pc = "loop"
  /\ toLoader # <<>>
  /\ Head(toLoader).cmd = cmd
  /\ Head(toLoader).damage = "none"
  /\ toLoader' = Tail(toLoader)
  /\ UNCHANGED <<flash, host, lens, faults>>

\* read_frame on a damaged frame.  A changed byte is answered.  A length
\* beyond the buffer is dropped without a word and what follows it is scanned
\* for the next SOF: a byte of that value starts another frame, which fails
\* its checksum or is not complete.  A frame with bytes missing keeps
\* read_exact waiting for them.
ReadDamagedFrame ==
  /\ loader.pc = "loop"
  /\ toLoader # <<>>
  /\ toLoader' = Tail(toLoader)
  /\ LET damage == Head(toLoader).damage
     IN  \/ damage \in {"flipped", "oversize"} /\ Confirm("CRC_ERROR") /\ UNCHANGED loader
         \/ damage = "oversize" /\ UNCHANGED <<toHost, loader>>
         \/ damage \in {"short", "oversize"} /\ loader' = Loader("reading") /\ UNCHANGED toHost
  /\ UNCHANGED <<flash, host, lens, faults>>

\* The address 0xFFFFFFFF erases all but the reserved sector.
EraseRequest ==
  /\ Request("erase")
  /\ LET to == ReservedSector * SECTOR
     IN  IF CheckErase(0, to)
           THEN /\ loader' = [Loader("erase") EXCEPT !.todo = SectorBitfield(0, to)]
                /\ UNCHANGED toHost
           ELSE Confirm("EXEC_ERROR") /\ UNCHANGED loader

StartWrite(addr, data) ==
  IF CheckWrite(addr, data)
    THEN /\ loader' = [Loader("write") EXCEPT !.addr = addr, !.data = data]
         /\ UNCHANGED toHost
    ELSE Confirm("WRITE_ERROR") /\ UNCHANGED loader

WriteRequest ==
  /\ Request("write")
  /\ StartWrite(Head(toLoader).addr, Head(toLoader).data)

\* Commit writes the signature and the length with one nvm.write(0, header).
CommitRequest ==
  /\ Request("commit")
  /\ StartWrite(0, <<Signature, Length(Head(toLoader).addr)>>)

\* The ROM erases the sectors of the bitfield in an order of its own.
EraseSector ==
  /\ loader.pc = "erase"
  /\ \E s \in loader.todo :
       /\ loader' = [loader EXCEPT !.todo = @ \ {s}]
       /\ flash' = [c \in Cells |-> IF SectorOf(c) = s THEN Erased ELSE flash[c]]
  /\ UNCHANGED <<host, lens, toLoader, toHost, faults>>

ProgramCell ==
  /\ loader.pc = "write"
  /\ loader.done < Len(loader.data)
  /\ LET c == loader.addr + loader.done
     IN  flash' = [flash EXCEPT ![c] = Program(@, loader.data[loader.done + 1])]
  /\ loader' = [loader EXCEPT !.done = @ + 1]
  /\ UNCHANGED <<host, lens, toLoader, toHost, faults>>

\* The ROM routine returns; a failing part makes it return an error.
EraseDone ==
  /\ loader.pc = "erase"
  /\ \/ loader.todo = {} /\ Confirm("SUCCESS") /\ UNCHANGED faults
     \/ Confirm("EXEC_ERROR") /\ Fault
  /\ loader' = Loader("loop")
  /\ UNCHANGED <<flash, host, lens, toLoader>>

\* nvm_write fails at any cell, or finds at its end what it did not write.
WriteDone ==
  /\ loader.pc = "write"
  /\ \/ /\ loader.done = Len(loader.data)
        /\ Confirm(IF Verifies(loader.addr, loader.data) THEN "SUCCESS" ELSE "WRITE_ERROR")
        /\ UNCHANGED faults
     \/ Confirm("WRITE_ERROR") /\ Fault
  /\ loader' = Loader("loop")
  /\ UNCHANGED <<flash, host, lens, toLoader>>

-----------------------------------------------------------------------------
(* The host: flash_image, with every request followed by expect_confirm.   *)

image == [id |-> Len(lens), len |-> Last(lens)]

Send(cmd, addr, data) ==
  /\ ~host.sent
  /\ toLoader' = IF loader.pc = "off" THEN toLoader
                 ELSE Append(toLoader, [cmd |-> cmd, addr |-> addr, data |-> data,
                                        damage |-> "none"])
  /\ host' = [host EXCEPT !.sent = TRUE]
  /\ UNCHANGED <<flash, loader, lens, toHost, faults>>

\* wait_for_ready: any banner that contains "READY" will do.
WaitForReady ==
  /\ host.pc = "ready"
  /\ toHost # <<>>
  /\ toHost' = Tail(toHost)
  /\ host' = IF Head(toHost) \in {"NVM_READY", "READY"}
               THEN Host("erase", 0) ELSE host
  /\ UNCHANGED <<flash, loader, lens, toLoader, faults>>

SendErase == host.pc = "erase" /\ Send("erase", 0, <<>>)

\* The next chunk, at its place behind the header.
ChunkLen(offset) == IF image.len - offset < CHUNK THEN image.len - offset ELSE CHUNK
FlashAddr(offset) == HEADER_SIZE + offset

SendWrite ==
  /\ host.pc = "write"
  /\ Send("write", FlashAddr(host.offset),
          ImageCells(image.id, host.offset, ChunkLen(host.offset)))

SendCommit == host.pc = "commit" /\ Send("commit", image.len, <<>>)

\* What the host does once its request is confirmed.
Advanced ==
  CASE host.pc = "erase"  -> Host("write", 0)
    [] host.pc = "write"  ->
         LET next == host.offset + ChunkLen(host.offset)
         IN  Host(IF next < image.len THEN "write" ELSE "commit", next)
    [] host.pc = "commit" -> Host("done", host.offset)

\* MUTANT: any Confirm counts, whatever its status.
MutExpectConfirmAny ==
  /\ host.sent
  /\ toHost # <<>>
  /\ toHost' = Tail(toHost)
  /\ host' = IF Head(toHost) \in {"NVM_READY", "READY"} THEN host ELSE Advanced
  /\ UNCHANGED <<flash, loader, lens, toLoader, faults>>

\* expect_confirm: skips what is no frame, raises on any status but success.
ExpectConfirm ==
  /\ host.sent
  /\ toHost # <<>>
  /\ toHost' = Tail(toHost)
  /\ host' = CASE Head(toHost) \in {"NVM_READY", "READY"} -> host
               [] Head(toHost) = "SUCCESS" -> Advanced
               [] OTHER -> Host("failed", host.offset)
  /\ UNCHANGED <<flash, loader, lens, toLoader, faults>>

\* The timeouts (10 s, 200 s, 20 s) outlast every step of a board that works,
\* and the loader's start-up and the reading of a frame in any case.
Quiet == toLoader = <<>> /\ toHost = <<>> /\ loader.pc \in {"off", "loop", "reading"}

\* MUTANT: a script that times out sends its request again.
MutTimeoutRetries ==
  /\ host.sent
  /\ \/ Quiet /\ UNCHANGED faults
     \/ toLoader = <<>> /\ Fault
  /\ host' = [host EXCEPT !.sent = FALSE]
  /\ UNCHANGED <<flash, loader, lens, toLoader, toHost>>

Timeout ==
  /\ host.sent \/ host.pc = "ready"
  /\ \/ Quiet /\ UNCHANGED faults
     \/ toLoader = <<>> /\ Fault
  /\ host' = Host("failed", host.offset)
  /\ UNCHANGED <<flash, loader, lens, toLoader, toHost>>

-----------------------------------------------------------------------------
(* The wire, the supply and the operator.                                  *)

DamageRequest ==
  /\ Fault
  /\ toLoader # <<>>
  /\ Head(toLoader).damage = "none"
  /\ \/ \E d \in {"flipped", "oversize", "short"} :
          toLoader' = [toLoader EXCEPT ![1].damage = d]
     \/ toLoader' = Tail(toLoader)
  /\ UNCHANGED <<flash, loader, host, lens, toHost>>

\* An answer damaged or lost on the way is ignored by read_frame, and so is
\* one that follows the "U" of a rebooted loader's "UART_OK" too closely.
LoseAnswer ==
  /\ Fault
  /\ toHost # <<>>
  /\ toHost' = Tail(toHost)
  /\ UNCHANGED <<flash, loader, host, lens, toLoader>>

PowerLoss ==
  /\ Fault
  /\ loader.pc # "off"
  /\ loader' = Loader("off")
  /\ toLoader' = <<>>
  /\ UNCHANGED <<flash, host, lens, toHost>>

\* The loader is loaded again, the script of the old session still waiting.
Reboot ==
  /\ loader.pc = "off"
  /\ loader' = Loader("boot")
  /\ UNCHANGED <<flash, host, lens, toLoader, toHost, faults>>

\* The script is run again with another image.  Opening the port drops old
\* input; the operator resets the board, or forgets to.
NewSession ==
  /\ host.pc \in {"done", "failed"}
  /\ Len(lens) < MaxSession
  /\ \E l \in Lengths : lens' = Append(lens, l)
  /\ host' = Host("ready", 0)
  /\ toHost' = <<>>
  /\ \/ loader' = Loader("boot") /\ toLoader' = <<>>
        /\ UNCHANGED faults
     \/ Fault /\ UNCHANGED <<loader, toLoader>>
  /\ UNCHANGED flash

-----------------------------------------------------------------------------
LoaderStep == \/ BootBanner \/ EnterCommandLoop \/ ReadDamagedFrame
              \/ EraseRequest \/ WriteRequest \/ CommitRequest
              \/ EraseSector \/ ProgramCell \/ EraseDone \/ WriteDone
HostStep == \/ WaitForReady \/ SendErase \/ SendWrite \/ SendCommit
            \/ ExpectConfirm \/ Timeout

Next == LoaderStep \/ HostStep
        \/ DamageRequest \/ LoseAnswer \/ PowerLoss \/ Reboot \/ NewSession

Spec == Init /\ [][Next]_vars
\* A powered loader runs its loop; a script runs to its end or its timeouts.
FairSpec == Spec /\ WF_vars(LoaderStep) /\ WF_vars(HostStep)

-----------------------------------------------------------------------------
\* "All done" is true: a script that got its last Confirm left a header and
\* the whole image of its own session in flash, whatever happened to
\* earlier sessions, and nobody touches them afterwards (flash_image).
DoneMeansFlashed ==
  host.pc = "done" =>
    /\ flash[0] = Signature
    /\ flash[1] = Length(image.len)
    /\ Holds(flash, image.id, image.len)

\* The signature is programmed only when the whole image it announces is
\* already there (flash_image commits last, the loader writes nothing it was
\* not asked for).  It says nothing of an erase: power lost half way through
\* one can leave an old header over erased sectors.
SignatureOnlyOnWhole ==
  [][flash[0] # Signature /\ flash'[0] = Signature =>
       \E s \in 1 .. MaxSession, l \in Lengths :
         loader.data[2] = Length(l) /\ Holds(flash, s, l)]_vars

\* An image that leaves room for the reserved last sector never changes it
\* (the erase of the whole chip excludes it).
ReservedKept ==
  [][(\E c \in Cells : SectorOf(c) = ReservedSector /\ flash'[c] # flash[c])
       => \E s \in DOMAIN lens : /\ ~Fits(lens[s])
                                 /\ \E k \in Cells : Contains(loader.data, Datum(s, k))]_vars

\* Once nothing fails any more, a session on a freshly loaded board whose
\* image fits ends with "All done", whatever torn state the sessions before
\* it left in flash.
SessionSucceeds ==
  (faults = 0 /\ host.pc = "ready" /\ loader.pc = "boot" /\ Fits(image.len))
    ~> (host.pc = "done")

-----------------------------------------------------------------------------
\* What the boot ROM finds in flash f, after sessions with images of the given
\* lengths: the header and the image of session s, or that image behind a
\* header that ends with its signature.  0 is the image the chip came with.
SizeIn(given, s) == IF s = 0 THEN 1 ELSE given[s]
Installed(f, given, s) ==
  f[0] = Signature /\ f[1] = Length(SizeIn(given, s)) /\ Holds(f, s, SizeIn(given, s))
Announced(f, given, s) ==
  f[0] = Signature /\ f[1] = Erased /\ Holds(f, s, SizeIn(given, s))

Found(f, given) ==
  LET id == f[HEADER_SIZE][2]
  IN  IF f[0] # Signature THEN <<"none", 0>>
      ELSE IF \E s \in 0 .. Len(given) : Installed(f, given, s) THEN <<"whole", id>>
      ELSE IF \E s \in 0 .. Len(given) : Announced(f, given, s) THEN <<"half", id>>
      ELSE <<"torn", 0>>

Reported == IF host.pc \in {"done", "failed"} THEN host.pc ELSE "running"

Service == INSTANCE FlashService WITH
  chip <- Found(flash, lens), session <- Len(lens), report <- Reported

\* Flashing implements the service it promises: old image, no image, new
\* image, whatever is lost, fails or is forgotten on the way (flash_image, the
\* loader's command loop).
ImplementsFlashService == Service!Spec
=============================================================================
