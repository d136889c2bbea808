------------------------------ MODULE AesProofs ------------------------------
(***************************************************************************)
(* AES-CCM for every block size, every message whose chunks a counter can  *)
(* number and every split of associated data whose length fits its prefix: *)
(* an operation is taken for finished only when it is, no counter block is *)
(* used twice, the MAC covers all it should, and what one side encrypts    *)
(* the other accepts unless it was altered.                                *)
(***************************************************************************)
EXTENDS AesCcm, FiniteSetTheorems, SequenceLemmas

(***************************************************************************)
(* The engine and the task that waits for it.                              *)
(***************************************************************************)
\* Nothing is left of any operation: neither the engine's completion nor the
\* task's registration, wake or guard.
Clean == ~busy /\ ~done /\ ~irq /\ ~guard /\ ~woken /\ ~waker

\* One operation at a time, with its interrupt masked in the blocking version
\* and latched together with DONE in the async one.
OneOperation == ~(busy /\ done)

EngineInv ==
    /\ pc \in {"idle", "spin", "started", "armed", "ready"}
    /\ async \in BOOLEAN
    /\ {mask, busy, done, irq, guard, woken, waker} \subseteq BOOLEAN
    /\ OneOperation
    /\ pc \in {"idle", "ready"} => Clean
    /\ pc = "spin" => mask /\ ~irq /\ ~guard /\ ~woken /\ ~waker
    /\ pc \in {"started", "armed"} => ~mask /\ (irq <=> done)
    /\ pc = "started" => ~guard /\ ~woken /\ ~waker
    /\ pc = "armed" =>
         /\ guard /\ (waker <=> ~woken)
         /\ woken => ~busy /\ ~done

\* Before the first operation the engine is clean: none runs, none is done and
\* nobody waits for one.
LEMMA EngineStarts == ASSUME CcmInit PROVE EngineInv
BY Zenon DEF CcmInit, Init, EngineInv, OneOperation, Clean

\* An operation starts on a clean engine, with its interrupt masked or not.
LEMMA StartStep ==
  ASSUME EngineInv, NEW req, StartOp(req, async), async' = async
  PROVE  EngineInv'
<1>1. Clean /\ async \in BOOLEAN /\ {mask, busy, done, irq, guard, woken, waker} \subseteq BOOLEAN
  BY DEF EngineInv, StartOp
<1>2. /\ mask' = ~async /\ busy' = TRUE
      /\ done' = done /\ irq' = irq /\ waker' = waker /\ woken' = woken /\ guard' = guard
  BY DEF StartOp, wait
<1>3. IF async THEN pc' = "started" ELSE pc' = "spin" BY <1>1 DEF StartOp
<1>4. CASE async
  BY <1>1, <1>2, <1>3, <1>4 DEF EngineInv, OneOperation, Clean
<1>5. CASE ~async
  BY <1>1, <1>2, <1>3, <1>5 DEF EngineInv, OneOperation, Clean
<1> QED BY <1>4, <1>5

\* The engine, its interrupt and the task's polls.
LEMMA EngineStepKeeps ==
  ASSUME OtherWakes = FALSE, EngineInv, EngineStep, async' = async
  PROVE  EngineInv'
<1>1. CASE HwComplete
  <2>1. /\ busy /\ ~busy' /\ done' /\ (irq' <=> irq \/ ~mask)
        /\ irq' = (irq \/ ~mask) /\ busy' = FALSE /\ done' = TRUE
        /\ mask' = mask /\ waker' = waker /\ woken' = woken /\ guard' = guard /\ pc' = pc
    BY <1>1 DEF HwComplete, wait
  <2>2. pc \in {"spin", "started", "armed"} /\ ~done
    BY <2>1 DEF EngineInv, Clean, OneOperation
  <2>3. CASE pc = "spin"
    BY <2>1, <2>3 DEF EngineInv, OneOperation
  <2>4. CASE pc = "started"
    BY <2>1, <2>4 DEF EngineInv, OneOperation
  <2>5. CASE pc = "armed"
    BY <2>1, <2>5 DEF EngineInv, OneOperation
  <2> QED BY <2>2, <2>3, <2>4, <2>5
<1>2. CASE AsmIsr
  <2>1. /\ irq /\ irq' = FALSE /\ done' = FALSE /\ waker' = FALSE
        /\ woken' = (woken \/ waker)
        /\ mask' = mask /\ busy' = busy /\ guard' = guard /\ pc' = pc
    BY <1>2 DEF AsmIsr, regs
  <2>2. pc \in {"started", "armed"} /\ done /\ ~busy
    BY <2>1 DEF EngineInv, Clean, OneOperation
  <2>3. CASE pc = "started"
    BY <2>1, <2>2, <2>3 DEF EngineInv, OneOperation
  <2>4. CASE pc = "armed"
    BY <2>1, <2>2, <2>4 DEF EngineInv, OneOperation
  <2> QED BY <2>2, <2>3, <2>4
<1>3. CASE SpinPoll
  <2>1. /\ pc = "spin" /\ done /\ done' = FALSE /\ irq' = FALSE /\ mask' = TRUE
        /\ busy' = busy /\ waker' = waker /\ woken' = woken /\ guard' = guard
        /\ pc' = "ready"
    BY <1>3 DEF SpinPoll, PollDone, wait
  <2> QED BY <2>1 DEF EngineInv, OneOperation, Clean
<1>4. CASE FirstPoll
  <2>1. CASE PollDone /\ pc' = "ready" /\ UNCHANGED wait
    <3>1. /\ pc = "started" /\ done /\ done' = FALSE /\ irq' = FALSE /\ mask' = TRUE
          /\ busy' = busy /\ waker' = waker /\ woken' = woken /\ guard' = guard
          /\ pc' = "ready"
      BY <1>4, <2>1 DEF FirstPoll, PollDone, wait
    <3> QED BY <3>1 DEF EngineInv, OneOperation, Clean
  <2>2. CASE /\ ~done
             /\ guard' = TRUE /\ waker' = TRUE /\ pc' = "armed"
             /\ UNCHANGED <<regs, hw, woken>>
    <3>1. pc = "started" /\ mask' = mask /\ busy' = busy /\ done' = done /\ irq' = irq
      BY <1>4, <2>2 DEF FirstPoll, regs, hw
    <3> QED BY <2>2, <3>1 DEF EngineInv, OneOperation
  <2> QED BY <1>4, <2>1, <2>2 DEF FirstPoll
<1>5. CASE SecondPoll
  <2>1. /\ pc = "armed" /\ woken /\ woken' = FALSE /\ guard' = FALSE /\ pc' = "ready"
        /\ mask' = mask /\ busy' = busy /\ done' = done /\ irq' = irq /\ waker' = waker
    BY <1>5 DEF SecondPoll, regs, hw
  <2> QED BY <2>1 DEF EngineInv, OneOperation, Clean
<1> QED BY <1>1, <1>2, <1>3, <1>4, <1>5 DEF EngineStep

\* The jobs' other steps leave the engine alone.
LEMMA EngineUntouched ==
  ASSUME EngineInv, UNCHANGED vars, async' \in BOOLEAN
  PROVE  EngineInv'
BY DEF EngineInv, vars, regs, hw, wait, OneOperation, Clean

\* Every step of CCM keeps the engine's invariant: it starts an operation on
\* a clean engine, or leaves the engine alone.
LEMMA EngineCcmStep ==
  ASSUME OtherWakes = FALSE, EngineInv, [CcmNext]_ccmVars
  PROVE  EngineInv'
<1> USE DEF job
<1>1. async \in BOOLEAN BY DEF EngineInv
<1>2. CASE EngineStep /\ UNCHANGED job BY <1>2, EngineStepKeeps
<1>3. CASE MacB0 BY <1>3, StartStep DEF MacB0, CbcMacBlock
<1>4. CASE FeedPadded
  BY <1>1, <1>4, StartStep, EngineUntouched DEF FeedPadded, CbcMacBlock
<1>5. CASE FlushAad
  BY <1>1, <1>5, StartStep, EngineUntouched DEF FlushAad, CbcMacBlock
<1>6. CASE MacMessage BY <1>6, StartStep DEF MacMessage, CbcMacBlock
<1>7. CASE MacResult BY <1>1, <1>7, EngineUntouched DEF MacResult
<1>8. CASE MaskTag BY <1>8, StartStep DEF MaskTag, CtrBlock
<1>9. CASE CtrCrypt BY <1>9, StartStep DEF CtrCrypt, CtrBlock
<1>10. CASE OpDone
  <2>1. pc = "ready" /\ pc' = "idle" /\ UNCHANGED <<regs, hw, wait, async>>
    BY <1>10 DEF OpDone
  <2> QED BY <2>1 DEF EngineInv, regs, hw, wait, OneOperation, Clean
<1>11. CASE EncryptMessage \/ Encrypted \/ Receive \/ Decrypted \/ VerifyTag
  BY <1>1, <1>11, EngineUntouched
  DEF EncryptMessage, Encrypted, Receive, Decrypted, VerifyTag
<1>12. CASE UNCHANGED ccmVars BY <1>1, <1>12, EngineUntouched DEF ccmVars
<1> QED
  BY <1>2, <1>3, <1>4, <1>5, <1>6, <1>7, <1>8, <1>9, <1>10, <1>11, <1>12 DEF CcmNext

\* A task that waits for nothing else reads a result only once the engine has
\* finished that very operation, blocking or async, and leaves the engine, the
\* interrupt and the sleep guards clean for the next one
\* (aes.rs: start_and_wait, start_and_wait_async, poll_done_status, asm_isr).
THEOREM CompletionIsOwn ==
  ASSUME OtherWakes = FALSE
  PROVE  CcmSpec => []OwnCompletion
<1>1. CcmInit => EngineInv BY EngineStarts
<1>2. EngineInv /\ [CcmNext]_ccmVars => EngineInv' BY EngineCcmStep
<1>3. EngineInv => OwnCompletion BY DEF EngineInv, OwnCompletion, Clean
<1> QED BY <1>1, <1>2, <1>3, PTL DEF CcmSpec

(***************************************************************************)
(* The counters.                                                           *)
(***************************************************************************)
\* The next chunk of the message has the next block number.
LEMMA NextBlock ==
  ASSUME NEW p \in Nat
  PROVE  /\ p \div BLOCK \in Nat
         /\ (p + BLOCK) \div BLOCK = p \div BLOCK + 1
         /\ 0 \div BLOCK = 0
BY AesAssumption

\* The length of the message is one of those that fit, throughout.
LengthInv == DOMAIN msg = 1 .. Len(msg) /\ Len(msg) \in MessageLens

\* Before the first operation the message is the caller's.
LEMMA LengthStarts == ASSUME CcmInit PROVE LengthInv
<1>1. PICK n \in MessageLens : msg = [i \in 1 .. n |-> Byte(<<"msg", 0, i>>)]
  BY DEF CcmInit
<1>2. n \in Nat BY CcmAssumption
<1>3. DOMAIN msg = 1 .. n /\ Len(msg) = n BY <1>1, <1>2
<1> QED BY <1>3 DEF LengthInv

\* Encrypted and decrypted in place: every step leaves the message its length.
LEMMA LengthStep ==
  ASSUME LengthInv, [CcmNext]_ccmVars
  PROVE  LengthInv'
<1>1. PICK n \in Nat : DOMAIN msg = 1 .. n /\ Len(msg) = n /\ n \in MessageLens
  BY CcmAssumption DEF LengthInv
<1>2. SUFFICES DOMAIN msg' = 1 .. n /\ Len(msg') = n
  BY <1>1 DEF LengthInv
<1>3. CASE UNCHANGED msg BY <1>1, <1>3
<1>4. CASE OpDone /\ ~UNCHANGED msg
  <2>1. msg' = [i \in 1 .. Len(msg) |->
                  IF i \in pos + 1 .. pos + BLOCK THEN result[i - pos] ELSE msg[i]]
    BY <1>4 DEF OpDone
  <2> QED BY <1>1, <2>1
<1>5. CASE Receive /\ ~UNCHANGED msg
  <2>1. PICK i \in 1 .. Len(msg) : msg' = [msg EXCEPT ![i].v = <<"bad", 0, i>>]
    BY <1>5 DEF Receive
  <2>2. DOMAIN msg' = 1 .. n BY <1>1, <2>1
  <2>3. msg' = [j \in 1 .. n |-> msg'[j]] BY <2>1, <2>2
  <2> QED BY <2>2, <2>3
<1>6. CASE VerifyTag /\ ~UNCHANGED msg
  <2>1. msg' = [i \in 1 .. Len(msg) |-> Zero] BY <1>6 DEF VerifyTag
  <2> QED BY <1>1, <2>1
<1>7. CASE EngineStep /\ UNCHANGED job BY <1>3, <1>7 DEF job
<1>8. CASE \/ MacB0 \/ FeedPadded \/ FlushAad \/ MacMessage \/ MacResult
           \/ MaskTag \/ CtrCrypt \/ EncryptMessage \/ Encrypted \/ Decrypted
  BY <1>3, <1>8
  DEF MacB0, FeedPadded, FlushAad, MacMessage, MacResult, MaskTag, CtrCrypt,
      EncryptMessage, Encrypted, Decrypted
<1>9. CASE UNCHANGED ccmVars BY <1>3, <1>9 DEF ccmVars, job
<1> QED BY <1>3, <1>4, <1>5, <1>6, <1>7, <1>8, <1>9 DEF CcmNext

\* The counter of every chunk of such a message is the number of the chunk:
\* the cast to u16 takes nothing away.
LEMMA CounterFits ==
  ASSUME LengthInv, pos \in Nat, pos < Len(msg)
  PROVE  Counter(pos) = pos \div BLOCK + 1
<1>1. PICK q \in Nat : q = pos \div BLOCK BY NextBlock
<1>2. PICK n \in Nat : n = Len(msg) /\ n \in MessageLens BY CcmAssumption DEF LengthInv
<1>3. n <= (U16 - 1) * BLOCK BY <1>2, MessagesFit
<1>4. q * BLOCK <= pos BY <1>1, AesAssumption
<1>5. q < U16 - 1
  <2>1. PICK B \in Nat \ {0} : B = BLOCK BY AesAssumption
  <2>2. PICK u \in Nat : u = U16 - 1 BY CcmAssumption
  <2>3. q * B <= pos /\ pos < n /\ n <= u * B BY <1>2, <1>3, <1>4, <2>1, <2>2
  <2>4. q * B \in Nat /\ u * B \in Nat BY <2>1, <2>2
  <2>5. n \in Nat BY <1>2, CcmAssumption
  <2>6. q * B < u * B BY <2>3, <2>4, <2>5
  <2>7. q < u BY <2>1, <2>2, <2>6
  <2> QED BY <2>2, <2>7
<1>6. (q + 1) % U16 = q + 1 BY <1>5, CcmAssumption
<1> QED BY <1>1, <1>6 DEF Counter

\* The shapes of a job's counters: an encryption's start with the tag's mask, a
\* decryption's end with it.
FromZero(s) == \A i \in 1 .. Len(s) : s[i] = i - 1
FromOne(s) == \A i \in 1 .. Len(s) : s[i] = i
MaskLast(s) == /\ Len(s) >= 1 /\ s[Len(s)] = 0
               /\ \A i \in 1 .. Len(s) - 1 : s[i] = i

InFlight == IF pc = "idle" THEN 0 ELSE 1
MacPhases == {"b0", "feed", "message", "s0"}

EncryptCounters ==
    \/ phase \in MacPhases /\ used = <<>>
    \/ phase = "masked" /\ used = <<0>>
    \/ /\ phase = "ctr" /\ FromZero(used)
       /\ Len(used) = pos \div BLOCK + 1 + InFlight

DecryptCounters ==
    \/ /\ phase = "ctr" /\ FromOne(used)
       /\ Len(used) = pos \div BLOCK + InFlight
    \/ phase \in MacPhases /\ FromOne(used)
    \/ phase = "masked" /\ MaskLast(used)

CounterInv ==
    /\ used \in Seq(Nat) /\ pos \in Nat
    /\ \/ dir = "encrypt" /\ EncryptCounters
       \/ dir = "sent" /\ phase = "none" /\ pc = "idle" /\ FromZero(used)
       \/ dir = "decrypt" /\ DecryptCounters
       \/ dir \in {"accepted", "rejected"} /\ phase = "none" /\ MaskLast(used)
    /\ dir = "encrypt" /\ phase \in {"s0", "masked"} => pos = 0

\* One more counter.
LEMMA CounterAppended ==
  ASSUME NEW s \in Seq(Nat), NEW n \in Nat
  PROVE  /\ Append(s, n) \in Seq(Nat) /\ Len(Append(s, n)) = Len(s) + 1
         /\ FromZero(s) /\ n = Len(s) => FromZero(Append(s, n))
         /\ FromOne(s) /\ n = Len(s) + 1 => FromOne(Append(s, n))
         /\ FromOne(s) /\ n = 0 => MaskLast(Append(s, n))
BY DEF FromZero, FromOne, MaskLast

\* A sequence of either shape repeats no counter.
LEMMA NoRepeats ==
  ASSUME NEW s \in Seq(Nat), FromZero(s) \/ FromOne(s) \/ MaskLast(s)
  PROVE  Cardinality({s[i] : i \in DOMAIN s}) = Len(s)
<1>1. DOMAIN s = 1 .. Len(s) /\ Len(s) \in Nat OBVIOUS
<1>2. \A i, j \in 1 .. Len(s) : s[i] = s[j] => i = j
  <2>1. CASE FromZero(s) BY <2>1 DEF FromZero
  <2>2. CASE FromOne(s) BY <2>2 DEF FromOne
  <2>3. CASE MaskLast(s)
    <3> SUFFICES ASSUME NEW i \in 1 .. Len(s), NEW j \in 1 .. Len(s), s[i] = s[j]
                 PROVE  i = j
      OBVIOUS
    <3>1. \A k \in 1 .. Len(s) : IF k = Len(s) THEN s[k] = 0 ELSE s[k] = k
      BY <2>3 DEF MaskLast
    <3> QED BY <3>1
  <2> QED BY <2>1, <2>2, <2>3
<1> DEFINE T == {s[i] : i \in 1 .. Len(s)}
           f == [i \in 1 .. Len(s) |-> s[i]]
<1>3. f \in Bijection(1 .. Len(s), T)
  BY <1>2 DEF Bijection, Injection, Surjection, IsInjective
<1>4. ExistsBijection(1 .. Len(s), T) BY <1>3 DEF ExistsBijection
<1>5. IsFiniteSet(1 .. Len(s)) /\ Cardinality(1 .. Len(s)) = Len(s)
  BY <1>1, FS_Interval, SMTT(30)
<1>6. Cardinality(T) = Len(s) BY <1>4, <1>5, FS_Bijection
<1> QED BY <1>1, <1>6

\* No keystream has been used before the first message.
LEMMA CountersStart == ASSUME CcmInit PROVE CounterInv
BY DEF CcmInit, CounterInv, EncryptCounters, MacPhases

\* Between two operations, and while the engine works, the counters stay as
\* they are.
LEMMA CountersKept ==
  ASSUME CounterInv, UNCHANGED <<dir, phase, used, pos>>, pc = "idle" <=> pc' = "idle"
  PROVE  CounterInv'
<1>1. InFlight' = InFlight BY DEF InFlight
<1>2. \/ dir = "sent" /\ phase = "none" /\ pc = "idle" /\ FromZero(used)
           <=> (dir = "sent" /\ phase = "none" /\ pc = "idle" /\ FromZero(used))'
  BY DEF FromZero
<1> QED BY <1>1, <1>2 DEF CounterInv, EncryptCounters, DecryptCounters, FromZero, FromOne, MaskLast

\* The MAC's own steps: no counter is used.
LEMMA MacSteps ==
  ASSUME CounterInv, MacB0 \/ FeedPadded \/ FlushAad \/ MacMessage \/ MacResult
  PROVE  CounterInv'
<1>1. phase \in MacPhases /\ used' = used /\ dir' = dir
  BY DEF MacB0, FeedPadded, FlushAad, MacMessage, MacResult, MacPhases
<1>2. phase' \in MacPhases
  BY DEF MacB0, FeedPadded, FlushAad, MacMessage, MacResult, MacPhases
<1>3. pos' \in Nat
  <2>1. pos' \in {pos, 0, pos + BLOCK}
    BY DEF MacB0, FeedPadded, FlushAad, MacMessage, MacResult
  <2>2. pos \in Nat /\ BLOCK \in Nat BY AesAssumption DEF CounterInv
  <2> QED BY <2>1, <2>2
<1>4. phase' = "s0" => pos' = 0
  BY DEF MacB0, FeedPadded, FlushAad, MacMessage, MacResult
<1>5. \/ dir = "encrypt" /\ used = <<>>
      \/ dir = "decrypt" /\ FromOne(used)
  BY <1>1 DEF CounterInv, EncryptCounters, DecryptCounters, MacPhases
<1>6. FromOne(used) => FromOne(used)' BY <1>1 DEF FromOne
<1> QED
  BY <1>1, <1>2, <1>3, <1>4, <1>5, <1>6
  DEF CounterInv, EncryptCounters, DecryptCounters, MacPhases

\* Every step of CCM keeps the counters of the keystream it has used: only
\* ccm_ctr_crypt and the masking of the MIC take a new one.
LEMMA CounterStep ==
  ASSUME CounterInv, LengthInv, [CcmNext]_ccmVars
  PROVE  CounterInv'
<1>1. CASE EngineStep /\ UNCHANGED job
  <2>1. pc = "idle" <=> pc' = "idle"
    BY <1>1 DEF EngineStep, HwComplete, AsmIsr, SpinPoll, FirstPoll, SecondPoll
  <2> QED BY <1>1, <2>1, CountersKept DEF job
<1>2. CASE MacB0 \/ FeedPadded \/ FlushAad \/ MacMessage \/ MacResult
  BY <1>2, MacSteps
<1>3. CASE MaskTag
  <2>1. phase = "s0" /\ phase' = "masked" /\ used' = Append(used, 0) /\ dir' = dir /\ pos' = pos
    BY <1>3 DEF MaskTag
  <2>2. CASE dir = "encrypt"
    <3>1. used = <<>> BY <2>1, <2>2 DEF CounterInv, EncryptCounters, MacPhases
    <3>2. used' = <<0>> BY <2>1, <3>1
    <3>3. used' \in Seq(Nat) BY <3>2
    <3> QED BY <2>1, <2>2, <3>2, <3>3 DEF CounterInv, EncryptCounters
  <2>3. CASE dir = "decrypt"
    <3>1. FromOne(used) BY <2>1, <2>3 DEF CounterInv, DecryptCounters, MacPhases
    <3>2. MaskLast(Append(used, 0)) /\ used' \in Seq(Nat)
      BY <2>1, <3>1, CounterAppended DEF CounterInv
    <3>3. MaskLast(used)' BY <2>1, <3>2 DEF MaskLast
    <3> QED BY <2>1, <2>3, <3>2, <3>3 DEF CounterInv, DecryptCounters
  <2> QED BY <2>1, <2>2, <2>3 DEF CounterInv
<1>4. CASE CtrCrypt
  <2> DEFINE n == pos \div BLOCK + 1
  <2>0. Counter(pos) = n BY <1>4, CounterFits DEF CtrCrypt, CounterInv
  <2>1. /\ phase = "ctr" /\ pc = "idle" /\ used' = Append(used, n)
        /\ dir' = dir /\ phase' = phase /\ pos' = pos
    BY <1>4, <2>0 DEF CtrCrypt, CtrBlock, StartOp
  <2>2. pc' # "idle" BY <1>4 DEF CtrCrypt, CtrBlock, StartOp
  <2>3. InFlight = 0 /\ InFlight' = 1 BY <2>1, <2>2 DEF InFlight
  <2>4. n \in Nat /\ pos \div BLOCK \in Nat
    <3>1. pos \in Nat BY DEF CounterInv
    <3>2. pos \div BLOCK \in Nat BY <3>1, NextBlock
    <3> QED BY <3>2
  <2> HIDE DEF n
  <2>5. CASE dir = "encrypt"
    <3>1. FromZero(used) /\ Len(used) = n
      BY <2>1, <2>3, <2>5, <2>4 DEF CounterInv, EncryptCounters, MacPhases, n
    <3>2. FromZero(Append(used, n)) /\ used' \in Seq(Nat) /\ Len(used') = n + 1
      BY <2>1, <2>4, <3>1, CounterAppended DEF CounterInv
    <3>3. FromZero(used)' BY <2>1, <3>2 DEF FromZero
    <3>4. Len(used') = pos' \div BLOCK + 1 + InFlight'
      BY <2>1, <2>3, <3>2 DEF n
    <3> QED BY <2>1, <2>5, <3>2, <3>3, <3>4 DEF CounterInv, EncryptCounters
  <2>6. CASE dir = "decrypt"
    <3>1. FromOne(used) /\ Len(used) + 1 = n
      BY <2>1, <2>3, <2>6, <2>4 DEF CounterInv, DecryptCounters, MacPhases, n
    <3>2. FromOne(Append(used, n)) /\ used' \in Seq(Nat) /\ Len(used') = n
      BY <2>1, <2>4, <3>1, CounterAppended DEF CounterInv
    <3>3. FromOne(used)' BY <2>1, <3>2 DEF FromOne
    <3>4. Len(used') = pos' \div BLOCK + InFlight'
      BY <2>1, <2>3, <3>2 DEF n
    <3> QED BY <2>1, <2>6, <3>2, <3>3, <3>4 DEF CounterInv, DecryptCounters
  <2> QED BY <2>1, <2>5, <2>6 DEF CounterInv
<1>5. CASE OpDone
  <2>1. pc = "ready" /\ pc' = "idle" /\ dir' = dir /\ phase' = phase /\ used' = used
    BY <1>5 DEF OpDone
  <2>2. InFlight = 1 /\ InFlight' = 0 BY <2>1 DEF InFlight
  <2>3. FromZero(used)' <=> FromZero(used) BY <2>1 DEF FromZero
  <2>4. FromOne(used)' <=> FromOne(used) BY <2>1 DEF FromOne
  <2>5. MaskLast(used)' <=> MaskLast(used) BY <2>1 DEF MaskLast
  <2>6. CASE phase = "ctr"
    <3>1. pos' = pos + BLOCK BY <1>5, <2>6 DEF OpDone
    <3>2. pos' \div BLOCK = pos \div BLOCK + 1 /\ pos' \in Nat /\ pos \div BLOCK \in Nat
      <4>1. pos \in Nat /\ BLOCK \in Nat BY AesAssumption DEF CounterInv
      <4>2. pos + BLOCK \in Nat BY <4>1
      <4>3. pos \div BLOCK \in Nat /\ (pos + BLOCK) \div BLOCK = pos \div BLOCK + 1
        BY <4>1, NextBlock
      <4> QED BY <3>1, <4>2, <4>3
    <3>3. CASE dir = "encrypt"
      <4>1. Len(used') = pos' \div BLOCK + 1 + InFlight' /\ FromZero(used)'
        BY <2>1, <2>2, <2>3, <2>6, <3>2, <3>3 DEF CounterInv, EncryptCounters, MacPhases
      <4> QED BY <2>1, <2>6, <3>2, <3>3, <4>1 DEF CounterInv, EncryptCounters
    <3>4. CASE dir = "decrypt"
      <4>1. Len(used') = pos' \div BLOCK + InFlight' /\ FromOne(used)'
        BY <2>1, <2>2, <2>4, <2>6, <3>2, <3>4 DEF CounterInv, DecryptCounters, MacPhases
      <4> QED BY <2>1, <2>6, <3>2, <3>4, <4>1 DEF CounterInv, DecryptCounters
    <3> QED BY <2>6, <3>3, <3>4 DEF CounterInv
  <2>7. CASE phase # "ctr"
    <3>1. pos' = pos BY <1>5, <2>7 DEF OpDone
    <3> QED
      BY <2>1, <2>3, <2>4, <2>5, <2>7, <3>1
      DEF CounterInv, EncryptCounters, DecryptCounters
  <2> QED BY <2>6, <2>7
<1>6. CASE EncryptMessage
  <2>1. /\ phase = "masked" /\ dir = "encrypt" /\ pc = "idle" /\ phase' = "ctr"
        /\ UNCHANGED <<pc, dir, used, pos>>
    BY <1>6 DEF EncryptMessage, vars
  <2>2. used = <<0>> /\ pos = 0
    BY <2>1 DEF CounterInv, EncryptCounters, MacPhases
  <2>3. InFlight' = 0 BY <2>1 DEF InFlight
  <2>4. FromZero(used)' BY <2>1, <2>2 DEF FromZero
  <2>5. Len(used') = pos' \div BLOCK + 1 + InFlight'
    BY <2>1, <2>2, <2>3, NextBlock
  <2> QED BY <2>1, <2>4, <2>5 DEF CounterInv, EncryptCounters
<1>7. CASE Encrypted
  <2>1. /\ phase = "ctr" /\ dir = "encrypt" /\ pc = "idle" /\ dir' = "sent" /\ phase' = "none"
        /\ UNCHANGED <<pc, used, pos>>
    BY <1>7 DEF Encrypted, vars
  <2>2. FromZero(used)' BY <2>1 DEF CounterInv, EncryptCounters, MacPhases, FromZero
  <2> QED BY <2>1, <2>2 DEF CounterInv
<1>8. CASE Receive
  <2>1. /\ dir = "sent" /\ dir' = "decrypt" /\ phase' = "ctr" /\ pos' = 0 /\ used' = <<>>
        /\ pc' = pc
    BY <1>8 DEF Receive, vars
  <2>2. pc = "idle" BY <2>1 DEF CounterInv
  <2>3. Len(used') = pos' \div BLOCK + InFlight'
    BY <2>1, <2>2, NextBlock DEF InFlight
  <2>4. FromOne(used)' /\ used' \in Seq(Nat) BY <2>1 DEF FromOne
  <2> QED BY <2>1, <2>3, <2>4 DEF CounterInv, DecryptCounters
<1>9. CASE Decrypted
  <2>1. /\ phase = "ctr" /\ dir = "decrypt" /\ dir' = dir /\ phase' = "b0" /\ pos' = 0
        /\ used' = used
    BY <1>9 DEF Decrypted
  <2>2. FromOne(used)' BY <2>1 DEF CounterInv, DecryptCounters, MacPhases, FromOne
  <2> QED BY <2>1, <2>2 DEF CounterInv, DecryptCounters, MacPhases
<1>10. CASE VerifyTag
  <2>1. /\ phase = "masked" /\ dir = "decrypt" /\ dir' \in {"accepted", "rejected"}
        /\ phase' = "none" /\ used' = used /\ pos' = pos
    BY <1>10 DEF VerifyTag
  <2>2. MaskLast(used)' BY <2>1 DEF CounterInv, DecryptCounters, MacPhases, MaskLast
  <2> QED BY <2>1, <2>2 DEF CounterInv
<1>11. CASE UNCHANGED ccmVars
  BY <1>11, CountersKept DEF ccmVars, vars, job
<1> QED
  BY <1>1, <1>2, <1>3, <1>4, <1>5, <1>6, <1>7, <1>8, <1>9, <1>10, <1>11 DEF CcmNext

\* Whichever way a job goes, encrypting or decrypting, blocking or async, it
\* never puts the same counter block under its nonce twice, the tag's mask
\* included (aes.rs: ccm_ctr_crypt numbers its chunks from 1 in a u16, the
\* tag's mask takes 0), for every message of at most 2^16 - 1 blocks
\* (MessagesFit), the most that counter can number.  The code does not check
\* the length; a longer message would use counter 0 again.
THEOREM CountersAreUnique == CcmSpec => []CountersUnique
<1>1. CcmInit => CounterInv /\ LengthInv BY CountersStart, LengthStarts
<1>2. CounterInv /\ LengthInv /\ [CcmNext]_ccmVars => CounterInv' /\ LengthInv'
  BY CounterStep, LengthStep
<1>3. CounterInv => CountersUnique
  <2> SUFFICES ASSUME CounterInv PROVE CountersUnique OBVIOUS
  <2>1. FromZero(used) \/ FromOne(used) \/ MaskLast(used)
    BY DEF CounterInv, EncryptCounters, DecryptCounters, FromZero
  <2> QED BY <2>1, NoRepeats DEF CounterInv, CountersUnique
<1> QED BY <1>1, <1>2, <1>3, PTL DEF CcmSpec

(***************************************************************************)
(* Blocks.                                                                 *)
(***************************************************************************)
\* Whole numbers of blocks, in bytes.
LEMMA Multiples ==
  ASSUME NEW a \in Nat, NEW b \in Nat
  PROVE  /\ a * BLOCK \in Nat
         /\ (a + 1) * BLOCK = a * BLOCK + BLOCK
         /\ a <= b => a * BLOCK <= b * BLOCK
         /\ 0 * BLOCK = 0
BY AesAssumption, SMTT(30)

\* The block that byte n is in, and its place there.
LEMMA DivIs ==
  ASSUME NEW n \in Nat, NEW q \in Nat, q * BLOCK <= n, n < q * BLOCK + BLOCK
  PROVE  n \div BLOCK = q /\ n % BLOCK = n - q * BLOCK
BY AesAssumption, SMTT(30)

\* The number of blocks for n bytes.
LEMMA BlockCount ==
  ASSUME NEW n \in Nat, NEW q \in Nat, n <= q * BLOCK,
         q = 0 \/ (q - 1) * BLOCK < n
  PROVE  (n + BLOCK - 1) \div BLOCK = q
<1>1. BLOCK \in Nat /\ BLOCK > 0 /\ q * BLOCK \in Nat BY AesAssumption, Multiples
<1>2. n + BLOCK - 1 \in Nat BY <1>1
<1>3. CASE q = 0 BY <1>1, <1>2, <1>3, DivIs, Multiples
<1>4. CASE q # 0
  <2>1. PICK p \in Nat : q = p + 1 BY <1>4
  <2>2. q * BLOCK = p * BLOCK + BLOCK /\ p * BLOCK \in Nat BY <2>1, Multiples
  <2>3. p * BLOCK < n BY <2>1, <1>4
  <2>4. q * BLOCK <= n + BLOCK - 1 /\ n + BLOCK - 1 < q * BLOCK + BLOCK
    BY <1>1, <2>2, <2>3
  <2> QED BY <1>2, <2>4, DivIs
<1> QED BY <1>3, <1>4

\* The chunk at offset p: a whole block, or what is left of s.
LEMMA ChunkOf ==
  ASSUME NEW S, NEW s \in Seq(S), NEW p \in Nat
  PROVE  /\ Chunk(s, p) \in Seq(S)
         /\ p + BLOCK <= Len(s) => Len(Chunk(s, p)) = BLOCK
         /\ p <= Len(s) /\ Len(s) < p + BLOCK => Len(Chunk(s, p)) = Len(s) - p
         /\ \A i \in 1 .. BLOCK : p + i <= Len(s) => Chunk(s, p)[i] = s[p + i]
<1> DEFINE m == Smaller(p + BLOCK, Len(s))
<1>1. BLOCK \in Nat /\ BLOCK > 0 /\ Len(s) \in Nat BY AesAssumption, LenProperties
<1>2. /\ m \in Nat /\ m <= Len(s) /\ m <= p + BLOCK
      /\ p + BLOCK <= Len(s) => m = p + BLOCK
      /\ Len(s) < p + BLOCK => m = Len(s)
  BY <1>1 DEF Smaller
<1> HIDE DEF m
<1>3. \A i \in p + 1 .. m : s[i] \in S BY <1>1, <1>2, ElementOfSeq
<1>4. p + 1 \in Int /\ m \in Int BY <1>2
<1>5. /\ SubSeq(s, p + 1, m) \in Seq(S)
      /\ Len(SubSeq(s, p + 1, m)) = IF p + 1 <= m THEN m - (p + 1) + 1 ELSE 0
      /\ \A i \in 1 .. m - (p + 1) + 1 : SubSeq(s, p + 1, m)[i] = s[(p + 1) + i - 1]
  <2>1. PICK k : k = p + 1 OBVIOUS
  <2>2. k \in Int /\ \A i \in k .. m : s[i] \in S BY <2>1, <1>3, <1>4
  <2>3. /\ SubSeq(s, k, m) \in Seq(S)
        /\ Len(SubSeq(s, k, m)) = IF k <= m THEN m - k + 1 ELSE 0
        /\ \A i \in 1 .. m - k + 1 : SubSeq(s, k, m)[i] = s[k + i - 1]
    BY <2>2, <1>4, SubSeqProperties
  <2> QED BY <2>1, <2>3
<1>6. Chunk(s, p) = SubSeq(s, p + 1, m) BY DEF Chunk, m
<1>7. p + BLOCK <= Len(s) => Len(Chunk(s, p)) = BLOCK
  BY <1>1, <1>2, <1>5, <1>6
<1>8. p <= Len(s) /\ Len(s) < p + BLOCK => Len(Chunk(s, p)) = Len(s) - p
  BY <1>1, <1>2, <1>5, <1>6
<1>9. ASSUME NEW i \in 1 .. BLOCK, p + i <= Len(s)
      PROVE  Chunk(s, p)[i] = s[p + i]
  <2>1. i \in 1 .. m - (p + 1) + 1 /\ (p + 1) + i - 1 = p + i
    BY <1>1, <1>2, <1>9
  <2> QED BY <1>5, <1>6, <2>1
<1> QED BY <1>5, <1>6, <1>7, <1>8, <1>9

Blocks(S) == [1 .. BLOCK -> S \cup {Zero}]

\* A padded sequence is a block, and a whole block is its own padding.
LEMMA PaddedOf ==
  ASSUME NEW S, NEW s \in Seq(S)
  PROVE  /\ Padded(s) \in Blocks(S)
         /\ Len(s) = BLOCK => Padded(s) = s
<1>1. Len(s) \in Nat /\ \A i \in 1 .. Len(s) : s[i] \in S BY LenProperties, ElementOfSeq
<1>2. s \in [1 .. Len(s) -> S] BY LenProperties
<1>3. BLOCK \in Nat BY AesAssumption
<1>4. \A i \in 1 .. BLOCK : (IF i <= Len(s) THEN s[i] ELSE Zero) \in S \cup {Zero}
  BY <1>1, <1>3
<1> QED BY <1>1, <1>2, <1>3, <1>4 DEF Padded, Blocks

\* The first q blocks of s.
BlocksUpTo(s, q) == [j \in 1 .. q |-> Padded(Chunk(s, (j - 1) * BLOCK))]

\* They are q blocks, each padded.
LEMMA BlocksType ==
  ASSUME NEW S, NEW s \in Seq(S), NEW q \in Nat
  PROVE  /\ BlocksUpTo(s, q) \in Seq(Blocks(S))
         /\ Len(BlocksUpTo(s, q)) = q
         /\ \A j \in 1 .. q : BlocksUpTo(s, q)[j] = Padded(Chunk(s, (j - 1) * BLOCK))
<1>1. ASSUME NEW j \in 1 .. q PROVE Padded(Chunk(s, (j - 1) * BLOCK)) \in Blocks(S)
  <2>1. PICK p \in Nat : p = j - 1 OBVIOUS
  <2>2. p * BLOCK \in Nat BY <2>1, Multiples
  <2>3. (j - 1) * BLOCK \in Nat BY <2>1, <2>2
  <2> QED BY <2>3, ChunkOf, PaddedOf
<1> QED BY <1>1 DEF BlocksUpTo

\* The next block is the next chunk, padded.
LEMMA OneBlockMore ==
  ASSUME NEW S, NEW s \in Seq(S), NEW q \in Nat
  PROVE  BlocksUpTo(s, q + 1) = Append(BlocksUpTo(s, q), Padded(Chunk(s, q * BLOCK)))
<1> DEFINE b == Padded(Chunk(s, q * BLOCK))
           u == BlocksUpTo(s, q)
           v == BlocksUpTo(s, q + 1)
<1>1. b \in Blocks(S) BY Multiples, ChunkOf, PaddedOf
<1>2. u \in Seq(Blocks(S)) /\ Len(u) = q BY BlocksType
<1>3. /\ v \in Seq(Blocks(S)) /\ Len(v) = q + 1
      /\ \A j \in 1 .. q + 1 : v[j] = Padded(Chunk(s, (j - 1) * BLOCK))
  <2>1. PICK n \in Nat : n = q + 1 OBVIOUS
  <2> QED BY <2>1, BlocksType
<1>4. \A j \in 1 .. q : v[j] = u[j] BY <1>3, BlocksType
<1>5. v[q + 1] = b
  <2>1. q + 1 \in 1 .. q + 1 /\ (q + 1) - 1 = q OBVIOUS
  <2> QED BY <1>3, <2>1
<1> HIDE DEF b, u, v
<1>6. /\ Append(u, b) \in Seq(Blocks(S)) /\ Len(Append(u, b)) = q + 1
      /\ \A j \in 1 .. q : Append(u, b)[j] = u[j]
      /\ Append(u, b)[q + 1] = b
  BY <1>1, <1>2, AppendProperties
<1>7. v = Append(u, b) BY <1>3, <1>4, <1>5, <1>6, SeqEqual
<1> QED BY <1>7 DEF b, u, v

\* Blocks that are full stay as they are when more follows.
LEMMA BlocksOfPrefix ==
  ASSUME NEW S, NEW s \in Seq(S), NEW t \in Seq(S), NEW q \in Nat,
         q * BLOCK <= Len(s)
  PROVE  BlocksUpTo(s \o t, q) = BlocksUpTo(s, q)
<1>0. PICK r : r = s \o t OBVIOUS
<1>1. /\ r \in Seq(S) /\ Len(r) = Len(s) + Len(t)
      /\ \A i \in 1 .. Len(s) : r[i] = s[i]
      /\ Len(s) \in Nat /\ Len(t) \in Nat
  BY <1>0, ConcatProperties, LenProperties
<1>2. ASSUME NEW j \in 1 .. q
      PROVE  Chunk(r, (j - 1) * BLOCK) = Chunk(s, (j - 1) * BLOCK)
  <2>1. PICK p \in Nat : j = p + 1 OBVIOUS
  <2>2. PICK k \in Nat : k = p * BLOCK BY Multiples
  <2>3. BLOCK \in Nat /\ k + BLOCK <= Len(s)
    <3>1. (p + 1) * BLOCK = k + BLOCK BY <2>2, Multiples
    <3>2. PICK n \in Nat : n = p + 1 /\ n <= q BY <2>1
    <3>3. n * BLOCK <= q * BLOCK /\ q * BLOCK \in Nat BY <3>2, Multiples
    <3>4. PICK c \in Nat : c = q * BLOCK BY <3>3
    <3>5. k + BLOCK <= c BY <3>1, <3>2, <3>3, <3>4
    <3>6. BLOCK \in Nat BY AesAssumption
    <3>7. c <= Len(s) BY <3>4
    <3> QED BY <3>5, <3>6, <3>7, <1>1
  <2>4. k + BLOCK <= Len(r) /\ \A i \in 1 .. BLOCK : k + i <= Len(s) /\ k + i <= Len(r)
    BY <1>1, <2>3
  <2>5. /\ Chunk(s, k) \in Seq(S) /\ Len(Chunk(s, k)) = BLOCK
        /\ \A i \in 1 .. BLOCK : Chunk(s, k)[i] = s[k + i]
    BY <2>3, <2>4, ChunkOf
  <2>6. /\ Chunk(r, k) \in Seq(S) /\ Len(Chunk(r, k)) = BLOCK
        /\ \A i \in 1 .. BLOCK : Chunk(r, k)[i] = r[k + i]
    <3>1. r \in Seq(S) /\ k \in Nat BY <1>1
    <3>2. /\ Chunk(r, k) \in Seq(S)
          /\ k + BLOCK <= Len(r) => Len(Chunk(r, k)) = BLOCK
          /\ \A i \in 1 .. BLOCK : k + i <= Len(r) => Chunk(r, k)[i] = r[k + i]
      BY <3>1, ChunkOf
    <3> QED BY <2>4, <3>2
  <2>7. \A i \in 1 .. BLOCK : r[k + i] = s[k + i]
    <3>1. \A i \in 1 .. BLOCK : k + i \in 1 .. Len(s) BY <1>1, <2>3
    <3> QED BY <1>1, <3>1
  <2>8. Chunk(r, k) = Chunk(s, k)
    <3>1. Len(Chunk(s, k)) = Len(Chunk(r, k))
          /\ \A i \in 1 .. Len(Chunk(s, k)) : Chunk(s, k)[i] = Chunk(r, k)[i]
      BY <2>5, <2>6, <2>7
    <3> QED BY <2>5, <2>6, <3>1, SeqEqual
  <2> QED BY <2>1, <2>2, <2>8
<1>3. BlocksUpTo(r, q) = BlocksUpTo(s, q) BY <1>2 DEF BlocksUpTo
<1> QED BY <1>0, <1>3

\* A last block after q full ones.
LEMMA LastBlock ==
  ASSUME NEW S, NEW s \in Seq(S), NEW t \in Seq(S), NEW q \in Nat,
         Len(s) = q * BLOCK, Len(t) \in 1 .. BLOCK
  PROVE  /\ BlocksUpTo(s \o t, q + 1) = Append(BlocksUpTo(s, q), Padded(t))
         /\ BlocksOf(s \o t) = BlocksUpTo(s \o t, q + 1)
<1>0. PICK r : r = s \o t OBVIOUS
<1>1. /\ r \in Seq(S) /\ Len(r) = Len(s) + Len(t)
      /\ \A i \in 1 .. Len(r) : r[i] = IF i <= Len(s) THEN s[i] ELSE t[i - Len(s)]
      /\ Len(s) \in Nat /\ Len(t) \in Nat /\ BLOCK \in Nat
  BY <1>0, ConcatProperties, LenProperties, AesAssumption
<1>2. Chunk(r, Len(s)) = t
  <2>1. PICK k \in Nat : k = Len(s) BY <1>1
  <2>2. /\ Chunk(r, k) \in Seq(S)
        /\ k + BLOCK <= Len(r) => Len(Chunk(r, k)) = BLOCK
        /\ k <= Len(r) /\ Len(r) < k + BLOCK => Len(Chunk(r, k)) = Len(r) - k
        /\ \A i \in 1 .. BLOCK : k + i <= Len(r) => Chunk(r, k)[i] = r[k + i]
    <3>1. r \in Seq(S) BY <1>1
    <3> QED BY <3>1, ChunkOf
  <2>3. Len(Chunk(r, k)) = Len(t) BY <1>1, <2>1, <2>2
  <2>4. \A i \in 1 .. Len(t) : Chunk(r, k)[i] = t[i]
    <3> SUFFICES ASSUME NEW i \in 1 .. Len(t) PROVE Chunk(r, k)[i] = t[i]
      OBVIOUS
    <3>1. i \in 1 .. BLOCK /\ k + i <= Len(r) /\ k + i \in 1 .. Len(r) /\ ~(k + i <= k)
          /\ (k + i) - k = i
      BY <1>1, <2>1
    <3>2. r[k + i] = t[(k + i) - k] BY <1>1, <2>1, <3>1
    <3> QED BY <2>2, <3>1, <3>2
  <2> QED BY <2>1, <2>2, <2>3, <2>4, SeqEqual
<1>3. BlocksUpTo(r, q + 1) = Append(BlocksUpTo(r, q), Padded(Chunk(r, q * BLOCK)))
  BY <1>1, OneBlockMore
<1>4. BlocksUpTo(r, q) = BlocksUpTo(s, q)
  <2>1. q * BLOCK <= Len(s) BY <1>1
  <2> QED BY <1>0, <2>1, BlocksOfPrefix
<1>5. BlocksOf(r) = BlocksUpTo(r, q + 1)
  <2>1. PICK n \in Nat : n = q + 1 OBVIOUS
  <2>2. n * BLOCK = q * BLOCK + BLOCK BY <2>1, Multiples
  <2>3. Len(r) \in Nat /\ Len(r) <= n * BLOCK /\ (n - 1) * BLOCK < Len(r)
    <3>1. n - 1 = q BY <2>1
    <3> QED BY <1>1, <2>2, <3>1
  <2>4. (Len(r) + BLOCK - 1) \div BLOCK = n BY <2>3, BlockCount
  <2> QED BY <2>1, <2>4 DEF BlocksOf, BlocksUpTo
<1> QED BY <1>0, <1>2, <1>3, <1>4, <1>5

\* All of s in blocks: the q that reach its end.
LEMMA AllBlocks ==
  ASSUME NEW S, NEW s \in Seq(S), NEW q \in Nat, Len(s) <= q * BLOCK,
         q = 0 \/ (q - 1) * BLOCK < Len(s)
  PROVE  BlocksOf(s) = BlocksUpTo(s, q)
<1>1. Len(s) \in Nat BY LenProperties
<1>2. (Len(s) + BLOCK - 1) \div BLOCK = q BY <1>1, BlockCount
<1> QED BY <1>2 DEF BlocksOf, BlocksUpTo

\* Byte i of s, where it is among the blocks.
LEMMA ByteInBlock ==
  ASSUME NEW S, NEW s \in Seq(S), NEW q \in Nat, NEW i \in 1 .. BLOCK, q * BLOCK + i <= Len(s)
  PROVE  Padded(Chunk(s, q * BLOCK))[i] = s[q * BLOCK + i]
<1>1. PICK k \in Nat : k = q * BLOCK BY Multiples
<1>2. BLOCK \in Nat /\ Len(s) \in Nat BY AesAssumption, LenProperties
<1>3. Chunk(s, k)[i] = s[k + i] /\ i <= Len(Chunk(s, k))
  <2>1. /\ k + BLOCK <= Len(s) => Len(Chunk(s, k)) = BLOCK
        /\ k <= Len(s) /\ Len(s) < k + BLOCK => Len(Chunk(s, k)) = Len(s) - k
        /\ \A j \in 1 .. BLOCK : k + j <= Len(s) => Chunk(s, k)[j] = s[k + j]
    BY ChunkOf
  <2> QED BY <1>1, <1>2, <2>1
<1> QED BY <1>1, <1>3 DEF Padded

\* Division rounds down.
LEMMA Quotient ==
  ASSUME NEW n \in Nat
  PROVE  /\ n \div BLOCK \in Nat
         /\ (n \div BLOCK) * BLOCK <= n
         /\ n < (n \div BLOCK) * BLOCK + BLOCK
BY AesAssumption, SMT

\* Sequences of one length that differ in a byte differ in a block.
LEMMA BlocksDiffer ==
  ASSUME NEW S, NEW s \in Seq(S), NEW t \in Seq(S), Len(s) = Len(t),
         NEW i \in 1 .. Len(s), s[i] # t[i]
  PROVE  BlocksOf(s) # BlocksOf(t)
<1>1. Len(s) \in Nat /\ BLOCK \in Nat /\ BLOCK > 0 /\ i - 1 \in Nat
  BY LenProperties, AesAssumption
<1> DEFINE q == (i - 1) \div BLOCK
           n == (Len(s) + BLOCK - 1) \div BLOCK
           k == i - q * BLOCK
<1>2. q \in Nat /\ q * BLOCK <= i - 1 /\ i - 1 < q * BLOCK + BLOCK
  <2>1. PICK j \in Nat : j = i - 1 BY <1>1
  <2> QED BY <2>1, Quotient
<1>3. q * BLOCK \in Nat BY <1>2, Multiples
<1>4. q + 1 \in 1 .. n
  <2>1. PICK m : m = n OBVIOUS
  <2>2. m \in Nat /\ Len(s) + BLOCK - 1 < m * BLOCK + BLOCK
    <3>1. Len(s) + BLOCK - 1 \in Nat BY <1>1
    <3>2. PICK j \in Nat : j = Len(s) + BLOCK - 1 BY <3>1
    <3> QED BY <2>1, <3>2, Quotient
  <2>3. ~(m <= q)
    <3> SUFFICES ASSUME m <= q PROVE FALSE OBVIOUS
    <3>1. m * BLOCK <= q * BLOCK /\ m * BLOCK \in Nat BY <1>2, <2>2, Multiples
    <3> QED BY <1>1, <1>2, <1>3, <2>2, <3>1
  <2> QED BY <1>2, <2>1, <2>2, <2>3
<1>5. k \in 1 .. BLOCK /\ q * BLOCK + k = i BY <1>1, <1>2, <1>3
<1> HIDE DEF q, n, k
<1>6. /\ Padded(Chunk(s, q * BLOCK))[k] = s[i]
      /\ Padded(Chunk(t, q * BLOCK))[k] = t[i]
  BY <1>1, <1>2, <1>5, ByteInBlock
<1>7. /\ BlocksOf(s)[q + 1] = Padded(Chunk(s, q * BLOCK))
      /\ BlocksOf(t)[q + 1] = Padded(Chunk(t, q * BLOCK))
  <2>1. (q + 1) - 1 = q BY <1>2
  <2> QED BY <1>4, <2>1 DEF BlocksOf, n
<1> QED BY <1>6, <1>7

(***************************************************************************)
(* The MAC.                                                                *)
(***************************************************************************)
\* What the accumulator and CTR0_RESULT hold once the engine has finished.
AccDone == IF busy /\ request.mode = "cbc" THEN Append(acc, request.data) ELSE acc
ResultDone == IF busy /\ request.mode # "cbc" THEN Xor(request.data, request.counter) ELSE result

\* The engine, its interrupt and the task's polls leave both as they are: the
\* engine only turns what it will have computed into what it has.
LEMMA DoneKept ==
  ASSUME EngineStep
  PROVE  AccDone' = AccDone /\ ResultDone' = ResultDone
<1>1. CASE HwComplete
  <2>1. busy /\ busy' = FALSE /\ request' = request BY <1>1 DEF HwComplete
  <2>2. CASE request.mode = "cbc"
    <3>1. acc' = Append(acc, request.data) /\ result' = result BY <1>1, <2>2 DEF HwComplete
    <3> QED BY <2>1, <2>2, <3>1, Zenon DEF AccDone, ResultDone
  <2>3. CASE request.mode # "cbc"
    <3>1. result' = Xor(request.data, request.counter) /\ acc' = acc
      BY <1>1, <2>3 DEF HwComplete
    <3> QED BY <2>1, <2>3, <3>1, Zenon DEF AccDone, ResultDone
  <2> QED BY <2>2, <2>3
<1>2. CASE ~HwComplete
  <2>1. UNCHANGED <<request, acc, result, busy>>
    BY <1>2 DEF EngineStep, AsmIsr, SpinPoll, FirstPoll, SecondPoll, PollDone, regs, hw
  <2> QED BY <2>1, Zenon DEF AccDone, ResultDone, Xor
<1> QED BY <1>1, <1>2

\* cbc_mac_block: one block more is absorbed, or the first one.
LEMMA MacStarted ==
  ASSUME EngineInv, NEW block, NEW first \in BOOLEAN, NEW a, CbcMacBlock(block, first, a)
  PROVE  AccDone' = Append(IF first THEN <<>> ELSE AccDone, block)
<1>1. ~busy BY DEF CbcMacBlock, StartOp, EngineInv, Clean
<1>2. busy' = TRUE /\ request' = [mode |-> "cbc", data |-> block]
      /\ acc' = IF first THEN <<>> ELSE acc
  BY DEF CbcMacBlock, StartOp
<1>3. request'.mode = "cbc" /\ request'.data = block BY <1>2
<1>4. AccDone = acc BY <1>1 DEF AccDone
<1>5. AccDone' = Append(acc', block) BY <1>2, <1>3 DEF AccDone
<1> QED BY <1>2, <1>4, <1>5

\* ctr_block: the data meets the keystream of its counter.
LEMMA CtrStarted ==
  ASSUME NEW counter, NEW data, NEW a, CtrBlock(counter, data, a)
  PROVE  ResultDone' = Xor(data, counter) /\ pc = "idle" /\ pc' # "idle"
<1>1. /\ busy' = TRUE /\ request' = [mode |-> "ctr", counter |-> counter, data |-> data]
      /\ pc = "idle" /\ pc' # "idle"
  BY DEF CtrBlock, StartOp
<1>2. request'.mode # "cbc" /\ request'.data = data /\ request'.counter = counter BY <1>1
<1>3. ResultDone' = Xor(request'.data, request'.counter) BY <1>1, <1>2, Zenon DEF ResultDone, Xor
<1> QED BY <1>1, <1>2, <1>3

\* Between two operations the engine has nothing left to do.
LEMMA AllDone ==
  ASSUME EngineInv, pc \in {"idle", "ready"}
  PROVE  AccDone = acc /\ ResultDone = result
BY DEF EngineInv, Clean, AccDone, ResultDone

\* The bytes that a MAC covers, and the blocks that are absorbed.
Labels == ({"aad", "msg", "bad"} \X Nat \X Nat)
          \cup {<<"len", AadLen % U16, 1>>, <<"len", AadLen % U16, 2>>, "zero"}
Bytes == [v : Labels, ks : SUBSET (Nat \X Nat)]
Absorbed == Blocks(Bytes) \cup {B0}
Stream == LengthPrefix \o FlattenSeq(aad)
AadBlocks == IF AadLen > 0 THEN BlocksOf(Stream) ELSE <<>>

\* The length of the associated data depends on the items alone.
LEMMA AadLenKept == ASSUME aad' = aad PROVE AadLen' = AadLen
BY DEF AadLen, Total, FoldSeq, FoldFunction, FoldFunctionOnSet, MapThenFoldSet

\* The length of the associated data survives the cast to its prefix.
PrefixFits == AadLen % U16 = AadLen

\* What a job's steps leave as it is: everything made of the associated data
\* and the length of the message.
LEMMA JobConstants ==
  ASSUME aad' = aad, Len(msg') = Len(msg)
  PROVE  /\ AadLen' = AadLen /\ Bytes' = Bytes /\ B0' = B0 /\ Absorbed' = Absorbed
         /\ Stream' = Stream /\ AadBlocks' = AadBlocks /\ LengthPrefix' = LengthPrefix
<1>1. AadLen' = AadLen BY AadLenKept
<1>2. Bytes' = Bytes BY <1>1 DEF Bytes, Labels
<1>3. B0' = B0 BY <1>1 DEF B0, Byte
<1>4. Absorbed' = Absorbed BY <1>2, <1>3 DEF Absorbed, Blocks
<1>5. LengthPrefix' = LengthPrefix BY <1>1 DEF LengthPrefix, Prefix, Byte
<1>6. Stream' = Stream BY <1>5 DEF Stream
<1>7. AadBlocks' = AadBlocks BY <1>1, <1>6 DEF AadBlocks
<1> QED BY <1>1, <1>2, <1>3, <1>4, <1>5, <1>6, <1>7

\* The MAC's input in its three parts.
LEMMA MacInputIs ==
  ASSUME PrefixFits, NEW m
  PROVE  MacInput(m) = (<<B0>> \o AadBlocks) \o BlocksOf(m)
<1>1. LengthPrefix = Prefix(AadLen) BY DEF PrefixFits, LengthPrefix
<1> QED BY <1>1 DEF MacInput, AadBlocks, Stream

\* The zero byte and the length prefix are bytes.
LEMMA BytesIn ==
  /\ Zero \in Bytes
  /\ Byte(<<"len", AadLen % U16, 1>>) \in Bytes /\ Byte(<<"len", AadLen % U16, 2>>) \in Bytes
  /\ LengthPrefix \in Seq(Bytes)
  /\ Bytes \cup {Zero} = Bytes
<1>1. Zero \in Bytes BY DEF Bytes, Labels, Zero, Byte
<1>2. Byte(<<"len", AadLen % U16, 1>>) \in Bytes /\ Byte(<<"len", AadLen % U16, 2>>) \in Bytes
  BY DEF Bytes, Labels, Byte
<1>3. LengthPrefix \in Seq(Bytes)
  <2> HIDE DEF Bytes
  <2> QED BY <1>2 DEF LengthPrefix, Prefix
<1> HIDE DEF Bytes
<1> QED BY <1>1, <1>2, <1>3

\* The MAC's parts are sequences of blocks.
LEMMA MacTypes ==
  ASSUME aad \in Seq(Seq(Bytes)), NEW m \in Seq(Bytes), NEW q \in Nat
  PROVE  /\ Stream \in Seq(Bytes)
         /\ AadBlocks \in Seq(Absorbed)
         /\ BlocksOf(m) \in Seq(Absorbed)
         /\ BlocksUpTo(m, q) \in Seq(Absorbed)
         /\ <<B0>> \in Seq(Absorbed)
         /\ <<B0>> \o AadBlocks \in Seq(Absorbed)
<1>0. Blocks(Bytes) \subseteq Absorbed /\ B0 \in Absorbed BY DEF Absorbed
<1>1. Stream \in Seq(Bytes)
  <2>1. FlattenSeq(aad) \in Seq(Bytes)
    <3>1. <<>> \in Seq(Bytes) OBVIOUS
    <3> QED BY <3>1, FlattenAppend
  <2> QED BY <2>1, BytesIn, ConcatProperties DEF Stream
<1>2. \A s \in Seq(Bytes) : \A n \in Nat : BlocksUpTo(s, n) \in Seq(Absorbed)
  <2> TAKE s \in Seq(Bytes)
  <2> TAKE n \in Nat
  <2>1. BlocksUpTo(s, n) \in Seq(Blocks(Bytes)) BY BlocksType
  <2> QED BY <2>1, <1>0, SeqMonotonic
<1>3. \A s \in Seq(Bytes) : BlocksOf(s) \in Seq(Absorbed)
  <2> TAKE s \in Seq(Bytes)
  <2>1. Len(s) + BLOCK - 1 \in Nat BY LenProperties, AesAssumption
  <2>2. PICK j \in Nat : j = Len(s) + BLOCK - 1 BY <2>1
  <2>3. PICK n \in Nat : n = j \div BLOCK BY Quotient
  <2>4. BlocksOf(s) = BlocksUpTo(s, n) BY <2>2, <2>3 DEF BlocksOf, BlocksUpTo
  <2> QED BY <1>2, <2>4
<1>4. AadBlocks \in Seq(Absorbed)
  <2>1. <<>> \in Seq(Absorbed) OBVIOUS
  <2> QED BY <1>1, <1>3, <2>1 DEF AadBlocks
<1>5. <<B0>> \in Seq(Absorbed) BY <1>0
<1>6. <<B0>> \o AadBlocks \in Seq(Absorbed) BY <1>4, <1>5, ConcatProperties
<1> QED BY <1>1, <1>2, <1>3, <1>4, <1>5, <1>6

\* feed_padded, somewhere in the associated data: q blocks s have been absorbed.
FeedInv ==
    /\ AadLen > 0
    /\ feed \in Seq(Seq(Bytes)) /\ buf \in Seq(Bytes) /\ Len(buf) < BLOCK
    /\ \E s \in Seq(Bytes), q \in Nat :
         /\ Len(s) = q * BLOCK
         /\ AccDone = <<B0>> \o BlocksUpTo(s, q)
         /\ (s \o buf) \o FlattenSeq(feed) = Stream

\* The message, after q of its blocks.
MessageInv ==
    \E q \in Nat :
      /\ pos = q * BLOCK /\ (q = 0 \/ (q - 1) * BLOCK < Len(msg))
      /\ AccDone = (<<B0>> \o AadBlocks) \o BlocksUpTo(msg, q)

\* The MAC, where the job stands.
MacInv ==
    /\ phase # "feed" => buf = <<>>
    /\ phase \in {"b0", "feed", "s0", "masked"} => pos = 0
    /\ phase = "feed" => FeedInv
    /\ phase = "message" => MessageInv
    /\ phase \in {"s0", "masked"} => mac = MacInput(msg)

\* The items, the message and its original are bytes, and the length of the
\* items fits its prefix.
JobTypes ==
    /\ PrefixFits
    /\ aad \in Seq(Seq(Bytes)) /\ msg \in Seq(Bytes) /\ plain \in Seq(Bytes)
    /\ Len(msg) = Len(plain)

\* The MAC's input depends on the message, its length and the items alone.
LEMMA MacInputKept ==
  ASSUME aad' = aad, Len(msg') = Len(msg)
  PROVE  /\ msg' = msg => MacInput(msg)' = MacInput(msg)
         /\ plain' = plain => MacInput(plain)' = MacInput(plain)
<1>1. B0' = B0 /\ AadLen' = AadLen /\ LengthPrefix' = LengthPrefix BY JobConstants
<1> QED BY <1>1 DEF MacInput, BlocksOf, Chunk, Padded, Smaller

\* A step that absorbs nothing and moves nothing.
LEMMA MacKept ==
  ASSUME MacInv, UNCHANGED <<phase, aad, msg, feed, buf, pos, mac>>, AccDone' = AccDone
  PROVE  MacInv'
<1>1. /\ AadLen' = AadLen /\ Bytes' = Bytes /\ B0' = B0 /\ Stream' = Stream
      /\ AadBlocks' = AadBlocks
  BY JobConstants
<1>2. MacInput(msg)' = MacInput(msg) BY MacInputKept
<1>3. FeedInv => FeedInv' BY <1>1 DEF FeedInv, BlocksUpTo, Chunk, Padded, Smaller
<1>4. MessageInv => MessageInv' BY <1>1 DEF MessageInv, BlocksUpTo, Chunk, Padded, Smaller
<1> QED BY <1>2, <1>3, <1>4 DEF MacInv

\* ccm_mac starts: B0 alone is absorbed, whatever the accumulator held.
LEMMA FirstBlock ==
  ASSUME EngineInv, JobTypes, MacInv, MacB0
  PROVE  MacInv'
<1>1. /\ phase = "b0" /\ pos = 0 /\ buf = <<>>
      /\ UNCHANGED <<aad, msg, buf, pos, mac>>
      /\ phase' = IF AadLen > 0 THEN "feed" ELSE "message"
      /\ feed' = IF AadLen > 0 THEN <<LengthPrefix>> \o aad ELSE <<>>
  BY DEF MacB0, MacInv
<1>2. /\ AadLen' = AadLen /\ Bytes' = Bytes /\ B0' = B0 /\ Stream' = Stream
      /\ AadBlocks' = AadBlocks
  BY <1>1, JobConstants
<1>3. AccDone' = <<B0>>
  <2>1. AccDone' = Append(IF TRUE THEN <<>> ELSE AccDone, B0)
    BY MacStarted DEF MacB0
  <2> QED BY <2>1
<1>4. \A s \in Seq(Bytes) : <<B0>> \o BlocksUpTo(s, 0) = <<B0>> /\ BlocksUpTo(s, 0) = <<>>
  <2> TAKE s \in Seq(Bytes)
  <2>1. BlocksUpTo(s, 0) \in Seq(Absorbed) /\ <<B0>> \in Seq(Absorbed)
    BY MacTypes DEF JobTypes
  <2>2. BlocksUpTo(s, 0) \in Seq(Blocks(Bytes)) /\ Len(BlocksUpTo(s, 0)) = 0 BY BlocksType
  <2>3. BlocksUpTo(s, 0) = <<>> BY <2>2, EmptySeq
  <2> QED BY <2>1, <2>3, ConcatEmptySeq
<1>5. CASE AadLen > 0
  <2>1. /\ <<>> \in Seq(Bytes) /\ Len(<<>>) = 0 /\ 0 * BLOCK = 0 /\ 0 < BLOCK
        /\ <<>> \o <<>> = <<>>
    BY AesAssumption, Multiples
  <2>2. LengthPrefix \in Seq(Bytes) /\ aad \in Seq(Seq(Bytes)) BY BytesIn DEF JobTypes
  <2>3. feed' \in Seq(Seq(Bytes)) /\ FlattenSeq(feed') = Stream
    <3>1. PICK p \in Seq(Bytes) : p = LengthPrefix BY <2>2
    <3>2. <<p>> \in Seq(Seq(Bytes)) BY <3>1
    <3>3. FlattenSeq(<<p>> \o aad) = p \o FlattenSeq(aad) BY <2>2, FlattenCons
    <3>4. <<p>> \o aad \in Seq(Seq(Bytes)) BY <2>2, <3>2, ConcatProperties
    <3> QED BY <1>1, <1>5, <3>1, <3>3, <3>4 DEF Stream
  <2>4. (<<>> \o buf') \o FlattenSeq(feed') = Stream'
    <3>1. Stream \in Seq(Bytes) BY MacTypes DEF JobTypes
    <3> QED BY <1>1, <1>2, <2>1, <2>3, <3>1, ConcatEmptySeq
  <2>5. AccDone' = <<B0'>> \o BlocksUpTo(<<>>, 0)' 
    <3>1. BlocksUpTo(<<>>, 0)' = BlocksUpTo(<<>>, 0) BY DEF BlocksUpTo, Padded, Chunk, Smaller
    <3> QED BY <1>2, <1>3, <1>4, <2>1, <3>1
  <2>6. FeedInv'
    BY <1>1, <1>2, <1>5, <2>1, <2>3, <2>4, <2>5 DEF FeedInv
  <2> QED BY <1>1, <1>5, <2>6 DEF MacInv
<1>6. CASE ~(AadLen > 0)
  <2>1. AadBlocks = <<>> BY <1>6 DEF AadBlocks
  <2>2. <<B0>> \o AadBlocks = <<B0>>
    <3>1. <<B0>> \in Seq(Absorbed) BY MacTypes DEF JobTypes
    <3> QED BY <2>1, <3>1, ConcatEmptySeq
  <2>3. AccDone' = (<<B0'>> \o AadBlocks') \o BlocksUpTo(msg', 0)
    BY <1>1, <1>2, <1>3, <1>4, <2>2 DEF JobTypes
  <2>4. pos' = 0 * BLOCK /\ 0 \in Nat BY <1>1, Multiples
  <2>5. BlocksUpTo(msg, 0)' = BlocksUpTo(msg', 0) BY DEF BlocksUpTo, Padded, Chunk, Smaller
  <2>6. MessageInv' BY <2>3, <2>4, <2>5 DEF MessageInv
  <2> QED BY <1>1, <1>6, <2>6 DEF MacInv
<1> QED BY <1>5, <1>6

\* Absorbing one block after q full ones.
LEMMA Absorb ==
  ASSUME JobTypes, NEW s \in Seq(Bytes), NEW t \in Seq(Bytes), NEW q \in Nat,
         Len(s) = q * BLOCK, Len(t) \in 1 .. BLOCK,
         NEW u \in Seq(Absorbed)
  PROVE  Append(u \o BlocksUpTo(s, q), Padded(t)) = u \o BlocksUpTo(s \o t, q + 1)
<1>1. BlocksUpTo(s \o t, q + 1) = Append(BlocksUpTo(s, q), Padded(t)) BY LastBlock
<1>2. PICK b \in Absorbed : b = Padded(t) BY PaddedOf DEF Absorbed
<1>3. PICK v \in Seq(Absorbed) : v = BlocksUpTo(s, q) BY MacTypes DEF JobTypes
<1>4. u \o Append(v, b) = Append(u \o v, b) BY ConcatAppend
<1> QED BY <1>1, <1>2, <1>3, <1>4

\* What one turn of feed_padded takes of an item, and what it leaves.
LEMMA Split ==
  ASSUME NEW S, NEW r \in Seq(S), NEW n \in 0 .. Len(r)
  PROVE  /\ SubSeq(r, 1, n) \in Seq(S) /\ SubSeq(r, n + 1, Len(r)) \in Seq(S)
         /\ Len(SubSeq(r, 1, n)) = n
         /\ SubSeq(r, 1, n) \o SubSeq(r, n + 1, Len(r)) = r
<1>1. Len(r) \in Nat /\ \A i \in 1 .. Len(r) : r[i] \in S BY LenProperties, ElementOfSeq
<1>2. SubSeq(r, 1, Len(r)) = r BY <1>1
<1>3. SubSeq(r, 1, n) \in Seq(S) /\ Len(SubSeq(r, 1, n)) = n BY <1>1
<1>4. SubSeq(r, n + 1, Len(r)) \in Seq(S) BY <1>1
<1>5. SubSeq(r, 1, n) \o SubSeq(r, n + 1, Len(r)) = SubSeq(r, 1, Len(r))
  <2>1. 1 \in 1 .. Len(r) + 1 /\ n \in 1 - 1 .. Len(r) /\ Len(r) \in n .. Len(r) BY <1>1
  <2> QED BY <2>1, ConcatAdjacentSubSeq
<1> QED BY <1>2, <1>3, <1>4, <1>5

\* feed_padded: what has been absorbed, what is buffered and what is still to
\* come stay the associated data, wherever the generator's items end.
LEMMA FeedStep ==
  ASSUME EngineInv, JobTypes, MacInv, FeedPadded
  PROVE  MacInv'
<1> DEFINE item == Head(feed)
           take == Smaller(BLOCK - Len(buf), Len(item))
           part == SubSeq(item, 1, take)
           rest == SubSeq(item, take + 1, Len(item))
           next == buf \o part
<1>1. /\ phase = "feed" /\ feed # <<>> /\ pos = 0
      /\ UNCHANGED <<phase, aad, msg, pos, mac>>
      /\ feed' = IF rest = <<>> THEN Tail(feed) ELSE <<rest>> \o Tail(feed)
      /\ \/ /\ Len(next) = BLOCK
            /\ CbcMacBlock(next, FALSE, async) /\ buf' = <<>>
         \/ /\ Len(next) < BLOCK
            /\ buf' = next /\ UNCHANGED vars
  BY Zenon DEF FeedPadded, MacInv
<1>2. /\ AadLen' = AadLen /\ Bytes' = Bytes /\ B0' = B0 /\ Stream' = Stream
  BY <1>1, JobConstants
<1>3. /\ AadLen > 0 /\ feed \in Seq(Seq(Bytes)) /\ buf \in Seq(Bytes) /\ Len(buf) < BLOCK
  BY <1>1 DEF MacInv, FeedInv
<1>4. PICK s \in Seq(Bytes), q \in Nat :
         /\ Len(s) = q * BLOCK
         /\ AccDone = <<B0>> \o BlocksUpTo(s, q)
         /\ (s \o buf) \o FlattenSeq(feed) = Stream
  BY <1>1 DEF MacInv, FeedInv
<1>5. item \in Seq(Bytes) /\ Tail(feed) \in Seq(Seq(Bytes)) /\ feed = <<item>> \o Tail(feed)
  <2>1. item \in Seq(Bytes) /\ Tail(feed) \in Seq(Seq(Bytes)) BY <1>1, <1>3, HeadTailProperties
  <2>2. feed = <<item>> \o Tail(feed) BY <1>1, <1>3
  <2> QED BY <2>1, <2>2
<1>6. /\ take \in 0 .. Len(item) /\ Len(buf) + take <= BLOCK /\ Len(buf) \in Nat
      /\ BLOCK \in Nat
  <2>1. Len(buf) \in Nat /\ Len(item) \in Nat /\ BLOCK \in Nat
    BY <1>3, <1>5, LenProperties, AesAssumption
  <2> QED BY <1>3, <2>1 DEF Smaller
<1> HIDE DEF item, take
<1>7. /\ part \in Seq(Bytes) /\ rest \in Seq(Bytes) /\ Len(part) = take
      /\ part \o rest = item
  BY <1>5, <1>6, Split
<1> HIDE DEF part, rest
<1>8. next \in Seq(Bytes) /\ Len(next) = Len(buf) + take
  BY <1>3, <1>7, ConcatProperties
<1>9. FlattenSeq(feed) = item \o FlattenSeq(Tail(feed)) /\ FlattenSeq(Tail(feed)) \in Seq(Bytes)
  <2>1. PICK t \in Seq(Seq(Bytes)) : t = Tail(feed) BY <1>5
  <2>2. FlattenSeq(<<item>> \o t) = item \o FlattenSeq(t) BY <1>5, FlattenCons
  <2>3. <<>> \in Seq(Bytes) OBVIOUS
  <2>4. FlattenSeq(t) \in Seq(Bytes) BY <2>3, FlattenAppend
  <2> QED BY <1>5, <2>1, <2>2, <2>4
<1>10. FlattenSeq(feed') = rest \o FlattenSeq(Tail(feed)) /\ feed' \in Seq(Seq(Bytes))
  <2>1. PICK t \in Seq(Seq(Bytes)) : t = Tail(feed) BY <1>5
  <2>2. CASE rest = <<>>
    BY <1>1, <1>9, <2>1, <2>2, ConcatEmptySeq
  <2>3. CASE rest # <<>>
    <3>1. FlattenSeq(<<rest>> \o t) = rest \o FlattenSeq(t) BY <1>7, FlattenCons
    <3>2. <<rest>> \in Seq(Seq(Bytes)) BY <1>7
    <3>3. <<rest>> \o t \in Seq(Seq(Bytes)) BY <3>2, ConcatProperties
    <3> QED BY <1>1, <2>1, <2>3, <3>1, <3>3
  <2> QED BY <2>2, <2>3
<1>11. (s \o next) \o FlattenSeq(feed') = Stream
  <2>1. PICK f \in Seq(Bytes) : f = FlattenSeq(Tail(feed)) BY <1>9
  <2>2. (s \o buf) \o ((part \o rest) \o f) = (s \o (buf \o part)) \o (rest \o f)
    <3>1. /\ buf \in Seq(Bytes) /\ part \in Seq(Bytes) /\ rest \in Seq(Bytes)
          /\ s \in Seq(Bytes) /\ f \in Seq(Bytes)
      BY <1>3, <1>4, <1>7, <2>1
    <3>2. Regrouped(s, buf, part, rest, f) BY <3>1, Regroup
    <3> QED BY <3>2 DEF Regrouped
  <2> QED BY <1>4, <1>7, <1>9, <1>10, <2>1, <2>2
<1> HIDE DEF next
<1>12. CASE Len(next) = BLOCK /\ CbcMacBlock(next, FALSE, async) /\ buf' = <<>>
  <2>1. AccDone' = Append(AccDone, next)
    <3>1. AccDone' = Append(IF FALSE THEN <<>> ELSE AccDone, next)
      BY <1>12, MacStarted
    <3> QED BY <3>1
  <2>2. Padded(next) = next BY <1>8, <1>12, PaddedOf
  <2>3. Len(next) \in 1 .. BLOCK BY <1>12, AesAssumption
  <2>4. PICK u \in Seq(Absorbed) : u = <<B0>> BY MacTypes DEF JobTypes
  <2>5. Append(u \o BlocksUpTo(s, q), Padded(next)) = u \o BlocksUpTo(s \o next, q + 1)
    BY <1>4, <1>8, <2>3, Absorb
  <2>6. PICK r \in Seq(Bytes) : r = s \o next BY <1>8, ConcatProperties
  <2>7. PICK n \in Nat : n = q + 1 OBVIOUS
  <2>8. Len(r) = n * BLOCK
    <3>1. n * BLOCK = q * BLOCK + BLOCK BY <2>7, Multiples
    <3>2. Len(r) = Len(s) + Len(next) BY <1>8, <2>6, ConcatProperties
    <3> QED BY <1>4, <1>12, <3>1, <3>2
  <2>9. AccDone' = <<B0>> \o BlocksUpTo(r, n)
    BY <1>4, <2>1, <2>2, <2>4, <2>5, <2>6, <2>7
  <2>10. (r \o buf') \o FlattenSeq(feed') = Stream
    <3>1. r \o <<>> = r BY ConcatEmptySeq
    <3> QED BY <1>11, <1>12, <2>6, <3>1
  <2>11. BlocksUpTo(r, n)' = BlocksUpTo(r, n) BY DEF BlocksUpTo, Padded, Chunk, Smaller
  <2>12. buf' \in Seq(Bytes) /\ Len(buf') < BLOCK BY <1>12, AesAssumption
  <2>13. FeedInv'
    BY <1>2, <1>3, <1>10, <2>8, <2>9, <2>10, <2>11, <2>12 DEF FeedInv
  <2> QED BY <1>1, <2>13 DEF MacInv
<1>13. CASE Len(next) < BLOCK /\ buf' = next /\ UNCHANGED vars
  <2>1. AccDone' = AccDone
    BY <1>13 DEF vars, regs, hw, AccDone
  <2>2. BlocksUpTo(s, q)' = BlocksUpTo(s, q) BY DEF BlocksUpTo, Padded, Chunk, Smaller
  <2>3. FeedInv'
    BY <1>2, <1>3, <1>4, <1>8, <1>10, <1>11, <1>13, <2>1, <2>2 DEF FeedInv
  <2> QED BY <1>1, <2>3 DEF MacInv
<1> QED BY <1>1, <1>12, <1>13

\* The partial block is absorbed, padded: the associated data is complete.
LEMMA FlushStep ==
  ASSUME EngineInv, JobTypes, MacInv, FlushAad
  PROVE  MacInv'
<1>1. /\ phase = "feed" /\ feed = <<>> /\ pos = 0
      /\ \/ buf # <<>> /\ CbcMacBlock(Padded(buf), FALSE, async)
         \/ buf = <<>> /\ UNCHANGED vars
      /\ buf' = <<>> /\ phase' = "message" /\ UNCHANGED <<aad, msg, pos, mac>>
  BY DEF FlushAad, MacInv
<1>2. B0' = B0 /\ AadBlocks' = AadBlocks BY <1>1, JobConstants
<1>3. AadLen > 0 /\ buf \in Seq(Bytes) /\ Len(buf) < BLOCK
  BY <1>1 DEF MacInv, FeedInv
<1>4. PICK s \in Seq(Bytes), q \in Nat :
         /\ Len(s) = q * BLOCK
         /\ AccDone = <<B0>> \o BlocksUpTo(s, q)
         /\ (s \o buf) \o FlattenSeq(feed) = Stream
  BY <1>1 DEF MacInv, FeedInv
<1>5. s \o buf = Stream
  <2>1. FlattenSeq(feed) = <<>> BY <1>1 DEF FlattenSeq
  <2>2. PICK r \in Seq(Bytes) : r = s \o buf BY <1>3, ConcatProperties
  <2> QED BY <1>4, <2>1, <2>2, ConcatEmptySeq
<1>6. AccDone' = <<B0>> \o BlocksOf(Stream)
  <2>1. CASE buf # <<>> /\ CbcMacBlock(Padded(buf), FALSE, async)
    <3>1. AccDone' = Append(AccDone, Padded(buf))
      <4>1. AccDone' = Append(IF FALSE THEN <<>> ELSE AccDone, Padded(buf))
        BY <2>1, MacStarted
      <4> QED BY <4>1
    <3>2. Len(buf) \in 1 .. BLOCK
      <4>1. Len(buf) \in Nat \ {0} /\ BLOCK \in Nat BY <1>3, <2>1, EmptySeq, AesAssumption
      <4> QED BY <1>3, <4>1
    <3>3. PICK u \in Seq(Absorbed) : u = <<B0>> BY MacTypes DEF JobTypes
    <3>4. Append(u \o BlocksUpTo(s, q), Padded(buf)) = u \o BlocksUpTo(s \o buf, q + 1)
      <4>1. s \in Seq(Bytes) /\ q \in Nat /\ Len(s) = q * BLOCK BY <1>4
      <4>2. buf \in Seq(Bytes) BY <1>3
      <4>3. u \in Seq(Absorbed) BY <3>3
      <4> QED BY <3>2, <4>1, <4>2, <4>3, Absorb, ZenonT(40)
    <3>5. BlocksOf(s \o buf) = BlocksUpTo(s \o buf, q + 1)
      BY <1>3, <1>4, <3>2, LastBlock
    <3> QED BY <1>4, <1>5, <3>1, <3>3, <3>4, <3>5
  <2>2. CASE buf = <<>> /\ UNCHANGED vars
    <3>1. AccDone' = AccDone BY <2>2 DEF vars, regs, hw, AccDone
    <3>2. s = Stream BY <1>4, <1>5, <2>2, ConcatEmptySeq
    <3>3. BlocksOf(s) = BlocksUpTo(s, q)
      <4>1. Len(s) <= q * BLOCK /\ (q = 0 \/ (q - 1) * BLOCK < Len(s))
        <5>1. CASE q = 0 BY <1>4, <5>1, Multiples
        <5>2. CASE q # 0
          <6>1. PICK p \in Nat : q = p + 1 BY <1>4, <5>2
          <6>2. q * BLOCK = p * BLOCK + BLOCK /\ p * BLOCK \in Nat BY <6>1, Multiples
          <6> QED BY <1>4, <6>1, <6>2, AesAssumption
        <5> QED BY <5>1, <5>2
      <4> QED BY <1>4, <4>1, AllBlocks
    <3> QED BY <1>4, <3>1, <3>2, <3>3
  <2> QED BY <1>1, <2>1, <2>2
<1>7. AccDone' = (<<B0'>> \o AadBlocks') \o BlocksUpTo(msg', 0)
  <2>1. PICK u \in Seq(Absorbed) : u = <<B0>> \o AadBlocks BY MacTypes DEF JobTypes
  <2>2. BlocksUpTo(msg, 0) = <<>> BY BlocksType, EmptySeq DEF JobTypes
  <2>3. AadBlocks = BlocksOf(Stream) BY <1>3 DEF AadBlocks
  <2>4. u \o <<>> = u BY <2>1, ConcatEmptySeq
  <2> QED BY <1>1, <1>2, <1>6, <2>1, <2>2, <2>3, <2>4
<1>8. BlocksUpTo(msg, 0)' = BlocksUpTo(msg', 0) BY DEF BlocksUpTo, Padded, Chunk, Smaller
<1>9. pos' = 0 * BLOCK /\ 0 \in Nat BY <1>1, Multiples
<1>10. MessageInv' BY <1>7, <1>8, <1>9 DEF MessageInv
<1> QED BY <1>1, <1>10 DEF MacInv

\* One block of the message is absorbed.
LEMMA MessageStep ==
  ASSUME EngineInv, JobTypes, MacInv, MacMessage
  PROVE  MacInv'
<1>1. /\ phase = "message" /\ pos < Len(msg) /\ pos' = pos + BLOCK
      /\ CbcMacBlock(Padded(Chunk(msg, pos)), FALSE, async)
      /\ UNCHANGED <<phase, aad, msg, buf, mac>>
  BY DEF MacMessage
<1>2. B0' = B0 /\ AadBlocks' = AadBlocks BY <1>1, JobConstants
<1>3. PICK q \in Nat :
      /\ pos = q * BLOCK /\ (q = 0 \/ (q - 1) * BLOCK < Len(msg))
      /\ AccDone = (<<B0>> \o AadBlocks) \o BlocksUpTo(msg, q)
  BY <1>1 DEF MacInv, MessageInv
<1>4. AccDone' = Append(AccDone, Padded(Chunk(msg, pos)))
  <2>1. AccDone' = Append(IF FALSE THEN <<>> ELSE AccDone, Padded(Chunk(msg, pos)))
    BY <1>1, MacStarted
  <2> QED BY <2>1
<1>5. BlocksUpTo(msg, q + 1) = Append(BlocksUpTo(msg, q), Padded(Chunk(msg, pos)))
  BY <1>3, OneBlockMore DEF JobTypes
<1>6. PICK u \in Seq(Absorbed) : u = <<B0>> \o AadBlocks BY MacTypes DEF JobTypes
<1>7. PICK v \in Seq(Absorbed) : v = BlocksUpTo(msg, q) BY MacTypes DEF JobTypes
<1>8. PICK b \in Absorbed : b = Padded(Chunk(msg, pos))
  <2>1. pos \in Nat BY <1>3, Multiples
  <2>2. Padded(Chunk(msg, pos)) \in Blocks(Bytes) BY <2>1, ChunkOf, PaddedOf DEF JobTypes
  <2> QED BY <2>2 DEF Absorbed
<1>9. u \o Append(v, b) = Append(u \o v, b) BY <1>6, <1>7, <1>8, ConcatAppend
<1>10. PICK n \in Nat : n = q + 1 OBVIOUS
<1>11. AccDone' = (<<B0>> \o AadBlocks) \o BlocksUpTo(msg, n)
  BY <1>3, <1>4, <1>5, <1>6, <1>7, <1>8, <1>9, <1>10
<1>12. pos' = n * BLOCK /\ (n - 1) * BLOCK < Len(msg')
  <2>1. n * BLOCK = q * BLOCK + BLOCK BY <1>10, Multiples
  <2>2. n - 1 = q BY <1>10
  <2> QED BY <1>1, <1>3, <2>1, <2>2
<1>13. BlocksUpTo(msg, n)' = BlocksUpTo(msg, n)
  BY <1>1 DEF BlocksUpTo, Padded, Chunk, Smaller
<1>14. MessageInv' BY <1>2, <1>11, <1>12, <1>13 DEF MessageInv
<1> QED BY <1>1, <1>14 DEF MacInv

\* The result is taken when every block is.
LEMMA ResultStep ==
  ASSUME EngineInv, JobTypes, MacInv, MacResult
  PROVE  MacInv'
<1>1. /\ phase = "message" /\ pc = "idle" /\ pos >= Len(msg) /\ buf' = buf
      /\ mac' = acc /\ pos' = 0 /\ phase' = "s0" /\ aad' = aad /\ msg' = msg
  BY DEF MacResult
<1>2. PICK q \in Nat :
      /\ pos = q * BLOCK /\ (q = 0 \/ (q - 1) * BLOCK < Len(msg))
      /\ AccDone = (<<B0>> \o AadBlocks) \o BlocksUpTo(msg, q)
  BY <1>1 DEF MacInv, MessageInv
<1>3. AccDone = acc BY <1>1, AllDone
<1>4. BlocksOf(msg) = BlocksUpTo(msg, q)
  <2>1. Len(msg) <= q * BLOCK BY <1>1, <1>2, Multiples, LenProperties DEF JobTypes
  <2> QED BY <1>2, <2>1, AllBlocks DEF JobTypes
<1>5. mac' = MacInput(msg) BY <1>1, <1>2, <1>3, <1>4, MacInputIs DEF JobTypes
<1>6. MacInput(msg)' = MacInput(msg) BY <1>1, MacInputKept
<1> QED BY <1>1, <1>5, <1>6 DEF MacInv

\* A step to a phase that knows nothing of the MAC.
LEMMA MacOutside ==
  ASSUME MacInv, phase # "feed", buf' = buf,
         phase' \notin {"feed", "message", "s0", "masked"}, phase' = "b0" => pos' = 0
  PROVE  MacInv'
BY DEF MacInv

\* Masking the tag leaves the MAC as it is.
LEMMA MacMasked ==
  ASSUME MacInv, MaskTag
  PROVE  MacInv'
<1>1. phase = "s0" /\ phase' = "masked" /\ UNCHANGED <<aad, msg, buf, pos, mac>>
  BY DEF MaskTag
<1>2. MacInput(msg)' = MacInput(msg) BY <1>1, MacInputKept
<1> QED BY <1>1, <1>2 DEF MacInv

(***************************************************************************)
(* The message.                                                            *)
(***************************************************************************)
\* The value of byte i, its altered value, and its keystream byte.
Good(i) == <<"msg", 0, i>>
Bad(i) == <<"bad", 0, i>>
Key(i) == <<Counter(i - 1), ((i - 1) % BLOCK) + 1>>

\* Has the keystream been put on byte i and not yet been taken off again?
Crypted(i) ==
    \/ dir = "encrypt" /\ phase = "ctr" /\ i <= pos
    \/ dir = "sent"
    \/ dir = "decrypt" /\ phase = "ctr" /\ i > pos

MessageBytes ==
    \A i \in 1 .. Len(msg) :
      msg[i].v \in {Good(i), Bad(i)} /\ msg[i].ks = IF Crypted(i) THEN {Key(i)} ELSE {}

Tampered == \E i \in 1 .. Len(msg) : msg[i].v = Bad(i)

TagMask == {<<0, 1>>}

\* The tag on its way: masked, and altered or the message's own.
TagInv ==
    \/ tag = <<<<>>, TagMask>> /\ altered
    \/ tag = <<MacInput(plain), TagMask>> /\ (altered => Tampered)

\* The CTR pass, at block q.
CtrInv ==
    \E q \in Nat : /\ pos = q * BLOCK
                   /\ pc # "idle" => /\ pos < Len(msg)
                                     /\ ResultDone = Xor(Padded(Chunk(msg, pos)), (q + 1) % U16)

\* The message and its tag, where the job stands.
MsgInv ==
    /\ \A i \in 1 .. Len(plain) : plain[i] = Byte(Good(i))
    /\ dir # "rejected" => MessageBytes /\ (~altered => ~Tampered)
    /\ dir \in {"encrypt", "sent"} => ~altered
    /\ dir \in {"sent", "decrypt"} \/ (dir = "encrypt" /\ phase = "ctr") => TagInv
    /\ phase = "masked" => ResultDone = Xor(ZeroBlock, 0)
    /\ phase = "ctr" => CtrInv
    /\ RoundTrip

\* A step that leaves the message, the tag and the result alone.
LEMMA MsgQuiet ==
  ASSUME MsgInv, UNCHANGED <<dir, phase, aad, plain, msg, pos, tag, altered>>,
         ResultDone' = ResultDone, phase = "ctr" => (pc = "idle" <=> pc' = "idle")
  PROVE  MsgInv'
<1>1. MacInput(plain)' = MacInput(plain) BY MacInputKept
<1>2. TagInv => TagInv' BY <1>1 DEF TagInv, Tampered, Bad, TagMask
<1>3. phase = "ctr" /\ CtrInv => CtrInv' BY DEF CtrInv, Xor, Padded, Chunk, Smaller
<1>4. MessageBytes => MessageBytes' BY DEF MessageBytes, Crypted, Good, Bad, Key, Counter
<1>5. Tampered' <=> Tampered BY DEF Tampered, Bad
<1>6. RoundTrip => RoundTrip' BY DEF RoundTrip
<1>7. \A i \in 1 .. Len(plain') : plain'[i] = Byte(Good(i)) BY DEF MsgInv
<1>8. \A i : Byte(Good(i))' = Byte(Good(i)) BY DEF Byte, Good
<1> QED BY <1>2, <1>3, <1>4, <1>5, <1>6, <1>7, <1>8 DEF MsgInv, Xor

\* The MAC's steps leave the message and the tag alone.
LEMMA MsgMacSteps ==
  ASSUME MsgInv, UNCHANGED <<dir, aad, plain, msg, tag, altered>>,
         phase \notin {"ctr", "masked", "none"}, phase' \notin {"ctr", "masked"}
  PROVE  MsgInv'
<1>1. MacInput(plain)' = MacInput(plain) BY MacInputKept
<1>2. TagInv => TagInv' BY <1>1 DEF TagInv, Tampered, Bad, TagMask
<1>4. MessageBytes => MessageBytes' BY DEF MessageBytes, Crypted, Good, Bad, Key, Counter
<1>5. Tampered' <=> Tampered BY DEF Tampered, Bad
<1>6. RoundTrip => RoundTrip' BY DEF RoundTrip
<1>7. \A i \in 1 .. Len(plain') : plain'[i] = Byte(Good(i)) BY DEF MsgInv
<1> QED BY <1>2, <1>4, <1>5, <1>6, <1>7 DEF MsgInv

\* The items, and a message of the same length.
LEMMA TypesKept ==
  ASSUME JobTypes, aad' = aad, plain' = plain, msg' \in Seq(Bytes), Len(msg') = Len(msg)
  PROVE  JobTypes'
<1>1. Bytes' = Bytes /\ AadLen' = AadLen BY JobConstants
<1> QED BY <1>1 DEF JobTypes, PrefixFits

\* XOR with the keystream: the value stays, the keystream is put on a byte
\* that is plain and taken off one that it is on.
LEMMA XorOf ==
  ASSUME NEW b \in [1 .. BLOCK -> Bytes], NEW c \in Nat
  PROVE  /\ Xor(b, c) \in [1 .. BLOCK -> Bytes]
         /\ \A i \in 1 .. BLOCK :
              /\ Xor(b, c)[i].v = b[i].v
              /\ b[i].ks = {} => Xor(b, c)[i].ks = {<<c, i>>}
              /\ b[i].ks = {<<c, i>>} => Xor(b, c)[i].ks = {}
<1>1. ASSUME NEW i \in 1 .. BLOCK
      PROVE  /\ Xor(b, c)[i] \in Bytes
             /\ Xor(b, c)[i].v = b[i].v
             /\ Xor(b, c)[i].ks = (b[i].ks \ {<<c, i>>}) \cup ({<<c, i>>} \ b[i].ks)
  <2>1. b[i] \in Bytes BY AesAssumption
  <2>2. <<c, i>> \in Nat \X Nat BY AesAssumption
  <2>3. Xor(b, c)[i] = [b[i] EXCEPT !.ks = (b[i].ks \ {<<c, i>>}) \cup ({<<c, i>>} \ b[i].ks)]
    BY DEF Xor
  <2> QED BY <2>1, <2>2, <2>3 DEF Bytes
<1>2. Xor(b, c) \in [1 .. BLOCK -> Bytes]
  <2>1. Xor(b, c) = [i \in 1 .. BLOCK |-> Xor(b, c)[i]] BY DEF Xor
  <2> QED BY <1>1, <2>1
<1> QED BY <1>1, <1>2

\* The tag's mask is the keystream of counter 0.
LEMMA MaskStep ==
  ASSUME MsgInv, MaskTag
  PROVE  MsgInv'
<1>1. /\ phase = "s0" /\ phase' = "masked" /\ CtrBlock(0, ZeroBlock, async)
      /\ UNCHANGED <<dir, aad, plain, msg, pos, tag, altered>>
  BY DEF MaskTag
<1>2. ResultDone' = Xor(ZeroBlock, 0) BY <1>1, CtrStarted
<1>3. Xor(ZeroBlock, 0)' = Xor(ZeroBlock, 0) BY DEF Xor, ZeroBlock, Zero, Byte
<1>4. MacInput(plain)' = MacInput(plain) BY <1>1, MacInputKept
<1>5. TagInv => TagInv' BY <1>1, <1>4 DEF TagInv, Tampered, Bad, TagMask
<1>6. MessageBytes => MessageBytes' BY <1>1 DEF MessageBytes, Crypted, Good, Bad, Key, Counter
<1>7. Tampered' <=> Tampered BY <1>1 DEF Tampered, Bad
<1>8. RoundTrip => RoundTrip' BY <1>1 DEF RoundTrip
<1>9. \A i \in 1 .. Len(plain') : plain'[i] = Byte(Good(i)) BY <1>1 DEF MsgInv
<1> QED BY <1>1, <1>2, <1>3, <1>5, <1>6, <1>7, <1>8, <1>9 DEF MsgInv

\* A chunk is given to the engine under the counter of its place.
LEMMA CtrStart ==
  ASSUME MsgInv, CtrCrypt
  PROVE  MsgInv'
<1>1. /\ phase = "ctr" /\ phase' = phase /\ pos < Len(msg)
      /\ CtrBlock(Counter(pos), Padded(Chunk(msg, pos)), async)
      /\ UNCHANGED <<dir, aad, plain, msg, pos, tag, altered>>
  BY DEF CtrCrypt
<1>2. PICK q \in Nat : pos = q * BLOCK BY <1>1 DEF MsgInv, CtrInv
<1>3. pos \div BLOCK = q
  <2>1. PICK n \in Nat : n = q * BLOCK BY Multiples
  <2> QED BY <1>2, <2>1, DivIs, AesAssumption
<1>4. ResultDone' = Xor(Padded(Chunk(msg, pos)), (q + 1) % U16)
  BY <1>1, <1>3, CtrStarted DEF Counter
<1>5. CtrInv' BY <1>1, <1>2, <1>4 DEF CtrInv, Xor, Padded, Chunk, Smaller
<1>6. MacInput(plain)' = MacInput(plain) BY <1>1, MacInputKept
<1>7. TagInv => TagInv' BY <1>1, <1>6 DEF TagInv, Tampered, Bad, TagMask
<1>8. MessageBytes => MessageBytes' BY <1>1 DEF MessageBytes, Crypted, Good, Bad, Key, Counter
<1>9. Tampered' <=> Tampered BY <1>1 DEF Tampered, Bad
<1>10. RoundTrip => RoundTrip' BY <1>1 DEF RoundTrip
<1>11. \A i \in 1 .. Len(plain') : plain'[i] = Byte(Good(i)) BY <1>1 DEF MsgInv
<1> QED BY <1>1, <1>5, <1>7, <1>8, <1>9, <1>10, <1>11 DEF MsgInv

\* The keystream byte of a byte of block q.
LEMMA KeyOf ==
  ASSUME NEW q \in Nat, NEW p \in Nat, p = q * BLOCK, NEW i \in p + 1 .. p + BLOCK
  PROVE  Key(i) = <<(q + 1) % U16, i - p>>
<1>1. PICK n \in Nat : n = i - 1 OBVIOUS
<1>2. BLOCK \in Nat /\ q * BLOCK <= n /\ n < q * BLOCK + BLOCK BY <1>1, AesAssumption
<1>3. n \div BLOCK = q /\ n % BLOCK = n - q * BLOCK BY <1>2, DivIs
<1>4. (n - p) + 1 = i - p BY <1>1
<1> QED BY <1>1, <1>3, <1>4 DEF Key, Counter

\* A chunk comes back: exactly its bytes are encrypted, or decrypted, and each
\* under its own keystream byte; the padding is not copied.
LEMMA CtrDone ==
  ASSUME EngineInv, CounterInv, JobTypes, MsgInv, OpDone, phase = "ctr"
  PROVE  MsgInv' /\ JobTypes'
<1>1. /\ pc = "ready" /\ pc' = "idle" /\ pos' = pos + BLOCK /\ phase' = phase
      /\ msg' = [i \in 1 .. Len(msg) |->
                   IF i \in pos + 1 .. pos + BLOCK THEN result[i - pos] ELSE msg[i]]
      /\ UNCHANGED <<dir, aad, plain, tag, altered>>
  BY DEF OpDone
<1>2. PICK q \in Nat : pos = q * BLOCK /\ pos < Len(msg)
                       /\ ResultDone = Xor(Padded(Chunk(msg, pos)), (q + 1) % U16)
  BY <1>1 DEF MsgInv, CtrInv
<1>3. pos \in Nat /\ BLOCK \in Nat /\ BLOCK > 0 /\ Len(msg) \in Nat
  BY <1>2, Multiples, AesAssumption, LenProperties DEF JobTypes
<1>4. dir \in {"encrypt", "decrypt"} BY DEF CounterInv
<1>5. PICK b \in [1 .. BLOCK -> Bytes] : b = Padded(Chunk(msg, pos))
  <2>1. Padded(Chunk(msg, pos)) \in Blocks(Bytes) BY <1>3, ChunkOf, PaddedOf DEF JobTypes
  <2> QED BY <2>1, BytesIn DEF Blocks
<1>6. PICK c \in Nat : c = (q + 1) % U16 BY CcmAssumption
<1>7. result = Xor(b, c) BY <1>1, <1>2, <1>5, <1>6, AllDone
<1>8. /\ result \in [1 .. BLOCK -> Bytes]
      /\ \A k \in 1 .. BLOCK :
              /\ result[k].v = b[k].v
              /\ b[k].ks = {} => result[k].ks = {<<c, k>>}
              /\ b[k].ks = {<<c, k>>} => result[k].ks = {}
  <2>1. b \in [1 .. BLOCK -> Bytes] /\ c \in Nat BY <1>5, <1>6
  <2>2. /\ Xor(b, c) \in [1 .. BLOCK -> Bytes]
        /\ \A k \in 1 .. BLOCK :
              /\ Xor(b, c)[k].v = b[k].v
              /\ b[k].ks = {} => Xor(b, c)[k].ks = {<<c, k>>}
              /\ b[k].ks = {<<c, k>>} => Xor(b, c)[k].ks = {}
    BY <2>1, XorOf
  <2> QED BY <1>7, <2>2
<1>9. \A k \in 1 .. BLOCK : pos + k <= Len(msg) => b[k] = msg[pos + k]
  BY <1>2, <1>5, ByteInBlock DEF JobTypes
<1>10. \A i \in 1 .. Len(msg) : msg[i] \in Bytes BY ElementOfSeq DEF JobTypes
<1>11. \A i \in 1 .. Len(msg) : msg'[i] \in Bytes
  <2> SUFFICES ASSUME NEW i \in 1 .. Len(msg) PROVE msg'[i] \in Bytes
    OBVIOUS
  <2>1. msg'[i] = IF i \in pos + 1 .. pos + BLOCK THEN result[i - pos] ELSE msg[i]
    BY <1>1
  <2>2. i \in pos + 1 .. pos + BLOCK => i - pos \in 1 .. BLOCK BY <1>3
  <2> QED BY <1>8, <1>10, <2>1, <2>2
<1>12. msg' \in Seq(Bytes) /\ Len(msg') = Len(msg)
  <2>1. msg' = [i \in 1 .. Len(msg) |-> msg'[i]] BY <1>1
  <2>2. msg' \in [1 .. Len(msg) -> Bytes] BY <1>11, <2>1
  <2> QED BY <1>3, <2>2
<1>13. ASSUME NEW i \in 1 .. Len(msg)
       PROVE  /\ msg'[i].v = msg[i].v
              /\ msg'[i].ks = IF Crypted(i)' THEN {Key(i)} ELSE {}
  <2>1. msg'[i] = IF i \in pos + 1 .. pos + BLOCK THEN result[i - pos] ELSE msg[i]
    BY <1>1
  <2>2. msg[i].ks = IF Crypted(i) THEN {Key(i)} ELSE {}
    BY <1>4 DEF MsgInv, MessageBytes
  <2>3. CASE i \in pos + 1 .. pos + BLOCK
    <3>1. PICK k \in 1 .. BLOCK : k = i - pos BY <1>3, <2>3
    <3>2. pos + k = i /\ i > pos /\ ~(i <= pos) /\ i <= pos' /\ ~(i > pos')
      BY <1>1, <1>3, <2>3, <3>1
    <3>3. b[k] = msg[i] BY <1>9, <3>2
    <3>4. Key(i) = <<c, k>> BY <1>2, <1>3, <1>6, <2>3, <3>1, KeyOf
    <3>5. msg'[i] = result[k] BY <2>1, <2>3, <3>1
    <3>6. CASE dir = "encrypt"
      <4>1. ~Crypted(i) /\ Crypted(i)' BY <1>1, <3>2, <3>6 DEF Crypted
      <4> QED BY <1>8, <2>2, <3>3, <3>4, <3>5, <4>1
    <3>7. CASE dir = "decrypt"
      <4>1. Crypted(i) /\ ~Crypted(i)' BY <1>1, <3>2, <3>7 DEF Crypted
      <4> QED BY <1>8, <2>2, <3>3, <3>4, <3>5, <4>1
    <3> QED BY <1>4, <3>6, <3>7
  <2>4. CASE i \notin pos + 1 .. pos + BLOCK
    <3>1. i <= pos <=> i <= pos' BY <1>1, <1>3, <2>4
    <3>2. i > pos <=> i > pos' BY <1>1, <1>3, <2>4
    <3>3. Crypted(i)' <=> Crypted(i) BY <1>1, <1>4, <3>1, <3>2 DEF Crypted
    <3> QED BY <2>1, <2>2, <2>4, <3>3
  <2> QED BY <2>3, <2>4
<1>14. MessageBytes'
  <2>1. MessageBytes BY <1>4 DEF MsgInv
  <2> QED BY <1>12, <1>13, <2>1 DEF MessageBytes, Good, Bad, Key, Counter
<1>15. Tampered' <=> Tampered BY <1>12, <1>13 DEF Tampered, Bad
<1>16. TagInv'
  <2>1. TagInv BY <1>1, <1>4 DEF MsgInv
  <2>2. MacInput(plain)' = MacInput(plain) BY <1>1, <1>12, MacInputKept
  <2> QED BY <1>1, <1>15, <2>1, <2>2 DEF TagInv, TagMask
<1>17. CtrInv'
  <2>1. PICK n \in Nat : n = q + 1 OBVIOUS
  <2>2. pos' = n * BLOCK BY <1>1, <1>2, <2>1, Multiples
  <2> QED BY <1>1, <2>2 DEF CtrInv
<1>18. JobTypes' BY <1>1, <1>12, TypesKept
<1>19. \A i \in 1 .. Len(plain') : plain'[i] = Byte(Good(i)) BY <1>1 DEF MsgInv
<1>20. RoundTrip' BY <1>1, <1>4 DEF RoundTrip
<1> QED BY <1>1, <1>4, <1>14, <1>15, <1>16, <1>17, <1>18, <1>19, <1>20 DEF MsgInv

\* Byte for byte the message that was sent.
LEMMA Untouched ==
  ASSUME JobTypes, MsgInv, MessageBytes, ~Tampered, \A i \in 1 .. Len(msg) : ~Crypted(i)
  PROVE  msg = plain
<1>1. Len(msg) \in Nat /\ Len(msg) = Len(plain) /\ msg \in Seq(Bytes) /\ plain \in Seq(Bytes)
  BY LenProperties DEF JobTypes
<1>2. ASSUME NEW i \in 1 .. Len(msg) PROVE msg[i] = plain[i]
  <2>1. msg[i] \in Bytes BY <1>1, ElementOfSeq
  <2>2. msg[i].v = Good(i) /\ msg[i].ks = {} BY DEF MessageBytes, Tampered
  <2>3. msg[i] = [v |-> msg[i].v, ks |-> msg[i].ks] BY <2>1 DEF Bytes
  <2>4. plain[i] = Byte(Good(i)) BY <1>1 DEF MsgInv
  <2> QED BY <2>2, <2>3, <2>4 DEF Byte
<1> QED BY <1>1, <1>2, SeqEqual

\* encrypt_in_place: the tag is the MAC of the message as it was, masked.
LEMMA EncryptStep ==
  ASSUME EngineInv, CounterInv, JobTypes, MacInv, MsgInv, EncryptMessage
  PROVE  MsgInv'
<1>1. /\ phase = "masked" /\ dir = "encrypt" /\ pc = "idle" /\ pos = 0
      /\ tag' = <<mac, result[1].ks>> /\ phase' = "ctr"
      /\ UNCHANGED <<pc, dir, aad, plain, msg, pos, altered>>
  BY DEF EncryptMessage, vars, CounterInv
<1>2. Len(msg) \in Nat /\ \A i \in 1 .. Len(msg) : ~Crypted(i) /\ ~Crypted(i)'
  BY <1>1, LenProperties DEF Crypted, JobTypes
<1>3. MessageBytes /\ ~altered /\ ~Tampered BY <1>1 DEF MsgInv
<1>4. msg = plain BY <1>2, <1>3, Untouched
<1>5. mac = MacInput(plain) BY <1>1, <1>4 DEF MacInv
<1>6. result[1].ks = TagMask
  <2>1. result = Xor(ZeroBlock, 0) BY <1>1, AllDone DEF MsgInv
  <2>2. 1 \in 1 .. BLOCK /\ 0 \in Nat BY AesAssumption
  <2>3. ZeroBlock \in [1 .. BLOCK -> Bytes] /\ ZeroBlock[1].ks = {}
    BY <2>2, BytesIn DEF ZeroBlock, Zero, Byte
  <2> QED BY <2>1, <2>2, <2>3, XorOf DEF TagMask
<1>7. MacInput(plain)' = MacInput(plain) BY <1>1, MacInputKept
<1>8. TagInv' BY <1>1, <1>3, <1>5, <1>6, <1>7 DEF TagInv, TagMask
<1>9. MessageBytes' BY <1>1, <1>2, <1>3 DEF MessageBytes, Good, Bad, Key, Counter
<1>10. Tampered' <=> Tampered BY <1>1 DEF Tampered, Bad
<1>11. CtrInv'
  <2>1. pos' = 0 * BLOCK /\ 0 \in Nat BY <1>1, Multiples
  <2> QED BY <1>1, <2>1 DEF CtrInv
<1>12. RoundTrip' BY <1>1 DEF RoundTrip
<1>13. \A i \in 1 .. Len(plain') : plain'[i] = Byte(Good(i)) BY <1>1 DEF MsgInv
<1> QED BY <1>1, <1>3, <1>8, <1>9, <1>10, <1>11, <1>12, <1>13 DEF MsgInv

\* The message is sent with every byte encrypted.
LEMMA SentStep ==
  ASSUME CounterInv, JobTypes, MsgInv, Encrypted
  PROVE  MsgInv'
<1>1. /\ phase = "ctr" /\ dir = "encrypt" /\ pos >= Len(msg)
      /\ dir' = "sent" /\ phase' = "none"
      /\ UNCHANGED <<aad, plain, msg, tag, altered>>
  BY DEF Encrypted
<1>2. Len(msg) \in Nat /\ pos \in Nat BY LenProperties DEF JobTypes, CounterInv
<1>3. \A i \in 1 .. Len(msg) : Crypted(i) /\ Crypted(i)' BY <1>1, <1>2 DEF Crypted
<1>4. MacInput(plain)' = MacInput(plain) BY <1>1, MacInputKept
<1>5. TagInv' BY <1>1, <1>4 DEF MsgInv, TagInv, Tampered, Bad, TagMask
<1>6. MessageBytes' BY <1>1, <1>3 DEF MsgInv, MessageBytes, Good, Bad, Key, Counter
<1>7. Tampered' <=> Tampered BY <1>1 DEF Tampered, Bad
<1>8. RoundTrip' BY <1>1 DEF RoundTrip
<1>9. \A i \in 1 .. Len(plain') : plain'[i] = Byte(Good(i)) BY <1>1 DEF MsgInv
<1> QED BY <1>1, <1>5, <1>6, <1>7, <1>8, <1>9 DEF MsgInv

\* The CTR pass is over: every byte is decrypted.
LEMMA DecryptedStep ==
  ASSUME CounterInv, JobTypes, MsgInv, Decrypted
  PROVE  MsgInv'
<1>1. /\ phase = "ctr" /\ dir = "decrypt" /\ pos >= Len(msg)
      /\ dir' = dir /\ phase' = "b0"
      /\ UNCHANGED <<aad, plain, msg, tag, altered>>
  BY DEF Decrypted
<1>2. Len(msg) \in Nat /\ pos \in Nat BY LenProperties DEF JobTypes, CounterInv
<1>3. \A i \in 1 .. Len(msg) : ~Crypted(i) /\ ~Crypted(i)' BY <1>1, <1>2 DEF Crypted
<1>4. MacInput(plain)' = MacInput(plain) BY <1>1, MacInputKept
<1>5. TagInv' BY <1>1, <1>4 DEF MsgInv, TagInv, Tampered, Bad, TagMask
<1>6. MessageBytes' BY <1>1, <1>3 DEF MsgInv, MessageBytes, Good, Bad, Key, Counter
<1>7. Tampered' <=> Tampered BY <1>1 DEF Tampered, Bad
<1>8. RoundTrip' BY <1>1 DEF RoundTrip
<1>9. \A i \in 1 .. Len(plain') : plain'[i] = Byte(Good(i)) BY <1>1 DEF MsgInv
<1> QED BY <1>1, <1>5, <1>6, <1>7, <1>8, <1>9 DEF MsgInv

\* The message arrives: as it was sent, or with a byte or the tag altered.
LEMMA ReceiveStep ==
  ASSUME CounterInv, JobTypes, MsgInv, Receive
  PROVE  MsgInv' /\ JobTypes'
<1>1. /\ dir = "sent" /\ dir' = "decrypt" /\ phase' = "ctr" /\ pos' = 0 /\ pc' = "idle"
      /\ UNCHANGED <<aad, plain>>
      /\ \/ UNCHANGED <<msg, tag, altered>>
         \/ \E i \in 1..Len(msg) :
              msg' = [msg EXCEPT ![i].v = <<"bad", 0, i>>] /\ altered' = TRUE /\ UNCHANGED tag
         \/ tag' = <<<<>>, tag[2]>> /\ altered' = TRUE /\ UNCHANGED msg
  BY DEF Receive, vars, CounterInv
<1>2. ~altered /\ ~Tampered /\ MessageBytes /\ tag = <<MacInput(plain), TagMask>>
  BY <1>1 DEF MsgInv, TagInv
<1>3. Len(msg) \in Nat /\ \A i \in 1 .. Len(msg) : msg[i] \in Bytes
  BY LenProperties, ElementOfSeq DEF JobTypes
<1>4. \A i \in 1 .. Len(msg) : Crypted(i) /\ Crypted(i)' BY <1>1, <1>3 DEF Crypted
<1>5. CtrInv'
  <2>1. pos' = 0 * BLOCK /\ 0 \in Nat BY <1>1, Multiples
  <2> QED BY <1>1, <2>1 DEF CtrInv
<1>6. RoundTrip' BY <1>1 DEF RoundTrip
<1>7. \A i \in 1 .. Len(plain') : plain'[i] = Byte(Good(i)) BY <1>1 DEF MsgInv
<1>8. CASE msg' = msg
  <2>1. MacInput(plain)' = MacInput(plain) BY <1>1, <1>8, MacInputKept
  <2>2. MessageBytes' BY <1>2, <1>4, <1>8 DEF MessageBytes, Good, Bad, Key, Counter
  <2>3. ~Tampered' BY <1>2, <1>8 DEF Tampered, Bad
  <2>4. CASE tag' = tag /\ altered' = altered
    <3>1. TagInv' BY <1>2, <2>1, <2>4 DEF TagInv, TagMask
    <3>2. JobTypes' BY <1>1, <1>8, TypesKept DEF JobTypes
    <3> QED BY <1>1, <1>5, <1>6, <1>7, <2>2, <2>3, <3>1, <3>2 DEF MsgInv
  <2>5. CASE tag' = <<<<>>, tag[2]>> /\ altered' = TRUE
    <3>1. TagInv' BY <1>2, <2>5 DEF TagInv, TagMask
    <3>2. JobTypes' BY <1>1, <1>8, TypesKept DEF JobTypes
    <3> QED BY <1>1, <1>5, <1>6, <1>7, <2>2, <2>3, <3>1, <3>2 DEF MsgInv
  <2>6. CASE \E i \in 1..Len(msg) :
              msg' = [msg EXCEPT ![i].v = <<"bad", 0, i>>] /\ altered' = TRUE /\ UNCHANGED tag
    <3>1. PICK i \in 1 .. Len(msg) : msg' = [msg EXCEPT ![i].v = <<"bad", 0, i>>]
      BY <2>6
    <3>2. msg[i] \in Bytes BY <1>3
    <3>3. msg'[i].v = Bad(i) BY <3>1, <3>2 DEF Bad, Bytes, JobTypes
    <3> QED BY <1>2, <1>8, <3>3 DEF Tampered
  <2> QED BY <1>1, <2>4, <2>5, <2>6
<1>9. CASE \E i \in 1..Len(msg) :
              msg' = [msg EXCEPT ![i].v = <<"bad", 0, i>>] /\ altered' = TRUE /\ UNCHANGED tag
  <2>1. PICK i \in 1 .. Len(msg) :
          msg' = [msg EXCEPT ![i].v = <<"bad", 0, i>>] /\ altered' = TRUE /\ tag' = tag
    BY <1>9
  <2>2. [msg[i] EXCEPT !.v = Bad(i)] \in Bytes /\ [msg[i] EXCEPT !.v = Bad(i)].v = Bad(i)
        /\ [msg[i] EXCEPT !.v = Bad(i)].ks = msg[i].ks
    <3>1. msg[i] \in Bytes BY <1>3
    <3>2. Bad(i) \in Labels BY <1>3 DEF Bad, Labels
    <3> QED BY <3>1, <3>2 DEF Bytes
  <2>3. PICK x \in Bytes : x = [msg[i] EXCEPT !.v = Bad(i)] BY <2>2
  <2>4. msg' = [msg EXCEPT ![i] = x] BY <2>1, <2>3 DEF Bad
  <2>5. msg' \in Seq(Bytes) /\ Len(msg') = Len(msg)
        /\ \A j \in 1 .. Len(msg) : msg'[j] = IF j = i THEN x ELSE msg[j]
    <3>1. msg \in Seq(Bytes) /\ msg \in [1 .. Len(msg) -> Bytes] BY LenProperties DEF JobTypes
    <3>2. msg' \in [1 .. Len(msg) -> Bytes] BY <2>3, <2>4, <3>1
    <3>3. \A j \in 1 .. Len(msg) : msg'[j] = IF j = i THEN x ELSE msg[j]
      BY <2>4, <3>1
    <3> QED BY <1>3, <3>2, <3>3
  <2>6. MacInput(plain)' = MacInput(plain) BY <1>1, <2>5, MacInputKept
  <2>7. Tampered' BY <2>2, <2>3, <2>5 DEF Tampered, Bad
  <2>8. TagInv' BY <1>2, <2>1, <2>6, <2>7 DEF TagInv, TagMask
  <2>9. MessageBytes'
    <3> SUFFICES ASSUME NEW j \in 1 .. Len(msg)
                 PROVE  msg'[j].v \in {Good(j), Bad(j)} /\ msg'[j].ks = {Key(j)}
      BY <1>4, <2>5 DEF MessageBytes, Good, Bad, Key, Counter
    <3>1. msg[j].v \in {Good(j), Bad(j)} /\ msg[j].ks = {Key(j)}
      BY <1>2, <1>4 DEF MessageBytes
    <3>2. CASE j = i BY <2>2, <2>3, <2>5, <3>1, <3>2
    <3>3. CASE j # i BY <2>5, <3>1, <3>3
    <3> QED BY <3>2, <3>3
  <2>10. JobTypes' BY <1>1, <2>5, TypesKept
  <2> QED BY <1>1, <1>5, <1>6, <1>7, <2>1, <2>8, <2>9, <2>10 DEF MsgInv
<1> QED BY <1>1, <1>8, <1>9

\* A message that was altered has another MAC.
LEMMA TamperedMac ==
  ASSUME JobTypes, MsgInv, Tampered
  PROVE  MacInput(msg) # MacInput(plain)
<1>1. PICK i \in 1 .. Len(msg) : msg[i].v = Bad(i) BY DEF Tampered
<1>2. plain[i] = Byte(Good(i)) BY <1>1 DEF MsgInv, JobTypes
<1>3. msg[i] # plain[i] BY <1>1, <1>2 DEF Byte, Good, Bad
<1>4. BlocksOf(msg) # BlocksOf(plain) BY <1>1, <1>3, BlocksDiffer DEF JobTypes
<1>5. PICK u \in Seq(Absorbed) : u = <<B0>> \o AadBlocks BY MacTypes DEF JobTypes
<1>6. BlocksOf(msg) \in Seq(Absorbed) /\ BlocksOf(plain) \in Seq(Absorbed)
  BY MacTypes DEF JobTypes
<1>7. u \o BlocksOf(msg) # u \o BlocksOf(plain)
  BY <1>4, <1>5, <1>6, ConcatSimplifications
<1> QED BY <1>5, <1>7, MacInputIs DEF JobTypes

\* A MAC is never empty: it starts with B0.
LEMMA MacNotEmpty ==
  ASSUME JobTypes
  PROVE  MacInput(msg) # <<>>
<1>1. PICK u \in Seq(Absorbed) : u = <<B0>> \o AadBlocks BY MacTypes DEF JobTypes
<1>2. PICK b \in Seq(Absorbed) : b = <<B0>> BY MacTypes DEF JobTypes
<1>3. b # <<>> BY <1>2
<1>4. AadBlocks \in Seq(Absorbed) /\ BlocksOf(msg) \in Seq(Absorbed) BY MacTypes DEF JobTypes
<1>5. u # <<>> BY <1>1, <1>2, <1>3, <1>4, ConcatEqualIffEmpty
<1>6. u \o BlocksOf(msg) # <<>> BY <1>4, <1>5, <1>1, ConcatEqualIffEmpty
<1> QED BY <1>1, <1>6, MacInputIs DEF JobTypes

\* The tag is compared: it is the MAC's exactly if nothing was altered.
LEMMA VerifyStep ==
  ASSUME EngineInv, CounterInv, JobTypes, MacInv, MsgInv, VerifyTag
  PROVE  MsgInv' /\ JobTypes'
<1>1. /\ phase = "masked" /\ dir = "decrypt" /\ pc = "idle"
      /\ IF tag = <<mac, result[1].ks>>
         THEN dir' = "accepted" /\ UNCHANGED msg
         ELSE dir' = "rejected" /\ msg' = [i \in 1..Len(msg) |-> Zero]
      /\ phase' = "none" /\ UNCHANGED <<aad, plain, altered>>
  BY DEF VerifyTag
<1>2. Len(msg) \in Nat /\ \A i \in 1 .. Len(msg) : ~Crypted(i)
  BY <1>1, LenProperties DEF Crypted, JobTypes
<1>3. MessageBytes /\ (~altered => ~Tampered) /\ TagInv BY <1>1 DEF MsgInv
<1>4. mac = MacInput(msg) BY <1>1 DEF MacInv
<1>5. result[1].ks = TagMask
  <2>1. result = Xor(ZeroBlock, 0) BY <1>1, AllDone DEF MsgInv
  <2>2. 1 \in 1 .. BLOCK /\ 0 \in Nat BY AesAssumption
  <2>3. ZeroBlock \in [1 .. BLOCK -> Bytes] /\ ZeroBlock[1].ks = {}
    BY <2>2, BytesIn DEF ZeroBlock, Zero, Byte
  <2> QED BY <2>1, <2>2, <2>3, XorOf DEF TagMask
<1>6. \A i \in 1 .. Len(plain') : plain'[i] = Byte(Good(i)) BY <1>1 DEF MsgInv
<1>7. CASE ~altered
  <2>1. msg = plain BY <1>2, <1>3, <1>7, Untouched
  <2>2. tag = <<mac, TagMask>> BY <1>3, <1>4, <1>7, <2>1 DEF TagInv
  <2>3. dir' = "accepted" /\ msg' = msg BY <1>1, <1>5, <2>2
  <2>4. RoundTrip' BY <1>1, <1>7, <2>1, <2>3 DEF RoundTrip
  <2>5. MessageBytes'
    <3>1. \A i \in 1 .. Len(msg) : ~Crypted(i)' BY <2>3 DEF Crypted
    <3> QED BY <1>2, <1>3, <2>3, <3>1 DEF MessageBytes, Good, Bad, Key, Counter
  <2>6. Tampered' <=> Tampered BY <2>3 DEF Tampered, Bad
  <2>7. JobTypes' BY <1>1, <2>3, TypesKept DEF JobTypes
  <2> QED BY <1>1, <1>3, <1>6, <1>7, <2>3, <2>4, <2>5, <2>6, <2>7 DEF MsgInv
<1>8. CASE altered
  <2>1. tag # <<mac, TagMask>>
    <3>1. CASE tag = <<<<>>, TagMask>> BY <1>4, <3>1, MacNotEmpty
    <3>2. CASE tag = <<MacInput(plain), TagMask>> /\ Tampered BY <1>4, <3>2, TamperedMac
    <3> QED BY <1>3, <1>8, <3>1, <3>2 DEF TagInv
  <2>2. dir' = "rejected" /\ msg' = [i \in 1..Len(msg) |-> Zero] BY <1>1, <1>5, <2>1
  <2>3. msg' \in Seq(Bytes) /\ Len(msg') = Len(msg) /\ \A i \in 1 .. Len(msg) : msg'[i] = Zero
    BY <1>2, <2>2, BytesIn
  <2>4. RoundTrip' BY <1>1, <1>8, <2>2, <2>3 DEF RoundTrip, Zero, Byte
  <2>5. JobTypes' BY <1>1, <2>3, TypesKept
  <2> QED BY <1>1, <1>6, <2>2, <2>4, <2>5 DEF MsgInv
<1> QED BY <1>7, <1>8

\* The inductive invariant of a job.
JobInv == EngineInv /\ LengthInv /\ CounterInv /\ JobTypes /\ MacInv /\ MsgInv

\* Before the first operation the message is plain and nothing is absorbed.
LEMMA JobStarts == ASSUME CcmInit PROVE JobInv
<1>1. EngineInv /\ LengthInv /\ CounterInv BY EngineStarts, LengthStarts, CountersStart
<1>2. /\ dir = "encrypt" /\ phase = "b0" /\ msg = plain /\ buf = <<>> /\ pos = 0
      /\ altered = FALSE
  BY DEF CcmInit
<1>3. PICK lens \in AadLens : aad = Items(lens) BY DEF CcmInit
<1>4. PICK n \in MessageLens : plain = [i \in 1 .. n |-> Byte(<<"msg", 0, i>>)]
  BY DEF CcmInit
<1>5. lens \in Seq(Nat) /\ n \in Nat BY <1>3, <1>4, CcmAssumption
<1>6. \A i \in Nat : Byte(Good(i)) \in Bytes BY DEF Good, Byte, Bytes, Labels
<1>7. \A k, i \in Nat : Byte(<<"aad", k, i>>) \in Bytes BY DEF Byte, Bytes, Labels
<1>8. \A k, m \in Nat : Item(k, m) \in Seq(Bytes)
  <2> TAKE k, m \in Nat
  <2>1. \A i \in 1 .. m : Byte(<<"aad", k, i>>) \in Bytes BY <1>7
  <2> QED BY <2>1 DEF Item
<1>9. aad \in Seq(Seq(Bytes))
  <2>1. DOMAIN lens = 1 .. Len(lens) /\ Len(lens) \in Nat
        /\ \A k \in 1 .. Len(lens) : lens[k] \in Nat
    BY <1>5, LenProperties, ElementOfSeq
  <2>2. \A k \in 1 .. Len(lens) : Item(k, lens[k]) \in Seq(Bytes) BY <1>8, <2>1
  <2>3. aad = [k \in 1 .. Len(lens) |-> Item(k, lens[k])] BY <1>3, <2>1 DEF Items
  <2> QED BY <2>1, <2>2, <2>3
<1>10. /\ plain \in Seq(Bytes) /\ Len(plain) = n
       /\ \A i \in 1 .. n : plain[i] = Byte(Good(i))
  <2>1. plain = [i \in 1 .. n |-> Byte(Good(i))] BY <1>4 DEF Good
  <2>2. \A i \in 1 .. n : Byte(Good(i)) \in Bytes BY <1>5, <1>6
  <2> QED BY <1>5, <2>1, <2>2
<1>11. JobTypes
  <2>1. AadLen \in 0 .. U16 - 1 BY <1>3, AadFits DEF AadLen
  <2>2. PICK a \in Nat : a = AadLen /\ a < U16 BY <2>1, CcmAssumption
  <2>3. a % U16 = a BY <2>2, CcmAssumption
  <2> QED BY <1>2, <1>9, <1>10, <2>2, <2>3 DEF JobTypes, PrefixFits
<1>12. MacInv BY <1>2 DEF MacInv
<1>13. MessageBytes
  <2> SUFFICES ASSUME NEW i \in 1 .. Len(msg)
               PROVE  msg[i].v \in {Good(i), Bad(i)}
                      /\ msg[i].ks = IF Crypted(i) THEN {Key(i)} ELSE {}
    BY DEF MessageBytes
  <2>1. ~Crypted(i) BY <1>2 DEF Crypted
  <2>2. msg[i] = Byte(Good(i)) BY <1>2, <1>10
  <2> QED BY <2>1, <2>2 DEF Byte
<1>14. ~Tampered
  <2> SUFFICES ASSUME NEW i \in 1 .. Len(msg), msg[i].v = Bad(i) PROVE FALSE
    BY DEF Tampered
  <2>1. msg[i] = Byte(Good(i)) BY <1>2, <1>10
  <2> QED BY <2>1 DEF Byte, Good, Bad
<1>15. MsgInv BY <1>2, <1>10, <1>13, <1>14 DEF MsgInv, RoundTrip
<1> QED BY <1>1, <1>11, <1>12, <1>15 DEF JobInv

\* Every step of CCM keeps what is known of the job.
LEMMA JobStep ==
  ASSUME OtherWakes = FALSE, JobInv, [CcmNext]_ccmVars
  PROVE  JobInv'
<1>1. EngineInv' /\ LengthInv' /\ CounterInv' BY EngineCcmStep, LengthStep, CounterStep DEF JobInv
<1>0. EngineInv /\ CounterInv /\ JobTypes /\ MacInv /\ MsgInv BY DEF JobInv
<1> SUFFICES JobTypes' /\ MacInv' /\ MsgInv' BY <1>1 DEF JobInv
<1> USE <1>0
<1>2. CASE EngineStep /\ UNCHANGED job
  <2>1. AccDone' = AccDone /\ ResultDone' = ResultDone BY <1>2, DoneKept
  <2>2. pc = "idle" <=> pc' = "idle"
    BY <1>2 DEF EngineStep, HwComplete, AsmIsr, SpinPoll, FirstPoll, SecondPoll
  <2>3. UNCHANGED <<dir, phase, aad, plain, msg, feed, buf, pos, mac, tag, altered>>
    BY <1>2 DEF job
  <2>4. JobTypes' BY <2>3, TypesKept DEF JobTypes
  <2>5. MacInv' BY <2>1, <2>3, MacKept
  <2>6. MsgInv' BY <2>1, <2>2, <2>3, MsgQuiet
  <2> QED BY <2>4, <2>5, <2>6
<1>3. CASE MacB0 \/ FeedPadded \/ FlushAad \/ MacMessage \/ MacResult
  <2>1. /\ UNCHANGED <<dir, aad, plain, msg, tag, altered>>
        /\ phase \notin {"ctr", "masked", "none"} /\ phase' \notin {"ctr", "masked"}
    <3>1. CASE MacB0 BY <3>1 DEF MacB0
    <3>2. CASE FeedPadded BY <3>2 DEF FeedPadded
    <3>3. CASE FlushAad BY <3>3 DEF FlushAad
    <3>4. CASE MacMessage BY <3>4 DEF MacMessage
    <3>5. CASE MacResult BY <3>5 DEF MacResult
    <3> QED BY <1>3, <3>1, <3>2, <3>3, <3>4, <3>5
  <2>2. JobTypes' BY <2>1, TypesKept DEF JobTypes
  <2>3. MacInv' BY <1>3, FirstBlock, FeedStep, FlushStep, MessageStep, ResultStep
  <2>4. MsgInv' BY <2>1, MsgMacSteps
  <2> QED BY <2>2, <2>3, <2>4
<1>4. CASE MaskTag
  <2>1. UNCHANGED <<aad, plain, msg>> BY <1>4 DEF MaskTag
  <2>2. JobTypes' BY <2>1, TypesKept DEF JobTypes
  <2> QED BY <1>4, <2>2, MacMasked, MaskStep
<1>5. CASE CtrCrypt
  <2>1. UNCHANGED <<aad, plain, msg, buf>> /\ phase = "ctr" /\ phase' = "ctr"
    BY <1>5 DEF CtrCrypt
  <2>2. JobTypes' BY <2>1, TypesKept DEF JobTypes
  <2>3. MacInv' BY <2>1, MacOutside
  <2> QED BY <1>5, <2>2, <2>3, CtrStart
<1>6. CASE OpDone
  <2>1. CASE phase = "ctr"
    <3>1. buf' = buf /\ phase' = "ctr" BY <1>6, <2>1 DEF OpDone
    <3>2. MacInv' BY <2>1, <3>1, MacOutside
    <3> QED BY <1>6, <2>1, <3>2, CtrDone
  <2>2. CASE phase # "ctr"
    <3>1. UNCHANGED <<regs, hw, dir, phase, aad, plain, msg, feed, buf, pos, mac, tag, altered>>
      BY <1>6, <2>2 DEF OpDone
    <3>2. AccDone' = AccDone /\ ResultDone' = ResultDone
      BY <3>1, Zenon DEF AccDone, ResultDone, regs, hw, Xor
    <3>3. JobTypes' BY <3>1, TypesKept DEF JobTypes
    <3>4. MacInv' BY <3>1, <3>2, MacKept
    <3>5. MsgInv' BY <2>2, <3>1, <3>2, MsgQuiet
    <3> QED BY <3>3, <3>4, <3>5
  <2> QED BY <2>1, <2>2
<1>7. CASE EncryptMessage
  <2>1. UNCHANGED <<aad, plain, msg, buf>> /\ phase = "masked" /\ phase' = "ctr"
    BY <1>7 DEF EncryptMessage
  <2>2. JobTypes' BY <2>1, TypesKept DEF JobTypes
  <2>3. MacInv' BY <2>1, MacOutside
  <2> QED BY <1>7, <2>2, <2>3, EncryptStep
<1>8. CASE Encrypted
  <2>1. UNCHANGED <<aad, plain, msg, buf>> /\ phase = "ctr" /\ phase' = "none"
    BY <1>8 DEF Encrypted
  <2>2. JobTypes' BY <2>1, TypesKept DEF JobTypes
  <2>3. MacInv' BY <2>1, MacOutside
  <2> QED BY <1>8, <2>2, <2>3, SentStep
<1>9. CASE Receive
  <2>1. buf' = buf /\ phase = "none" /\ phase' = "ctr" BY <1>9 DEF Receive, CounterInv
  <2>2. MacInv' BY <2>1, MacOutside
  <2> QED BY <1>9, <2>2, ReceiveStep
<1>10. CASE Decrypted
  <2>1. UNCHANGED <<aad, plain, msg, buf>> /\ phase = "ctr" /\ phase' = "b0" /\ pos' = 0
    BY <1>10 DEF Decrypted
  <2>2. JobTypes' BY <2>1, TypesKept DEF JobTypes
  <2>3. MacInv' BY <2>1, MacOutside
  <2> QED BY <1>10, <2>2, <2>3, DecryptedStep
<1>11. CASE VerifyTag
  <2>1. buf' = buf /\ phase = "masked" /\ phase' = "none" BY <1>11 DEF VerifyTag
  <2>2. MacInv' BY <2>1, MacOutside
  <2> QED BY <1>11, <2>2, VerifyStep
<1>12. CASE UNCHANGED ccmVars
  <2>1. UNCHANGED <<vars, job>> BY <1>12 DEF ccmVars
  <2>2. AccDone' = AccDone /\ ResultDone' = ResultDone
    BY <2>1, Zenon DEF AccDone, ResultDone, vars, regs, hw, Xor
  <2>3. UNCHANGED <<pc, dir, phase, aad, plain, msg, feed, buf, pos, mac, tag, altered>>
    BY <2>1 DEF vars, job
  <2>4. JobTypes' BY <2>3, TypesKept DEF JobTypes
  <2>5. MacInv' BY <2>2, <2>3, MacKept
  <2>6. MsgInv' BY <2>2, <2>3, MsgQuiet
  <2> QED BY <2>4, <2>5, <2>6
<1> QED
  BY <1>2, <1>3, <1>4, <1>5, <1>6, <1>7, <1>8, <1>9, <1>10, <1>11, <1>12 DEF CcmNext

\* The MAC that is compared or sent covers exactly B0, the length-prefixed
\* associated data, padded once at its end however its items are cut, and the
\* padded message, for every block size and every length (aes.rs: ccm_mac,
\* feed_padded).
THEOREM MacIsComplete ==
  ASSUME OtherWakes = FALSE
  PROVE  CcmSpec => []MacCoversAll
<1>1. CcmInit => JobInv BY JobStarts
<1>2. JobInv /\ [CcmNext]_ccmVars => JobInv' BY JobStep
<1>3. JobInv => MacCoversAll BY DEF JobInv, MacInv, MacCoversAll
<1> QED BY <1>1, <1>2, <1>3, PTL DEF CcmSpec

\* Whatever mix of blocking and async versions the two sides use, a message
\* that was not altered is accepted and is the one that was encrypted, and one
\* that was altered, or whose tag was, is rejected and zeroed (aes.rs:
\* encrypt_in_place, decrypt_in_place and their async versions).
THEOREM MessagesRoundTrip ==
  ASSUME OtherWakes = FALSE
  PROVE  CcmSpec => []RoundTrip
<1>1. CcmInit => JobInv BY JobStarts
<1>2. JobInv /\ [CcmNext]_ccmVars => JobInv' BY JobStep
<1>3. JobInv => RoundTrip BY DEF JobInv, MsgInv
<1> QED BY <1>1, <1>2, <1>3, PTL DEF CcmSpec
=============================================================================
