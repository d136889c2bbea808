------------------------------- MODULE AesCcm -------------------------------
(***************************************************************************)
(* AES-CCM on the engine (aes.rs): encrypt_in_place, decrypt_in_place and  *)
(* their async versions as the sequences of block operations they are.     *)
(* One message is encrypted, handed over (and possibly altered), then      *)
(* decrypted, each side blocking or async.  CBC-MAC absorbs the blocks of  *)
(* B0, of the length-prefixed associated data, streamed through a buffer   *)
(* item by item, and of the message; CTR runs over counters 1, 2, ...,     *)
(* counter 0 masks the tag.  Counters and the length prefix are cast to    *)
(* u16: what fits them is the caller's business, assumed below by name.    *)
(***************************************************************************)
EXTENDS Aes, FiniteSets, SequencesExt

CONSTANTS AadLens,     \* bound: the item lengths of AadGenerator::items explored
          MessageLens, \* bound: the message lengths explored
          U16          \* the values of a u16: 65536

ASSUME CcmAssumption ==
    AadLens \subseteq Seq(Nat) /\ MessageLens \subseteq Nat /\ U16 \in Nat \ {0}

VARIABLES
    dir,   \* encrypt, sent, decrypt, accepted, rejected
    async, \* which of the two versions runs
    phase, \* where the job stands
    aad,   \* AAD items
    plain, \* history: the message before encryption
    msg,   \* the buffer that is transformed in place
    feed,  \* byte strings feed_padded has still to take in
    buf,   \* its partial block
    pos,   \* bytes of the message already processed
    mac,   \* raw MAC
    tag,   \* what travels with the message, None before it is known
    used,  \* history: counters of this job's CTR blocks, in order
    altered \* history: the message or the tag was altered on its way

job == <<dir, async, phase, aad, plain, msg, feed, buf, pos, mac, tag, used, altered>>
ccmVars == <<vars, job>>

Smaller(a, b) == IF a <= b THEN a ELSE b

(* The chunk of s at offset p, and a chunk padded with zeros to a block. *)
Chunk(s, p)  == SubSeq(s, p + 1, Smaller(p + BLOCK, Len(s)))
Padded(s)    == [i \in 1..BLOCK |-> IF i <= Len(s) THEN s[i] ELSE Zero]

(* The bytes of the associated data, labelled by item and place. *)
Item(n, len) == [i \in 1..len |-> Byte(<<"aad", n, i>>)]
Items(lens)  == [n \in DOMAIN lens |-> Item(n, lens[n])]
Total(items) == FoldSeq(LAMBDA s, n : Len(s) + n, 0, items)
AadLen       == Total(aad)

(* build_b0 (nonce, message length, AAD length, tag length). *)
B0 == [i \in 1..BLOCK |-> Byte(<<"b0", Len(msg), AadLen, i>>)]

(* The two bytes before the associated data: (a_len as u16).to_be_bytes().  *)
Prefix(len)  == <<Byte(<<"len", len, 1>>), Byte(<<"len", len, 2>>)>>
LengthPrefix == Prefix(AadLen % U16)

(* The counter of the chunk at offset p: (i + 1) as u16. *)
Counter(p) == (p \div BLOCK + 1) % U16

(* No counter of a message wraps, and the length of the associated data     *)
(* fits its prefix.  The code checks neither: it asserts the second in      *)
(* debug builds, and RFC 3610 (L = 2) allows no message near the first.     *)
ASSUME MessagesFit == \A n \in MessageLens : n <= (U16 - 1) * BLOCK
ASSUME AadFits == \A lens \in AadLens : Total(Items(lens)) \in 0 .. U16 - 1
-----------------------------------------------------------------------------
CcmInit ==
    /\ Init
    /\ dir = "encrypt" /\ async \in BOOLEAN /\ phase = "b0"
    /\ \E lens \in AadLens : aad = Items(lens)
    /\ \E n \in MessageLens : plain = [i \in 1..n |-> Byte(<<"msg", 0, i>>)]
    /\ msg = plain
    /\ feed = <<>> /\ buf = <<>> /\ pos = 0 /\ mac = <<>> /\ tag = <<>>
    /\ used = <<>> /\ altered = FALSE

(* ccm_mac: B0 clears the accumulator. *)
MacB0 ==
    /\ phase = "b0"
    /\ CbcMacBlock(B0, TRUE, async)
    /\ phase' = IF AadLen > 0 THEN "feed" ELSE "message"
    /\ feed' = IF AadLen > 0 THEN <<LengthPrefix>> \o aad ELSE <<>>
    /\ UNCHANGED <<dir, async, aad, plain, msg, buf, pos, mac, tag, used, altered>>

MutFeedPadded ==
    /\ phase = "feed" /\ pc = "idle" /\ feed # <<>>
    /\ LET take == Smaller(BLOCK - Len(buf), Len(Head(feed)))
           next == buf \o SubSeq(Head(feed), 1, take)
       IN  /\ feed' = Tail(feed)
           /\ \/ /\ Len(next) = BLOCK
                 /\ CbcMacBlock(next, FALSE, async) /\ buf' = <<>>
              \/ /\ Len(next) < BLOCK
                 /\ buf' = next /\ UNCHANGED vars
    /\ UNCHANGED <<dir, async, phase, aad, plain, msg, pos, mac, tag, used, altered>>

(* feed_padded: one turn of its loop fills the buffer from the current item *)
(* and absorbs it once it is full.                                          *)
FeedPadded ==
    /\ phase = "feed" /\ pc = "idle" /\ feed # <<>>
    /\ LET take == Smaller(BLOCK - Len(buf), Len(Head(feed)))
           next == buf \o SubSeq(Head(feed), 1, take)
           rest == SubSeq(Head(feed), take + 1, Len(Head(feed)))
       IN  /\ feed' = IF rest = <<>> THEN Tail(feed) ELSE <<rest>> \o Tail(feed)
           /\ \/ /\ Len(next) = BLOCK
                 /\ CbcMacBlock(next, FALSE, async) /\ buf' = <<>>
              \/ /\ Len(next) < BLOCK
                 /\ buf' = next /\ UNCHANGED vars
    /\ UNCHANGED <<dir, async, phase, aad, plain, msg, pos, mac, tag, used, altered>>

(* ccm_mac: the last, partial block of the associated data. *)
FlushAad ==
    /\ phase = "feed" /\ pc = "idle" /\ feed = <<>>
    /\ \/ buf # <<>> /\ CbcMacBlock(Padded(buf), FALSE, async)
       \/ buf = <<>> /\ UNCHANGED vars
    /\ buf' = <<>> /\ phase' = "message"
    /\ UNCHANGED <<dir, async, aad, plain, msg, feed, pos, mac, tag, used, altered>>

MacMessage ==
    /\ phase = "message" /\ pos < Len(msg)
    /\ CbcMacBlock(Padded(Chunk(msg, pos)), FALSE, async)
    /\ pos' = pos + BLOCK
    /\ UNCHANGED <<dir, async, phase, aad, plain, msg, feed, buf, mac, tag, used, altered>>

(* cbc_mac_result *)
MacResult ==
    /\ phase = "message" /\ pc = "idle" /\ pos >= Len(msg)
    /\ mac' = acc /\ pos' = 0 /\ phase' = "s0"
    /\ UNCHANGED <<vars, dir, async, aad, plain, msg, feed, buf, tag, used, altered>>

(* The tag's mask: CTR over counter 0. *)
MaskTag ==
    /\ phase = "s0" /\ CtrBlock(0, ZeroBlock, async)
    /\ phase' = "masked" /\ used' = Append(used, 0)
    /\ UNCHANGED <<dir, async, aad, plain, msg, feed, buf, pos, mac, tag, altered>>

MutCtrCryptFromZero ==
    /\ phase = "ctr" /\ pos < Len(msg)
    /\ CtrBlock((pos \div BLOCK) % U16, Padded(Chunk(msg, pos)), async)
    /\ used' = Append(used, (pos \div BLOCK) % U16)
    /\ UNCHANGED <<dir, async, phase, aad, plain, msg, feed, buf, pos, mac, tag, altered>>

(* ccm_ctr_crypt: chunk i under counter i + 1 ... *)
CtrCrypt ==
    /\ phase = "ctr" /\ pos < Len(msg)
    /\ CtrBlock(Counter(pos), Padded(Chunk(msg, pos)), async)
    /\ used' = Append(used, Counter(pos))
    /\ UNCHANGED <<dir, async, phase, aad, plain, msg, feed, buf, pos, mac, tag, altered>>

(* An operation's caller goes on; after a CTR block it reads CTR0_RESULT:   *)
(* ccm_ctr_crypt copies as much of it as the chunk has.                     *)
OpDone ==
    /\ pc = "ready" /\ pc' = "idle"
    /\ UNCHANGED <<regs, hw, wait>>
    /\ IF phase = "ctr"
       THEN /\ msg' = [i \in 1..Len(msg) |->
                          IF i \in pos + 1 .. pos + BLOCK THEN result[i - pos] ELSE msg[i]]
            /\ pos' = pos + BLOCK
       ELSE UNCHANGED <<msg, pos>>
    /\ UNCHANGED <<dir, async, phase, aad, plain, feed, buf, mac, tag, used, altered>>

(* encrypt_in_place: after the tag's mask the message, then the tag. *)
EncryptMessage ==
    /\ phase = "masked" /\ dir = "encrypt" /\ pc = "idle"
    /\ tag' = <<mac, result[1].ks>> /\ phase' = "ctr"
    /\ UNCHANGED <<vars, dir, async, aad, plain, msg, feed, buf, pos, mac, used, altered>>

Encrypted ==
    /\ phase = "ctr" /\ dir = "encrypt" /\ pc = "idle" /\ pos >= Len(msg)
    /\ dir' = "sent" /\ phase' = "none"
    /\ UNCHANGED <<vars, async, aad, plain, msg, feed, buf, pos, mac, tag, used, altered>>

(* The message arrives, as it was or altered; decrypt_in_place starts with  *)
(* the CTR pass.                                                            *)
Receive ==
    /\ dir = "sent"
    /\ \/ UNCHANGED <<msg, tag, altered>>
       \/ \E i \in 1..Len(msg) :
            msg' = [msg EXCEPT ![i].v = <<"bad", 0, i>>] /\ altered' = TRUE /\ UNCHANGED tag
       \/ tag' = <<<<>>, tag[2]>> /\ altered' = TRUE /\ UNCHANGED msg
    /\ dir' = "decrypt" /\ async' \in BOOLEAN
    /\ phase' = "ctr" /\ pos' = 0 /\ used' = <<>>
    /\ UNCHANGED <<vars, aad, plain, feed, buf, mac>>

Decrypted ==
    /\ phase = "ctr" /\ dir = "decrypt" /\ pc = "idle" /\ pos >= Len(msg)
    /\ phase' = "b0" /\ pos' = 0
    /\ UNCHANGED <<vars, dir, async, aad, plain, msg, feed, buf, mac, tag, used, altered>>

(* The tag is compared; a mismatch zeroes the message. *)
VerifyTag ==
    /\ phase = "masked" /\ dir = "decrypt" /\ pc = "idle"
    /\ IF tag = <<mac, result[1].ks>>
       THEN dir' = "accepted" /\ UNCHANGED msg
       ELSE dir' = "rejected" /\ msg' = [i \in 1..Len(msg) |-> Zero]
    /\ phase' = "none"
    /\ UNCHANGED <<vars, async, aad, plain, feed, buf, pos, mac, tag, used, altered>>

CcmNext ==
    \/ EngineStep /\ UNCHANGED job
    \/ MacB0 \/ FeedPadded \/ FlushAad \/ MacMessage \/ MacResult
    \/ MaskTag \/ CtrCrypt \/ OpDone
    \/ EncryptMessage \/ Encrypted \/ Receive \/ Decrypted \/ VerifyTag

CcmSpec == CcmInit /\ [][CcmNext]_ccmVars
-----------------------------------------------------------------------------
(* RFC 3610's block sequence for a message of this associated data. *)
BlocksOf(s) ==
    [i \in 1 .. (Len(s) + BLOCK - 1) \div BLOCK |-> Padded(Chunk(s, (i - 1) * BLOCK))]

MacInput(message) ==
    <<B0>> \o (IF AadLen > 0 THEN BlocksOf(Prefix(AadLen) \o FlattenSeq(aad)) ELSE <<>>)
           \o BlocksOf(message)

(* The MAC is taken over exactly B0, the padded length-prefixed associated  *)
(* data however the generator splits it into items, and the padded message, *)
(* although the accumulator is the engine's and outlives each operation.    *)
(* The prefix is the length itself as long as it fits (AadFits).            *)
MacCoversAll == phase = "s0" => mac = MacInput(msg)

(* CTR and MAC agree between the two sides, in their blocking and async     *)
(* versions: what was not altered decrypts to the message that was sent,    *)
(* what was altered is never accepted and leaves nothing in the caller's    *)
(* buffer.                                                                  *)
RoundTrip ==
    /\ dir = "accepted" => ~altered /\ msg = plain
    /\ dir = "rejected" => altered /\ \A i \in 1..Len(msg) : msg[i] = Zero

(* No counter block is used twice under one nonce, S_0 included, although   *)
(* the counter is a u16: up to the longest message whose chunks it can      *)
(* number (MessagesFit), the keystream that masks the tag never masks       *)
(* message bytes.  One chunk more and counter 0 comes again.                *)
CountersUnique == Cardinality({used[i] : i \in DOMAIN used}) = Len(used)
=============================================================================
