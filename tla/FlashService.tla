---------------------------- MODULE FlashService ----------------------------
(***************************************************************************)
(* What flashing a board promises (flash_image and the loader it talks     *)
(* to), with no frame, answer, sector or cell: the chip holds the old      *)
(* image, then none, then the new one.  A header is only ever written over *)
(* a whole image, but power lost during an erase may leave the old header  *)
(* over what is left of its image (Torn).  An image that is in place is    *)
(* replaced only by a later session, and only by way of a chip without     *)
(* one; and once a session has reported "All done" nothing but another     *)
(* session takes its image away.  Every step may be the last before the    *)
(* power fails.  SslSession implements it (ImplementsFlashService).        *)
(***************************************************************************)
EXTENDS Naturals

VARIABLES
    chip,     \* what the boot ROM would find
    session,  \* the sessions so far, the current one included
    report    \* what the script of the current one has reported

flashVars == <<chip, session, report>>

None == <<"none", 0>>         \* no signature
Torn == <<"torn", 0>>         \* a signature left over parts of an image
Half(s) == <<"half", s>>      \* the signature of session s's image, no length yet
Whole(s) == <<"whole", s>>    \* session s's image; the one the chip came with is 0
-----------------------------------------------------------------------------
Init ==
    /\ chip \in {None, Torn, Whole(0)}
    /\ session = 1
    /\ report = "running"

(* The old image goes: never the current session's own, and never under a  *)
(* script that has reported its success.                                   *)
Wipe ==
    /\ report # "done"
    /\ chip \notin {None, Half(session), Whole(session)}
    /\ chip' \in {None, Torn}
    /\ UNCHANGED <<session, report>>

(* The signature, and then the length, of a session whose image is there:  *)
(* its own, or the last one's that it found the loader still busy with.    *)
Announce ==
    /\ report # "done" /\ chip = None
    /\ \E s \in 1..session : chip' = Half(s)
    /\ UNCHANGED <<session, report>>

Complete ==
    /\ report # "done"
    /\ \E s \in 1..session : chip = Half(s) /\ chip' = Whole(s)
    /\ UNCHANGED <<session, report>>

Succeed ==
    /\ report = "running" /\ chip = Whole(session)
    /\ report' = "done"
    /\ UNCHANGED <<chip, session>>

(* A script may give up at any time, its image in place or not. *)
Fail ==
    /\ report = "running"
    /\ report' = "failed"
    /\ UNCHANGED <<chip, session>>

Again ==
    /\ report # "running"
    /\ session' = session + 1
    /\ report' = "running"
    /\ UNCHANGED chip

Next == Wipe \/ Announce \/ Complete \/ Succeed \/ Fail \/ Again

Spec == Init /\ [][Next]_flashVars
=============================================================================
