------------------------------ MODULE BytePipe ------------------------------
(***************************************************************************)
(* What a stream provider's writer promises its caller: an ordered pipe of *)
(* bytes whose tail is enciphered from the moment with_encryption is       *)
(* called.  Buffers, offsets and polls do not exist here: an accepted byte *)
(* is owed to the peer at once, in its final form, and is sent later.      *)
(*                                                                         *)
(* A cell [b, e] is one byte: b is its number among the bytes the caller   *)
(* handed over, e the keystream positions it went through (<<>> in clear). *)
(***************************************************************************)
EXTENDS Naturals, Sequences

CONSTANT MaxWrite    \* the longest slice accepted in one step

VARIABLES
    owed,       \* cells owed to the peer, in order
    sent,       \* how many of them have left
    accepted,   \* bytes taken from the caller so far
    keyed,      \* with_encryption has been called
    keystream,  \* keystream positions used so far
    clean       \* the last call was a flush and it returned Ok

vars == <<owed, sent, accepted, keyed, keystream, clean>>

Init ==
    /\ owed = <<>>
    /\ sent = 0
    /\ accepted = 0
    /\ keyed = FALSE
    /\ keystream = 0
    /\ clean = TRUE

NewCells(n) ==
    [j \in 1..n |-> [b |-> accepted + j,
                     e |-> IF keyed THEN <<keystream + j>> ELSE <<>>]]

\* The caller starts or gives up a call.
Touch ==
    /\ clean' = FALSE
    /\ UNCHANGED <<owed, sent, accepted, keyed, keystream>>

\* Bytes owed before may have to leave first, to make room.
Accept ==
    \E n \in 1..MaxWrite :
        /\ owed' = owed \o NewCells(n)
        /\ accepted' = accepted + n
        /\ keystream' = IF keyed THEN keystream + n ELSE 0
        /\ sent' \in sent..Len(owed)
        /\ UNCHANGED <<keyed, clean>>

\* Owed bytes leave in order; a flush may return Ok only with all of them gone.
Send ==
    /\ sent' \in sent..Len(owed)
    /\ clean' => sent' = Len(owed)
    /\ clean' \in BOOLEAN
    /\ UNCHANGED <<owed, accepted, keyed, keystream>>

\* Bytes that are owed and not sent are forgotten, which a clean pipe has none of.
StartCipher ==
    /\ ~keyed
    /\ keyed' = TRUE
    /\ keystream' = 0
    /\ owed' = SubSeq(owed, 1, sent)
    /\ UNCHANGED <<sent, accepted, clean>>

Next == Touch \/ Accept \/ Send \/ StartCipher

Spec == Init /\ [][Next]_vars
=============================================================================
