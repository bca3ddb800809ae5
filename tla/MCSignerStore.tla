--------------------------- MODULE MCSignerStore ---------------------------
(* TLC instance of SignerStore: the daemon and the census cron job.        *)
EXTENDS SignerStore

CONSTANTS daemon, cron, a, b

MCRank == [e \in 0..MaxEpoch |-> [r \in Rooms |-> IF e % 2 = 0 THEN r ELSE -r]]

Message(d, t) == [from |-> d, nonce |-> TRUE, at |-> t]

\* a signs and b writes unsigned; a and b alternate; they do so too slowly.
MCWindows ==
  {<<[from |-> b, nonce |-> FALSE, at |-> 0], Message(a, 0)>>,
   <<Message(a, 0), Message(b, 0), Message(a, 1)>>,
   <<Message(a, 0), Message(b, 0), Message(a, 2)>>}

\* A v2 store that hit its cap, in the middle of a frame and with a row that no
\* tick has counted yet.
MCSources ==
  {[capHit |-> TRUE,
    meta |-> [NewSignerState EXCEPT !.started = "legacy", !.census = 0, !.epoch = 8,
                                    !.frame = <<1, 2>>, !.position = 1],
    dids |-> [NoRows EXCEPT ![b] = [NewRow EXCEPT !.rooms = {2}]]]}
=============================================================================
