--------------------------- MODULE BlockAllocator ---------------------------
(***************************************************************************)
(* What the kernel heap promises, with no list, no header and no memory:   *)
(* runs of frames are sets.  A request for n frames is either granted the  *)
(* first n frames of some free run that is long enough, the rest staying   *)
(* free, or refused because no free run is long enough; a block that is    *)
(* given back is a free run again.  Every request is answered.             *)
(***************************************************************************)
EXTENDS Integers, FiniteSets

VARIABLES
    avail,    \* the free runs
    blocks,   \* the runs in the hands of callers
    pend      \* frames asked for by the request under way, 0 if none

abstractVars == <<avail, blocks, pend>>

AInit == avail = {} /\ blocks = {} /\ pend = 0

\* The heap gets its frames, once.
Seed(r) ==
    /\ avail = {} /\ blocks = {} /\ pend = 0
    /\ avail' = {r}
    /\ UNCHANGED <<blocks, pend>>

Request(n) ==
    /\ pend = 0
    /\ pend' = n
    /\ UNCHANGED <<avail, blocks>>

\* b is the first pend frames of the free run r.
Grant(r, b) ==
    /\ Cardinality(b) = pend
    /\ \A x \in b, y \in r \ b : x < y
    /\ avail' = (avail \ {r}) \cup ({r \ b} \ {{}})
    /\ blocks' = blocks \cup {b}
    /\ pend' = 0

Refuse ==
    /\ \A r \in avail : Cardinality(r) < pend
    /\ pend' = 0
    /\ UNCHANGED <<avail, blocks>>

GiveBack(b) ==
    /\ pend = 0
    /\ blocks' = blocks \ {b}
    /\ avail' = avail \cup {b}
    /\ UNCHANGED pend

Answer ==
    /\ pend # 0
    /\ Refuse \/ \E r \in avail : \E b \in SUBSET r : Grant(r, b)

ANext ==
    \/ pend' # 0 /\ Request(pend')
    \/ \E r \in avail' : Seed(r)
    \/ Answer
    \/ \E b \in blocks : GiveBack(b)

ASpec == AInit /\ [][ANext]_abstractVars /\ WF_abstractVars(Answer)

=============================================================================
