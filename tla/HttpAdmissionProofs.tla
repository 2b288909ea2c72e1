-------------------------- MODULE HttpAdmissionProofs --------------------------
(***************************************************************************)
(* TLAPS proofs about HttpAdmission, for every finite set of sockets and   *)
(* every limit.  First the shape of the state: where a lease, a token on   *)
(* its way back and a link can be.  Then the two counts, which each step   *)
(* keeps, adds one socket to, or takes one away from.                      *)
(***************************************************************************)
EXTENDS HttpAdmission, FiniteSetTheorems, TLAPS

-----------------------------------------------------------------------------
(* Counting *)

LEMMA CountAdd ==
    ASSUME NEW S, IsFiniteSet(S), NEW x, x \notin S
    PROVE  IsFiniteSet(S \cup {x}) /\ Cardinality(S \cup {x}) = Cardinality(S) + 1
  BY FS_AddElement

LEMMA CountRemove ==
    ASSUME NEW S, IsFiniteSet(S), NEW x \in S
    PROVE  IsFiniteSet(S \ {x}) /\ Cardinality(S \ {x}) = Cardinality(S) - 1
  BY FS_RemoveElement

LEMMA CountNat ==
    ASSUME NEW S \in SUBSET Conns
    PROVE  IsFiniteSet(S) /\ Cardinality(S) \in Nat /\ (S # {} => Cardinality(S) > 0)
  BY AdmissionAssumption, FS_Subset, FS_CardinalityType, FS_EmptySet

-----------------------------------------------------------------------------
(* Where leases, tokens and links can be *)

Shape ==
    /\ attached \in BOOLEAN /\ started \in BOOLEAN /\ stopped \in BOOLEAN
    /\ slots \in Int /\ permits \in Int
    /\ leases \subseteq Conns /\ giving \subseteq Conns
    /\ timer \in [Conns -> {"none", "armed", "firing", "fired", "stopped"}]
    /\ sock \in [Conns -> {"none", "open", "closed"}]
    /\ deadline \in [Conns -> {"none", "admission", "request", "wss"}]
    /\ link \in [Conns -> {"none", "starting", "up", "shut", "down"}]
    /\ pc \in [Conns -> Steps]
    /\ leases \cap giving = {}
    /\ \A d \in leases : pc[d] \in {"reading", "other", "closing", "hop", "upgrade", "returning"}
    /\ \A d \in Conns : /\ link[d] # "none" => pc[d] \in {"detached", "done"}
                        /\ pc[d] = "out" => d \notin giving
    /\ DeadlineKept

LEMMA ShapeStep == Shape /\ [Next]_vars => Shape'
<1> SUFFICES ASSUME Shape, [Next]_vars PROVE Shape'
  OBVIOUS
<1> USE AdmissionAssumption DEF Shape, Steps, DeadlineKept, server, lease, links, At, Goto, Shut, SetDeadline
<1>1. CASE Attach
  BY <1>1 DEF Attach
<1>2. CASE Begin
  BY <1>2 DEF Begin
<1>3. CASE CloseServer
  BY <1>3 DEF CloseServer
<1>4. ASSUME NEW c \in Conns, Admit(c) PROVE Shape'
  BY <1>4 DEF Admit, Accepted
<1>5. ASSUME NEW c \in Conns, AdmitFails(c) PROVE Shape'
  BY <1>5 DEF AdmitFails, Accepted
<1>6. ASSUME NEW c \in Conns, Overflow(c) PROVE Shape'
  BY <1>6 DEF Overflow, Accepted
<1>7. ASSUME NEW c \in Conns, TimerFires(c) PROVE Shape'
  BY <1>7 DEF TimerFires
<1>8. ASSUME NEW c \in Conns, TimerCloses(c) PROVE Shape'
  BY <1>8 DEF TimerCloses
<1>9. ASSUME NEW c \in Conns, ReadRequest(c) PROVE Shape'
  BY <1>9 DEF ReadRequest
<1>10. ASSUME NEW c \in Conns, NoRequest(c) PROVE Shape'
  BY <1>10 DEF NoRequest
<1>11. ASSUME NEW c \in Conns, EnterHandler(c) PROVE Shape'
  BY <1>11 DEF EnterHandler, Release
<1>12. ASSUME NEW c \in Conns, Served(c) PROVE Shape'
  BY <1>12 DEF Served
<1>13. ASSUME NEW c \in Conns, ConnClosed(c) PROVE Shape'
  BY <1>13 DEF ConnClosed, Release
<1>14. ASSUME NEW c \in Conns, GiveSlot(c) PROVE Shape'
  BY <1>14 DEF GiveSlot
<1>15. ASSUME NEW c \in Conns, Rejected(c) PROVE Shape'
  BY <1>15 DEF Rejected
<1>16. ASSUME NEW c \in Conns, TakePermit(c) PROVE Shape'
  BY <1>16 DEF TakePermit
<1>17. ASSUME NEW c \in Conns, BadUpgrade(c) PROVE Shape'
  BY <1>17 DEF BadUpgrade
<1>18. ASSUME NEW c \in Conns, Hijack(c) PROVE Shape'
  BY <1>18 DEF Hijack, Release
<1>19. ASSUME NEW c \in Conns, UpgradeFails(c) PROVE Shape'
  BY <1>19 DEF UpgradeFails
<1>20. ASSUME NEW c \in Conns, Upgraded(c) PROVE Shape'
  BY <1>20 DEF Upgraded
<1>21. ASSUME NEW c \in Conns, Return(c) PROVE Shape'
  BY <1>21 DEF Return, Release
<1>22. ASSUME NEW c \in Conns, Detach(c) PROVE Shape'
  BY <1>22 DEF Detach, Release
<1>23. ASSUME NEW c \in Conns, ReaderStarts(c) PROVE Shape'
  BY <1>23 DEF ReaderStarts
<1>24. ASSUME NEW c \in Conns, LinkReleased(c) PROVE Shape'
  BY <1>24 DEF LinkReleased
<1>25. ASSUME NEW c \in Conns, CloseLink(c) PROVE Shape'
  BY <1>25 DEF CloseLink
<1>26. CASE Ended
  BY <1>26 DEF Ended, vars
<1>27. CASE UNCHANGED vars
  BY <1>27 DEF vars
<1> QED
  BY <1>1, <1>2, <1>3, <1>4, <1>5, <1>6, <1>7, <1>8, <1>9, <1>10, <1>11, <1>12, <1>13, <1>14, <1>15, <1>16, <1>17, <1>18, <1>19, <1>20, <1>21, <1>22, <1>23, <1>24, <1>25, <1>26, <1>27 DEF Next, Accepting, Timing, Serving, Upgrading, Linking

-----------------------------------------------------------------------------
(* The slots *)

SlotsCounted == /\ slots = Cardinality(leases) + Cardinality(giving)
                /\ slots <= MaxPending

\* A release moves a socket from the leases to the tokens on their way back.
LEMMA Releasing ==
    ASSUME Shape, SlotsCounted, NEW c \in Conns, Release(c), UNCHANGED slots
    PROVE  SlotsCounted'
<1>1. CASE c \in leases
  <2>1. leases' = leases \ {c} /\ giving' = giving \cup {c} /\ c \notin giving
    BY <1>1 DEF Release, Shape
  <2>2. /\ Cardinality(leases') = Cardinality(leases) - 1
        /\ Cardinality(giving') = Cardinality(giving) + 1
    BY <1>1, <2>1, CountAdd, CountRemove, CountNat DEF Shape
  <2>3. Cardinality(leases) \in Nat /\ Cardinality(giving) \in Nat
    BY CountNat DEF Shape
  <2> QED
    BY <2>2, <2>3 DEF SlotsCounted
<1>2. CASE c \notin leases
  BY <1>2 DEF Release, SlotsCounted
<1> QED
  BY <1>1, <1>2

LEMMA SlotsStep == Shape /\ SlotsCounted /\ [Next]_vars => SlotsCounted'
<1> SUFFICES ASSUME Shape, SlotsCounted, [Next]_vars PROVE SlotsCounted'
  OBVIOUS
<1> USE DEF server, lease, links
<1>1. CASE Attach
  BY <1>1 DEF Attach, SlotsCounted
<1>2. CASE Begin
  BY <1>2 DEF Begin, SlotsCounted
<1>3. CASE CloseServer
  BY <1>3 DEF CloseServer, SlotsCounted
<1>4. ASSUME NEW c \in Conns, Admit(c) PROVE SlotsCounted'
  <2>1. c \notin leases /\ leases' = leases \cup {c} /\ UNCHANGED giving
    BY <1>4 DEF Admit, Accepted, Shape
  <2>2. Cardinality(leases') = Cardinality(leases) + 1
    BY <2>1, CountAdd, CountNat DEF Shape
  <2>3. Cardinality(leases) \in Nat /\ Cardinality(giving) \in Nat
    BY CountNat DEF Shape
  <2> QED
    BY <1>4, <2>1, <2>2, <2>3, AdmissionAssumption DEF Admit, SlotsCounted
<1>5. ASSUME NEW c \in Conns, AdmitFails(c) PROVE SlotsCounted'
  BY <1>5 DEF AdmitFails, Accepted, SlotsCounted
<1>6. ASSUME NEW c \in Conns, Overflow(c) PROVE SlotsCounted'
  BY <1>6 DEF Overflow, Accepted, SlotsCounted
<1>7. ASSUME NEW c \in Conns, TimerFires(c) PROVE SlotsCounted'
  BY <1>7 DEF TimerFires, SlotsCounted
<1>8. ASSUME NEW c \in Conns, TimerCloses(c) PROVE SlotsCounted'
  BY <1>8 DEF TimerCloses, SlotsCounted
<1>9. ASSUME NEW c \in Conns, ReadRequest(c) PROVE SlotsCounted'
  BY <1>9 DEF ReadRequest, SlotsCounted
<1>10. ASSUME NEW c \in Conns, NoRequest(c) PROVE SlotsCounted'
  BY <1>10 DEF NoRequest, SlotsCounted
<1>11. ASSUME NEW c \in Conns, EnterHandler(c) PROVE SlotsCounted'
  BY <1>11, Releasing DEF EnterHandler
<1>12. ASSUME NEW c \in Conns, Served(c) PROVE SlotsCounted'
  BY <1>12 DEF Served, SlotsCounted
<1>13. ASSUME NEW c \in Conns, ConnClosed(c) PROVE SlotsCounted'
  BY <1>13, Releasing DEF ConnClosed
<1>14. ASSUME NEW c \in Conns, GiveSlot(c) PROVE SlotsCounted'
  <2>1. c \in giving /\ giving' = giving \ {c} /\ UNCHANGED leases
    BY <1>14 DEF GiveSlot
  <2>2. Cardinality(giving') = Cardinality(giving) - 1
    BY <2>1, CountRemove, CountNat DEF Shape
  <2>3. Cardinality(leases) \in Nat /\ Cardinality(giving) \in Nat
    BY CountNat DEF Shape
  <2> QED
    BY <1>14, <2>1, <2>2, <2>3, AdmissionAssumption DEF GiveSlot, SlotsCounted
<1>15. ASSUME NEW c \in Conns, Rejected(c) PROVE SlotsCounted'
  BY <1>15 DEF Rejected, SlotsCounted
<1>16. ASSUME NEW c \in Conns, TakePermit(c) PROVE SlotsCounted'
  BY <1>16 DEF TakePermit, SlotsCounted
<1>17. ASSUME NEW c \in Conns, BadUpgrade(c) PROVE SlotsCounted'
  BY <1>17 DEF BadUpgrade, SlotsCounted
<1>18. ASSUME NEW c \in Conns, Hijack(c) PROVE SlotsCounted'
  BY <1>18, Releasing DEF Hijack
<1>19. ASSUME NEW c \in Conns, UpgradeFails(c) PROVE SlotsCounted'
  BY <1>19 DEF UpgradeFails, SlotsCounted
<1>20. ASSUME NEW c \in Conns, Upgraded(c) PROVE SlotsCounted'
  BY <1>20 DEF Upgraded, SlotsCounted
<1>21. ASSUME NEW c \in Conns, Return(c) PROVE SlotsCounted'
  BY <1>21, Releasing DEF Return
<1>22. ASSUME NEW c \in Conns, Detach(c) PROVE SlotsCounted'
  BY <1>22, Releasing DEF Detach
<1>23. ASSUME NEW c \in Conns, ReaderStarts(c) PROVE SlotsCounted'
  BY <1>23 DEF ReaderStarts, SlotsCounted
<1>24. ASSUME NEW c \in Conns, LinkReleased(c) PROVE SlotsCounted'
  BY <1>24 DEF LinkReleased, SlotsCounted
<1>25. ASSUME NEW c \in Conns, CloseLink(c) PROVE SlotsCounted'
  BY <1>25 DEF CloseLink, SlotsCounted
<1>26. CASE Ended
  BY <1>26 DEF Ended, vars, SlotsCounted
<1>27. CASE UNCHANGED vars
  BY <1>27 DEF vars, SlotsCounted
<1> QED
  BY <1>1, <1>2, <1>3, <1>4, <1>5, <1>6, <1>7, <1>8, <1>9, <1>10, <1>11, <1>12, <1>13, <1>14, <1>15, <1>16, <1>17, <1>18, <1>19, <1>20, <1>21, <1>22, <1>23, <1>24, <1>25, <1>26, <1>27 DEF Next, Accepting, Timing, Serving, Upgrading, Linking

-----------------------------------------------------------------------------
(* The permits *)

PermitsCounted == /\ permits = Cardinality(Permitted)
                  /\ permits <= MaxLinks

LEMMA PermittedFinite ==
    IsFiniteSet(Permitted) /\ Cardinality(Permitted) \in Nat
                           /\ (Permitted # {} => Cardinality(Permitted) > 0)
<1>1. Permitted \in SUBSET Conns
  BY DEF Permitted
<1> QED
  BY <1>1, CountNat

LEMMA KeepsPermits ==
    ASSUME PermitsCounted, Permitted' = Permitted, UNCHANGED permits
    PROVE  PermitsCounted'
  BY DEF PermitsCounted

LEMMA GivesPermit ==
    ASSUME Shape, PermitsCounted, NEW c \in Permitted,
           Permitted' = Permitted \ {c}, permits' = permits - 1
    PROVE  PermitsCounted'
<1>1. Cardinality(Permitted') = Cardinality(Permitted) - 1
  BY CountRemove, PermittedFinite
<1> QED
  BY <1>1, PermittedFinite, AdmissionAssumption DEF PermitsCounted

LEMMA PermitsStep == Shape /\ PermitsCounted /\ [Next]_vars => PermitsCounted'
<1> SUFFICES ASSUME Shape, PermitsCounted, [Next]_vars PROVE PermitsCounted'
  OBVIOUS
<1> USE DEF server, lease, links, At, Goto
<1>1. CASE Attach
  <2>1. Permitted' = Permitted /\ UNCHANGED permits
    BY <1>1 DEF Attach, Permitted, Shape, Steps
  <2> QED
    BY <2>1, KeepsPermits
<1>2. CASE Begin
  <2>1. Permitted' = Permitted /\ UNCHANGED permits
    BY <1>2 DEF Begin, Permitted, Shape, Steps
  <2> QED
    BY <2>1, KeepsPermits
<1>3. CASE CloseServer
  <2>1. Permitted' = Permitted /\ UNCHANGED permits
    BY <1>3 DEF CloseServer, Permitted, Shape, Steps
  <2> QED
    BY <2>1, KeepsPermits
<1>4. ASSUME NEW c \in Conns, Admit(c) PROVE PermitsCounted'
  <2>1. Permitted' = Permitted /\ UNCHANGED permits
    BY <1>4 DEF Admit, Accepted, Permitted, Shape, Steps
  <2> QED
    BY <2>1, KeepsPermits
<1>5. ASSUME NEW c \in Conns, AdmitFails(c) PROVE PermitsCounted'
  <2>1. Permitted' = Permitted /\ UNCHANGED permits
    BY <1>5 DEF AdmitFails, Accepted, Permitted, Shape, Steps
  <2> QED
    BY <2>1, KeepsPermits
<1>6. ASSUME NEW c \in Conns, Overflow(c) PROVE PermitsCounted'
  <2>1. Permitted' = Permitted /\ UNCHANGED permits
    BY <1>6 DEF Overflow, Accepted, Permitted, Shape, Steps
  <2> QED
    BY <2>1, KeepsPermits
<1>7. ASSUME NEW c \in Conns, TimerFires(c) PROVE PermitsCounted'
  <2>1. Permitted' = Permitted /\ UNCHANGED permits
    BY <1>7 DEF TimerFires, Permitted, Shape, Steps
  <2> QED
    BY <2>1, KeepsPermits
<1>8. ASSUME NEW c \in Conns, TimerCloses(c) PROVE PermitsCounted'
  <2>1. Permitted' = Permitted /\ UNCHANGED permits
    BY <1>8 DEF TimerCloses, Permitted, Shape, Steps
  <2> QED
    BY <2>1, KeepsPermits
<1>9. ASSUME NEW c \in Conns, ReadRequest(c) PROVE PermitsCounted'
  <2>1. Permitted' = Permitted /\ UNCHANGED permits
    BY <1>9 DEF ReadRequest, Permitted, Shape, Steps
  <2> QED
    BY <2>1, KeepsPermits
<1>10. ASSUME NEW c \in Conns, NoRequest(c) PROVE PermitsCounted'
  <2>1. Permitted' = Permitted /\ UNCHANGED permits
    BY <1>10 DEF NoRequest, Permitted, Shape, Steps
  <2> QED
    BY <2>1, KeepsPermits
<1>11. ASSUME NEW c \in Conns, EnterHandler(c) PROVE PermitsCounted'
  <2>1. Permitted' = Permitted /\ UNCHANGED permits
    BY <1>11 DEF EnterHandler, Release, Permitted, Shape, Steps
  <2> QED
    BY <2>1, KeepsPermits
<1>12. ASSUME NEW c \in Conns, Served(c) PROVE PermitsCounted'
  <2>1. Permitted' = Permitted /\ UNCHANGED permits
    BY <1>12 DEF Served, Permitted, Shape, Steps
  <2> QED
    BY <2>1, KeepsPermits
<1>13. ASSUME NEW c \in Conns, ConnClosed(c) PROVE PermitsCounted'
  <2>1. Permitted' = Permitted /\ UNCHANGED permits
    BY <1>13 DEF ConnClosed, Release, Permitted, Shape, Steps
  <2> QED
    BY <2>1, KeepsPermits
<1>14. ASSUME NEW c \in Conns, GiveSlot(c) PROVE PermitsCounted'
  <2>1. Permitted' = Permitted /\ UNCHANGED permits
    BY <1>14 DEF GiveSlot, Permitted, Shape, Steps
  <2> QED
    BY <2>1, KeepsPermits
<1>15. ASSUME NEW c \in Conns, Rejected(c) PROVE PermitsCounted'
  <2>1. Permitted' = Permitted /\ UNCHANGED permits
    BY <1>15 DEF Rejected, Permitted, Shape, Steps
  <2> QED
    BY <2>1, KeepsPermits
<1>16. ASSUME NEW c \in Conns, TakePermit(c) PROVE PermitsCounted'
  <2>1. /\ c \notin Permitted /\ Permitted' = Permitted \cup {c}
        /\ permits' = permits + 1 /\ permits < MaxLinks
    BY <1>16 DEF TakePermit, Permitted, Shape, Steps
  <2>2. Cardinality(Permitted') = Cardinality(Permitted) + 1
    BY <2>1, CountAdd, PermittedFinite
  <2> QED
    BY <2>1, <2>2, PermittedFinite, AdmissionAssumption DEF PermitsCounted
<1>17. ASSUME NEW c \in Conns, BadUpgrade(c) PROVE PermitsCounted'
  <2>1. c \in Permitted /\ Permitted' = Permitted \ {c} /\ permits' = permits - 1
    BY <1>17 DEF BadUpgrade, Permitted, Shape, Steps
  <2> QED
    BY <2>1, GivesPermit
<1>18. ASSUME NEW c \in Conns, Hijack(c) PROVE PermitsCounted'
  <2>1. Permitted' = Permitted /\ UNCHANGED permits
    BY <1>18 DEF Hijack, Release, Permitted, Shape, Steps
  <2> QED
    BY <2>1, KeepsPermits
<1>19. ASSUME NEW c \in Conns, UpgradeFails(c) PROVE PermitsCounted'
  <2>1. c \in Permitted /\ Permitted' = Permitted \ {c} /\ permits' = permits - 1
    BY <1>19 DEF UpgradeFails, Permitted, Shape, Steps
  <2> QED
    BY <2>1, GivesPermit
<1>20. ASSUME NEW c \in Conns, Upgraded(c) PROVE PermitsCounted'
  <2>1. Permitted' = Permitted /\ UNCHANGED permits
    BY <1>20 DEF Upgraded, Permitted, Shape, Steps
  <2> QED
    BY <2>1, KeepsPermits
<1>21. ASSUME NEW c \in Conns, Return(c) PROVE PermitsCounted'
  <2>1. Permitted' = Permitted /\ UNCHANGED permits
    BY <1>21 DEF Return, Release, Permitted, Shape, Steps
  <2> QED
    BY <2>1, KeepsPermits
<1>22. ASSUME NEW c \in Conns, Detach(c) PROVE PermitsCounted'
  <2>1. Permitted' = Permitted /\ UNCHANGED permits
    BY <1>22 DEF Detach, Release, Permitted, Shape, Steps
  <2> QED
    BY <2>1, KeepsPermits
<1>23. ASSUME NEW c \in Conns, ReaderStarts(c) PROVE PermitsCounted'
  <2>1. Permitted' = Permitted /\ UNCHANGED permits
    BY <1>23 DEF ReaderStarts, Permitted, Shape, Steps
  <2> QED
    BY <2>1, KeepsPermits
<1>24. ASSUME NEW c \in Conns, LinkReleased(c) PROVE PermitsCounted'
  <2>1. c \in Permitted /\ Permitted' = Permitted \ {c} /\ permits' = permits - 1
    BY <1>24 DEF LinkReleased, Permitted, Shape, Steps
  <2> QED
    BY <2>1, GivesPermit
<1>25. ASSUME NEW c \in Conns, CloseLink(c) PROVE PermitsCounted'
  <2>1. Permitted' = Permitted /\ UNCHANGED permits
    BY <1>25 DEF CloseLink, Permitted, Shape, Steps
  <2> QED
    BY <2>1, KeepsPermits
<1>26. CASE Ended
  <2>1. Permitted' = Permitted /\ UNCHANGED permits
    BY <1>26 DEF Ended, vars, Permitted, Shape, Steps
  <2> QED
    BY <2>1, KeepsPermits
<1>27. CASE UNCHANGED vars
  BY <1>27, KeepsPermits DEF vars, Permitted
<1> QED
  BY <1>1, <1>2, <1>3, <1>4, <1>5, <1>6, <1>7, <1>8, <1>9, <1>10, <1>11, <1>12, <1>13, <1>14, <1>15, <1>16, <1>17, <1>18, <1>19, <1>20, <1>21, <1>22, <1>23, <1>24, <1>25, <1>26, <1>27 DEF Next, Accepting, Timing, Serving, Upgrading, Linking

-----------------------------------------------------------------------------
Counted == Shape /\ SlotsCounted /\ PermitsCounted

LEMMA CountedIsSafe == Counted => AdmissionSafe
<1> SUFFICES ASSUME Counted PROVE AdmissionSafe
  OBVIOUS
<1>1. Cardinality(leases) \in Nat /\ Cardinality(giving) \in Nat
  BY CountNat DEF Counted, Shape
<1>2. slots \in 0..MaxPending
  BY <1>1, AdmissionAssumption DEF Counted, SlotsCounted
<1>3. permits \in 0..MaxLinks
  BY PermittedFinite, AdmissionAssumption DEF Counted, PermitsCounted
<1> QED
  BY <1>2, <1>3 DEF Counted, Shape, SlotsCounted, PermitsCounted, AdmissionSafe, TypeOK, Conserved

LEMMA CountedAlways == Spec => []Counted
<1>1. Init => Counted
  <2> SUFFICES ASSUME Init PROVE Counted
    OBVIOUS
  <2>1. Permitted = {} /\ leases = {} /\ giving = {}
    BY DEF Init, Permitted
  <2>2. Cardinality({}) = 0
    BY FS_EmptySet
  <2>3. /\ timer \in [Conns -> {"none", "armed", "firing", "fired", "stopped"}]
        /\ sock \in [Conns -> {"none", "open", "closed"}]
        /\ deadline \in [Conns -> {"none", "admission", "request", "wss"}]
        /\ link \in [Conns -> {"none", "starting", "up", "shut", "down"}]
        /\ pc \in [Conns -> Steps]
    BY DEF Init, Steps
  <2>4. DeadlineKept /\ \A d \in Conns : link[d] = "none"
    BY DEF Init, DeadlineKept
  <2>5. attached \in BOOLEAN /\ started \in BOOLEAN /\ stopped \in BOOLEAN
    BY Zenon DEF Init
  <2>6. slots = 0 /\ permits = 0
    BY DEF Init
  <2>7. /\ leases \subseteq Conns /\ giving \subseteq Conns /\ leases \cap giving = {}
        /\ \A d \in leases : pc[d] \in {"reading", "other", "closing", "hop", "upgrade", "returning"}
    BY <2>1
  <2>8. \A d \in Conns : /\ link[d] # "none" => pc[d] \in {"detached", "done"}
                        /\ pc[d] = "out" => d \notin giving
    BY <2>1, <2>4
  <2>9. Shape
    BY <2>3, <2>4, <2>5, <2>6, <2>7, <2>8 DEF Shape
  <2> QED
    BY <2>1, <2>2, <2>6, <2>9, AdmissionAssumption DEF Init, Counted, SlotsCounted, PermitsCounted
<1>2. Counted /\ [Next]_vars => Counted'
  BY ShapeStep, SlotsStep, PermitsStep DEF Counted
<1> QED
  BY <1>1, <1>2, PTL DEF Spec

\* Slots, permits and deadlines are safe in every reachable state.
THEOREM AdmissionIsSafe == Spec => []AdmissionSafe
  BY CountedAlways, CountedIsSafe, PTL

\* Every connection, however it ends, gives back its own slot and permit once:
\* the tokens in the channels are those of the leases and links that exist.
THEOREM TokensConserved == Spec => []Conserved
<1>1. AdmissionSafe => Conserved
  BY DEF AdmissionSafe
<1> QED
  BY <1>1, AdmissionIsSafe, PTL

\* The state is well typed, so the limits on pending sockets and links hold.
THEOREM LimitsHold == Spec => []TypeOK
<1>1. AdmissionSafe => TypeOK
  BY DEF AdmissionSafe
<1> QED
  BY <1>1, AdmissionIsSafe, PTL

\* No release of a lease clears the deadline of a link that is up.
THEOREM ReaderKeepsDeadline == Spec => []DeadlineKept
<1>1. AdmissionSafe => DeadlineKept
  BY DEF AdmissionSafe
<1> QED
  BY <1>1, AdmissionIsSafe, PTL

-----------------------------------------------------------------------------
(* Sockets without a slot *)

\* A socket that was accepted and never had a timer has had no slot: it is
\* closed, and its goroutine gets no further than the failing read.
UntimedShut ==
    \A d \in Conns : timer[d] = "none" =>
        /\ pc[d] \in {"out", "reading", "closing", "done"}
        /\ pc[d] # "out" => sock[d] = "closed"

LEMMA UntimedStep == Shape /\ UntimedShut /\ [Next]_vars => UntimedShut'
<1> SUFFICES ASSUME Shape, UntimedShut, [Next]_vars PROVE UntimedShut'
  OBVIOUS
<1> USE AdmissionAssumption DEF Shape, UntimedShut, Steps, DeadlineKept, server, lease, links, At, Goto, Shut, SetDeadline
<1>1. CASE Attach
  BY <1>1 DEF Attach
<1>2. CASE Begin
  BY <1>2 DEF Begin
<1>3. CASE CloseServer
  BY <1>3 DEF CloseServer
<1>4. ASSUME NEW c \in Conns, Admit(c) PROVE UntimedShut'
  BY <1>4 DEF Admit, Accepted
<1>5. ASSUME NEW c \in Conns, AdmitFails(c) PROVE UntimedShut'
  BY <1>5 DEF AdmitFails, Accepted
<1>6. ASSUME NEW c \in Conns, Overflow(c) PROVE UntimedShut'
  BY <1>6 DEF Overflow, Accepted
<1>7. ASSUME NEW c \in Conns, TimerFires(c) PROVE UntimedShut'
  BY <1>7 DEF TimerFires
<1>8. ASSUME NEW c \in Conns, TimerCloses(c) PROVE UntimedShut'
  BY <1>8 DEF TimerCloses
<1>9. ASSUME NEW c \in Conns, ReadRequest(c) PROVE UntimedShut'
  BY <1>9 DEF ReadRequest
<1>10. ASSUME NEW c \in Conns, NoRequest(c) PROVE UntimedShut'
  BY <1>10 DEF NoRequest
<1>11. ASSUME NEW c \in Conns, EnterHandler(c) PROVE UntimedShut'
  BY <1>11 DEF EnterHandler, Release
<1>12. ASSUME NEW c \in Conns, Served(c) PROVE UntimedShut'
  BY <1>12 DEF Served
<1>13. ASSUME NEW c \in Conns, ConnClosed(c) PROVE UntimedShut'
  BY <1>13 DEF ConnClosed, Release
<1>14. ASSUME NEW c \in Conns, GiveSlot(c) PROVE UntimedShut'
  BY <1>14 DEF GiveSlot
<1>15. ASSUME NEW c \in Conns, Rejected(c) PROVE UntimedShut'
  BY <1>15 DEF Rejected
<1>16. ASSUME NEW c \in Conns, TakePermit(c) PROVE UntimedShut'
  BY <1>16 DEF TakePermit
<1>17. ASSUME NEW c \in Conns, BadUpgrade(c) PROVE UntimedShut'
  BY <1>17 DEF BadUpgrade
<1>18. ASSUME NEW c \in Conns, Hijack(c) PROVE UntimedShut'
  BY <1>18 DEF Hijack, Release
<1>19. ASSUME NEW c \in Conns, UpgradeFails(c) PROVE UntimedShut'
  BY <1>19 DEF UpgradeFails
<1>20. ASSUME NEW c \in Conns, Upgraded(c) PROVE UntimedShut'
  BY <1>20 DEF Upgraded
<1>21. ASSUME NEW c \in Conns, Return(c) PROVE UntimedShut'
  BY <1>21 DEF Return, Release
<1>22. ASSUME NEW c \in Conns, Detach(c) PROVE UntimedShut'
  BY <1>22 DEF Detach, Release
<1>23. ASSUME NEW c \in Conns, ReaderStarts(c) PROVE UntimedShut'
  BY <1>23 DEF ReaderStarts
<1>24. ASSUME NEW c \in Conns, LinkReleased(c) PROVE UntimedShut'
  BY <1>24 DEF LinkReleased
<1>25. ASSUME NEW c \in Conns, CloseLink(c) PROVE UntimedShut'
  BY <1>25 DEF CloseLink
<1>26. CASE Ended
  BY <1>26 DEF Ended, vars
<1>27. CASE UNCHANGED vars
  BY <1>27 DEF vars
<1> QED
  BY <1>1, <1>2, <1>3, <1>4, <1>5, <1>6, <1>7, <1>8, <1>9, <1>10, <1>11, <1>12, <1>13, <1>14, <1>15, <1>16, <1>17, <1>18, <1>19, <1>20, <1>21, <1>22, <1>23, <1>24, <1>25, <1>26, <1>27 DEF Next, Accepting, Timing, Serving, Upgrading, Linking

\* A socket that connState has closed for want of a slot never reaches a
\* handler, although net/http starts a goroutine for it.
THEOREM OverflowKeptOut == Spec => []OverflowStaysOut
<1>1. Init => UntimedShut
  BY DEF Init, UntimedShut
<1>2. UntimedShut => OverflowStaysOut
  BY DEF UntimedShut, OverflowStaysOut
<1>3. Counted => Shape
  BY DEF Counted
<1> QED
  BY <1>1, <1>2, <1>3, CountedAlways, UntimedStep, PTL DEF Spec
=============================================================================
