-------------------------- MODULE ToolSessionProofs -------------------------
(***************************************************************************)
(* An editor tab, for every set of sessions and every number of retries,   *)
(* mounts and page loads: a viewer stays invisible and locked, a finished  *)
(* mount closes what its refs hold, and the reloads of a tab that runs out *)
(* of memory are capped.                                                   *)
(***************************************************************************)
EXTENDS ToolSession, TLAPS

-----------------------------------------------------------------------------
(* The inductive invariant.                                                *)

\* A reload is on its way only when the counter leaves room for one more.
RoomToRetry == recovering => retry < MaxRetries

\* A viewer's chain is past Lock only with the frame locked.
PastLock == {"cross", "collab", "binding", "sibling", "wx", "ready"}
LockedInv == kind.readOnly /\ kind.tool # "calculator" =>
               \A m \in Mounts : pc[m] \in PastLock => locked

QuietInv == kind.readOnly => \A m \in Mounts : live[m] \cap Outbound = {}

\* Mounts come in order; one that was skipped opened nothing.
MountInv == /\ mounted # 0 => pc[mounted] # "off"
            /\ \A m \in Mounts, k \in Mounts : k < m /\ pc[m] # "off" => pc[k] # "off"
            /\ \A m \in Mounts : pc[m] = "skipped" => live[m] = {}

\* What is open before its ref is set: the rooms during the first switch, the
\* sibling mirror while its sheets open.
Unset(s) == CASE s = "binding" -> {"rooms"}
              [] s = "sibling" -> {"sibling"}
              [] OTHER -> {}

\* The refs of a mounted component hold all else that it opened, but what no ref
\* keeps.
HeldInv == /\ \A m \in Mounts : mounted = m \/ pc[m] \in {"ready", "error"} =>
                                  live[m] \subseteq held[m] \cup Unkept \cup Unset(pc[m])
           /\ TornDown

\* The counter of the URL covers the reloads so far; or the page has just loaded,
\* by a link without the counter, after a renderer was killed, whose sentinel
\* covers them; or the retries are exhausted and nothing boots on this page.
Cold == runtime = "none" /\ ~recovering
CapInv == \/ barren <= retry
          \/ /\ Cold /\ mounted = 0 /\ \A m \in Mounts : pc[m] = "off"
             /\ retry = 0 /\ left # None /\ barren <= left
          \/ /\ Cold /\ barren <= MaxRetries
             /\ \A m \in Mounts : pc[m] \in {"off", "skipped"}
             /\ \E m \in Mounts : pc[m] = "skipped"

IInv == /\ TypeOK /\ RoomToRetry /\ LockedInv /\ QuietInv
        /\ MountInv /\ HeldInv /\ CapInv
-----------------------------------------------------------------------------
(* Every step keeps it, part by part.                                      *)

LEMMA ConstantFacts ==
  /\ MaxRetries \in Nat /\ MaxMounts \in Nat /\ MaxLoads \in Nat /\ MaxLoads >= 1
  /\ None \in Nat /\ None = MaxRetries + 1 /\ 0 \notin Mounts
  /\ \A m \in Mounts : m \in Nat /\ m \in 0 .. MaxMounts
  /\ Roster \subseteq Resources /\ Rosters \subseteq Roster
  BY BoundsAssumption DEF None, Mounts, Roster, Resources, Rosters

LEMMA InitIInv == Init => IInv
<1> SUFFICES ASSUME Init PROVE IInv
  OBVIOUS
<1>1. TypeOK
  <2>1. kind \in Kinds /\ kind.able \in BOOLEAN
    BY KindsAssumption DEF Init
  <2>2. PageOK
    BY <2>1, ConstantFacts DEF Init, PageOK, Nothing, Steps
  <2>3. FlagsOK
    BY <2>1 DEF Init, FlagsOK
  <2>4. CountersOK
    BY ConstantFacts DEF Init, CountersOK
  <2> QED BY <2>2, <2>3, <2>4 DEF TypeOK
<1>2. RoomToRetry /\ LockedInv /\ QuietInv /\ MountInv
  BY DEF Init, RoomToRetry, LockedInv, PastLock, QuietInv, MountInv, Nothing
<1>3. HeldInv
  BY DEF Init, HeldInv, TornDown, Nothing
<1>4. CapInv
  BY DEF Init, CapInv
<1> QED BY <1>1, <1>2, <1>3, <1>4 DEF IInv

\* A chain changes its mount and the runtime, not the page's life.
LEMMA ChainFrame ==
  ASSUME NEW m \in Mounts, Chain(m)
  PROVE  ~recovering /\ UNCHANGED <<kind, passed, query, mounted, oomv>>
  BY DEF Chain, At, ChainOnly, Base, Booted, Session, Stage, OpenCalled, OpenSettles, Lock,
         Cross, CollabSheets, CollabBound, CollabSingle, SiblingsOpen, SiblingsReady, Reveal

LEMMA NextLoadPage == PageOK /\ NextLoad => PageOK' /\ kind.able \in BOOLEAN
<1> SUFFICES ASSUME PageOK, NextLoad PROVE PageOK' /\ kind.able \in BOOLEAN
  OBVIOUS
<1>1. kind.able \in BOOLEAN
  BY KindsAssumption DEF PageOK
<1> QED BY <1>1, ConstantFacts DEF PageOK, NextLoad, Nothing, Steps

LEMMA PageInductive ==
  PageOK /\ [Next]_vars => PageOK'
<1> SUFFICES ASSUME PageOK, [Next]_vars
             PROVE  PageOK'
  OBVIOUS
<1> USE ConstantFacts DEF PageOK, Steps, Resources
<1> USE DEF At, Goes, Throws, Opens, Holds, ChainOnly, RuntimeSame, NothingOpened, RuntimeOnly, oomv, page
<1>1. CASE TryAnyway
  BY <1>1 DEF TryAnyway
<1>2. CASE RefetchFails
  <2>1. mounted \in Mounts
    BY <1>2 DEF RefetchFails, Mounts
  <2> QED BY <1>2, <2>1 DEF RefetchFails, Released
<1>3. CASE RefetchSucceeds
  BY <1>3 DEF RefetchSucceeds
<1>4. CASE Scripts
  BY <1>4 DEF Scripts
<1>5. CASE Instantiate
  BY <1>5 DEF Instantiate, Downloaded
<1>6. CASE OpenFinishes
  BY <1>6 DEF OpenFinishes
<1>7. CASE Abort
  BY <1>7 DEF Abort
<1>8. CASE Reload
  BY <1>8, NextLoadPage DEF Reload
<1>9. CASE Healthy
  BY <1>9 DEF Healthy
<1>10. CASE HardKill
  BY <1>10, NextLoadPage DEF HardKill
<1>11. CASE StartAnew
  BY <1>11, NextLoadPage DEF StartAnew
<1>12. ASSUME NEW m \in Mounts, Mount(m) PROVE PageOK'
  BY <1>12 DEF Mount
<1>13. ASSUME NEW m \in Mounts, Base(m) PROVE PageOK'
  BY <1>13 DEF Base
<1>14. ASSUME NEW m \in Mounts, Booted(m) PROVE PageOK'
  BY <1>14 DEF Booted
<1>15. ASSUME NEW m \in Mounts, Session(m) PROVE PageOK'
  BY <1>15 DEF Session, Connection
<1>16. ASSUME NEW m \in Mounts, Stage(m) PROVE PageOK'
  BY <1>16 DEF Stage
<1>17. ASSUME NEW m \in Mounts, OpenCalled(m) PROVE PageOK'
  BY <1>17 DEF OpenCalled
<1>18. ASSUME NEW m \in Mounts, OpenSettles(m) PROVE PageOK'
  BY <1>18 DEF OpenSettles
<1>19. ASSUME NEW m \in Mounts, Lock(m) PROVE PageOK'
  BY <1>19 DEF Lock
<1>20. ASSUME NEW m \in Mounts, Cross(m) PROVE PageOK'
  BY <1>20 DEF Cross
<1>21. ASSUME NEW m \in Mounts, CollabSheets(m) PROVE PageOK'
  BY <1>21 DEF CollabSheets
<1>22. ASSUME NEW m \in Mounts, CollabBound(m) PROVE PageOK'
  BY <1>22 DEF CollabBound
<1>23. ASSUME NEW m \in Mounts, CollabSingle(m) PROVE PageOK'
  BY <1>23 DEF CollabSingle
<1>24. ASSUME NEW m \in Mounts, SiblingsOpen(m) PROVE PageOK'
  BY <1>24 DEF SiblingsOpen
<1>25. ASSUME NEW m \in Mounts, SiblingsReady(m) PROVE PageOK'
  <2>1. {"drift"} \subseteq Resources
    BY DEF Roster
  <2> QED BY <1>25, <2>1 DEF SiblingsReady
<1>26. ASSUME NEW m \in Mounts, Reveal(m) PROVE PageOK'
  BY <1>26 DEF Reveal
<1>27. CASE UNCHANGED vars
  BY <1>27 DEF vars
<1> QED BY <1>1, <1>2, <1>3, <1>4, <1>5, <1>6, <1>7, <1>8, <1>9, <1>10, <1>11, <1>12, <1>13, <1>14,
           <1>15, <1>16, <1>17, <1>18, <1>19, <1>20, <1>21, <1>22, <1>23, <1>24, <1>25, <1>26, <1>27 DEF Next, Chain

LEMMA FlagsInductive ==
  PageOK /\ FlagsOK /\ [Next]_vars => FlagsOK'
<1> SUFFICES ASSUME PageOK, FlagsOK, [Next]_vars
             PROVE  FlagsOK'
  OBVIOUS
<1> USE ConstantFacts DEF FlagsOK, RuntimeOnly, oomv, page
<1>1. CASE TryAnyway
  BY <1>1 DEF TryAnyway
<1>2. CASE RefetchFails
  BY <1>2 DEF RefetchFails, Released
<1>3. CASE RefetchSucceeds
  BY <1>3 DEF RefetchSucceeds
<1>4. CASE Scripts
  BY <1>4 DEF Scripts
<1>5. CASE Instantiate
  BY <1>5 DEF Instantiate, Downloaded
<1>6. CASE OpenFinishes
  BY <1>6 DEF OpenFinishes
<1>7. CASE Abort
  BY <1>7 DEF Abort
<1>8. CASE Reload
  BY <1>8, NextLoadPage DEF Reload, NextLoad
<1>9. CASE Healthy
  BY <1>9 DEF Healthy
<1>10. CASE HardKill
  BY <1>10, NextLoadPage DEF HardKill, NextLoad
<1>11. CASE StartAnew
  BY <1>11, NextLoadPage DEF StartAnew, NextLoad
<1>12. ASSUME NEW m \in Mounts, Mount(m) PROVE FlagsOK'
  BY <1>12 DEF Mount, Adopted, Anew, Larger
<1>13. ASSUME NEW m \in Mounts, Chain(m) PROVE FlagsOK'
  <2>1. locked' \in BOOLEAN
    BY <1>13 DEF Chain, RuntimeSame, Base, Booted, Session, Stage, OpenCalled, OpenSettles, Lock,
         Cross, CollabSheets, CollabBound, CollabSingle, SiblingsOpen, SiblingsReady, Reveal
  <2> QED BY <1>13, <2>1, ChainFrame
<1>14. CASE UNCHANGED vars
  BY <1>14 DEF vars
<1> QED BY <1>1, <1>2, <1>3, <1>4, <1>5, <1>6, <1>7, <1>8, <1>9, <1>10, <1>11, <1>12, <1>13, <1>14 DEF Next

LEMMA CountersInductive ==
  FlagsOK /\ CountersOK /\ RoomToRetry /\ [Next]_vars => (CountersOK /\ RoomToRetry)'
<1> SUFFICES ASSUME FlagsOK, CountersOK, RoomToRetry, [Next]_vars
             PROVE  (CountersOK /\ RoomToRetry)'
  OBVIOUS
<1> USE ConstantFacts DEF FlagsOK, CountersOK, RoomToRetry, RuntimeOnly, oomv, page
<1>1. CASE TryAnyway
  BY <1>1 DEF TryAnyway
<1>2. CASE RefetchFails
  BY <1>2 DEF RefetchFails, Released
<1>3. CASE RefetchSucceeds
  BY <1>3 DEF RefetchSucceeds
<1>4. CASE Scripts
  BY <1>4 DEF Scripts
<1>5. CASE Instantiate
  BY <1>5 DEF Instantiate, Downloaded
<1>6. CASE OpenFinishes
  BY <1>6 DEF OpenFinishes
<1>7. CASE Abort
  BY <1>7 DEF Abort
<1>8. CASE Reload
  BY <1>8 DEF Reload, NextLoad
<1>9. CASE Healthy
  BY <1>9 DEF Healthy
<1>10. CASE HardKill
  BY <1>10 DEF HardKill, NextLoad, Larger
<1>11. CASE StartAnew
  BY <1>11 DEF StartAnew, NextLoad
<1>12. ASSUME NEW m \in Mounts, Mount(m) PROVE (CountersOK /\ RoomToRetry)'
  BY <1>12 DEF Mount, Adopted, Anew, Larger
<1>13. ASSUME NEW m \in Mounts, Chain(m) PROVE (CountersOK /\ RoomToRetry)'
  BY <1>13, ChainFrame
<1>14. CASE UNCHANGED vars
  BY <1>14 DEF vars
<1> QED BY <1>1, <1>2, <1>3, <1>4, <1>5, <1>6, <1>7, <1>8, <1>9, <1>10, <1>11, <1>12, <1>13, <1>14 DEF Next

-----------------------------------------------------------------------------
(* A viewer.                                                               *)

LEMMA LockedInductive ==
  TypeOK /\ LockedInv /\ [Next]_vars => LockedInv'
<1> SUFFICES ASSUME TypeOK, LockedInv, [Next]_vars
             PROVE  LockedInv'
  OBVIOUS
<1> USE ConstantFacts DEF TypeOK, PageOK, LockedInv, PastLock
<1> USE DEF At, Goes, Throws, Opens, Holds, ChainOnly, RuntimeSame, NothingOpened, RuntimeOnly, oomv, page
<1>1. CASE TryAnyway
  BY <1>1 DEF TryAnyway
<1>2. CASE RefetchFails
  BY <1>2 DEF RefetchFails, Released
<1>3. CASE RefetchSucceeds
  BY <1>3 DEF RefetchSucceeds
<1>4. CASE Scripts
  BY <1>4 DEF Scripts
<1>5. CASE Instantiate
  BY <1>5 DEF Instantiate, Downloaded
<1>6. CASE OpenFinishes
  BY <1>6 DEF OpenFinishes
<1>7. CASE Abort
  BY <1>7 DEF Abort
<1>8. CASE Reload
  BY <1>8 DEF Reload, NextLoad, Nothing
<1>9. CASE Healthy
  BY <1>9 DEF Healthy
<1>10. CASE HardKill
  BY <1>10 DEF HardKill, NextLoad, Nothing, Larger
<1>11. CASE StartAnew
  BY <1>11 DEF StartAnew, NextLoad, Nothing
<1>12. ASSUME NEW m \in Mounts, Mount(m) PROVE LockedInv'
  BY <1>12 DEF Mount
<1>13. ASSUME NEW m \in Mounts, Base(m) PROVE LockedInv'
  BY <1>13 DEF Base
<1>14. ASSUME NEW m \in Mounts, Booted(m) PROVE LockedInv'
  BY <1>14 DEF Booted
<1>15. ASSUME NEW m \in Mounts, Session(m) PROVE LockedInv'
  BY <1>15 DEF Session, Connection
<1>16. ASSUME NEW m \in Mounts, Stage(m) PROVE LockedInv'
  BY <1>16 DEF Stage
<1>17. ASSUME NEW m \in Mounts, OpenCalled(m) PROVE LockedInv'
  BY <1>17 DEF OpenCalled
<1>18. ASSUME NEW m \in Mounts, OpenSettles(m) PROVE LockedInv'
  BY <1>18 DEF OpenSettles
<1>19. ASSUME NEW m \in Mounts, Lock(m) PROVE LockedInv'
  BY <1>19 DEF Lock
<1>20. ASSUME NEW m \in Mounts, Cross(m) PROVE LockedInv'
  BY <1>20 DEF Cross
<1>21. ASSUME NEW m \in Mounts, CollabSheets(m) PROVE LockedInv'
  BY <1>21 DEF CollabSheets
<1>22. ASSUME NEW m \in Mounts, CollabBound(m) PROVE LockedInv'
  BY <1>22 DEF CollabBound
<1>23. ASSUME NEW m \in Mounts, CollabSingle(m) PROVE LockedInv'
  BY <1>23 DEF CollabSingle
<1>24. ASSUME NEW m \in Mounts, SiblingsOpen(m) PROVE LockedInv'
  BY <1>24 DEF SiblingsOpen
<1>25. ASSUME NEW m \in Mounts, SiblingsReady(m) PROVE LockedInv'
  BY <1>25 DEF SiblingsReady
<1>26. ASSUME NEW m \in Mounts, Reveal(m) PROVE LockedInv'
  BY <1>26 DEF Reveal
<1>27. CASE UNCHANGED vars
  BY <1>27 DEF vars
<1> QED BY <1>1, <1>2, <1>3, <1>4, <1>5, <1>6, <1>7, <1>8, <1>9, <1>10, <1>11, <1>12, <1>13, <1>14,
           <1>15, <1>16, <1>17, <1>18, <1>19, <1>20, <1>21, <1>22, <1>23, <1>24, <1>25, <1>26, <1>27 DEF Next, Chain

LEMMA QuietInductive ==
  TypeOK /\ QuietInv /\ [Next]_vars => QuietInv'
<1> SUFFICES ASSUME TypeOK, QuietInv, [Next]_vars
             PROVE  QuietInv'
  OBVIOUS
<1> USE ConstantFacts DEF TypeOK, PageOK, QuietInv, Outbound, Roster, Rosters
<1> USE DEF At, Goes, Throws, Opens, Holds, ChainOnly, RuntimeSame, NothingOpened, RuntimeOnly, oomv, page
<1>1. CASE TryAnyway
  BY <1>1 DEF TryAnyway
<1>2. CASE RefetchFails
  BY <1>2 DEF RefetchFails, Released
<1>3. CASE RefetchSucceeds
  BY <1>3 DEF RefetchSucceeds
<1>4. CASE Scripts
  BY <1>4 DEF Scripts
<1>5. CASE Instantiate
  BY <1>5 DEF Instantiate, Downloaded
<1>6. CASE OpenFinishes
  BY <1>6 DEF OpenFinishes
<1>7. CASE Abort
  BY <1>7 DEF Abort
<1>8. CASE Reload
  BY <1>8 DEF Reload, NextLoad, Nothing
<1>9. CASE Healthy
  BY <1>9 DEF Healthy
<1>10. CASE HardKill
  BY <1>10 DEF HardKill, NextLoad, Nothing, Larger
<1>11. CASE StartAnew
  BY <1>11 DEF StartAnew, NextLoad, Nothing
<1>12. ASSUME NEW m \in Mounts, Mount(m) PROVE QuietInv'
  BY <1>12 DEF Mount
<1>13. ASSUME NEW m \in Mounts, Base(m) PROVE QuietInv'
  BY <1>13 DEF Base
<1>14. ASSUME NEW m \in Mounts, Booted(m) PROVE QuietInv'
  BY <1>14 DEF Booted
<1>15. ASSUME NEW m \in Mounts, Session(m) PROVE QuietInv'
  BY <1>15 DEF Session, Connection
<1>16. ASSUME NEW m \in Mounts, Stage(m) PROVE QuietInv'
  BY <1>16 DEF Stage
<1>17. ASSUME NEW m \in Mounts, OpenCalled(m) PROVE QuietInv'
  BY <1>17 DEF OpenCalled
<1>18. ASSUME NEW m \in Mounts, OpenSettles(m) PROVE QuietInv'
  BY <1>18 DEF OpenSettles
<1>19. ASSUME NEW m \in Mounts, Lock(m) PROVE QuietInv'
  BY <1>19 DEF Lock
<1>20. ASSUME NEW m \in Mounts, Cross(m) PROVE QuietInv'
  BY <1>20 DEF Cross
<1>21. ASSUME NEW m \in Mounts, CollabSheets(m) PROVE QuietInv'
  BY <1>21 DEF CollabSheets
<1>22. ASSUME NEW m \in Mounts, CollabBound(m) PROVE QuietInv'
  BY <1>22 DEF CollabBound
<1>23. ASSUME NEW m \in Mounts, CollabSingle(m) PROVE QuietInv'
  BY <1>23 DEF CollabSingle
<1>24. ASSUME NEW m \in Mounts, SiblingsOpen(m) PROVE QuietInv'
  BY <1>24 DEF SiblingsOpen
<1>25. ASSUME NEW m \in Mounts, SiblingsReady(m) PROVE QuietInv'
  BY <1>25 DEF SiblingsReady
<1>26. ASSUME NEW m \in Mounts, Reveal(m) PROVE QuietInv'
  BY <1>26 DEF Reveal
<1>27. CASE UNCHANGED vars
  BY <1>27 DEF vars
<1> QED BY <1>1, <1>2, <1>3, <1>4, <1>5, <1>6, <1>7, <1>8, <1>9, <1>10, <1>11, <1>12, <1>13, <1>14,
           <1>15, <1>16, <1>17, <1>18, <1>19, <1>20, <1>21, <1>22, <1>23, <1>24, <1>25, <1>26, <1>27 DEF Next, Chain

-----------------------------------------------------------------------------
(* What a mount opens and closes.                                          *)

\* A chain that has begun moves its own mount, and never back to the start.
LEMMA ChainMoves ==
  ASSUME PageOK, NEW m \in Mounts, Chain(m)
  PROVE  /\ pc[m] \notin {"off", "skipped"} /\ pc'[m] \notin {"off", "skipped"}
         /\ \A k \in Mounts \ {m} : pc'[k] = pc[k] /\ live'[k] = live[k]
<1> USE DEF PageOK, At, Goes, Throws, Opens, NothingOpened
<1>1. CASE Base(m)
  BY <1>1 DEF Base
<1>2. CASE Booted(m)
  BY <1>2 DEF Booted
<1>3. CASE Session(m)
  BY <1>3 DEF Session
<1>4. CASE Stage(m)
  BY <1>4 DEF Stage
<1>5. CASE OpenCalled(m)
  BY <1>5 DEF OpenCalled
<1>6. CASE OpenSettles(m)
  BY <1>6 DEF OpenSettles
<1>7. CASE Lock(m)
  BY <1>7 DEF Lock
<1>8. CASE Cross(m)
  BY <1>8 DEF Cross
<1>9. CASE CollabSheets(m)
  BY <1>9 DEF CollabSheets
<1>10. CASE CollabBound(m)
  BY <1>10 DEF CollabBound
<1>11. CASE CollabSingle(m)
  BY <1>11 DEF CollabSingle
<1>12. CASE SiblingsOpen(m)
  BY <1>12 DEF SiblingsOpen
<1>13. CASE SiblingsReady(m)
  BY <1>13 DEF SiblingsReady
<1>14. CASE Reveal(m)
  BY <1>14 DEF Reveal
<1> QED BY <1>1, <1>2, <1>3, <1>4, <1>5, <1>6, <1>7, <1>8, <1>9, <1>10, <1>11, <1>12, <1>13, <1>14 DEF Chain

LEMMA MountInductive ==
  TypeOK /\ MountInv /\ [Next]_vars => MountInv'
<1> SUFFICES ASSUME TypeOK, MountInv, [Next]_vars
             PROVE  MountInv'
  OBVIOUS
<1> USE ConstantFacts DEF TypeOK, PageOK, MountInv, RuntimeOnly, oomv, page
<1>1. CASE TryAnyway
  BY <1>1 DEF TryAnyway
<1>2. CASE RefetchFails
  BY <1>2 DEF RefetchFails, Released
<1>3. CASE RefetchSucceeds
  BY <1>3 DEF RefetchSucceeds
<1>4. CASE Scripts
  BY <1>4 DEF Scripts
<1>5. CASE Instantiate
  BY <1>5 DEF Instantiate, Downloaded
<1>6. CASE OpenFinishes
  BY <1>6 DEF OpenFinishes
<1>7. CASE Abort
  BY <1>7 DEF Abort
<1>8. CASE Reload
  BY <1>8 DEF Reload, NextLoad, Nothing
<1>9. CASE Healthy
  BY <1>9 DEF Healthy
<1>10. CASE HardKill
  BY <1>10 DEF HardKill, NextLoad, Nothing, Larger
<1>11. CASE StartAnew
  BY <1>11 DEF StartAnew, NextLoad, Nothing
<1>12. ASSUME NEW m \in Mounts, Mount(m) PROVE MountInv'
  BY <1>12 DEF Mount
<1>13. ASSUME NEW m \in Mounts, Chain(m) PROVE MountInv'
  <2>1. mounted' = mounted /\ mounted \in {0} \cup Mounts
    BY <1>13, ChainFrame DEF Mounts
  <2>2. /\ pc[m] \notin {"off", "skipped"} /\ pc'[m] \notin {"off", "skipped"}
        /\ \A k \in Mounts \ {m} : pc'[k] = pc[k] /\ live'[k] = live[k]
    BY <1>13, ChainMoves
  <2> QED BY <2>1, <2>2
<1>14. CASE UNCHANGED vars
  BY <1>14 DEF vars
<1> QED BY <1>1, <1>2, <1>3, <1>4, <1>5, <1>6, <1>7, <1>8, <1>9, <1>10, <1>11, <1>12, <1>13, <1>14 DEF Next

LEMMA HeldInductive ==
  TypeOK /\ MountInv /\ HeldInv /\ [Next]_vars => HeldInv'
<1> SUFFICES ASSUME TypeOK, MountInv, HeldInv, [Next]_vars
             PROVE  HeldInv'
  OBVIOUS
<1> USE ConstantFacts DEF TypeOK, PageOK, MountInv, HeldInv, TornDown, Unset, Unkept, Roster, Rosters
<1> USE DEF At, Goes, Throws, Opens, Holds, ChainOnly, RuntimeSame, NothingOpened, RuntimeOnly, oomv, page
<1>1. CASE TryAnyway
  BY <1>1 DEF TryAnyway
<1>2. CASE RefetchFails
  BY <1>2 DEF RefetchFails, Released
<1>3. CASE RefetchSucceeds
  BY <1>3 DEF RefetchSucceeds
<1>4. CASE Scripts
  BY <1>4 DEF Scripts
<1>5. CASE Instantiate
  BY <1>5 DEF Instantiate, Downloaded
<1>6. CASE OpenFinishes
  BY <1>6 DEF OpenFinishes
<1>7. CASE Abort
  BY <1>7 DEF Abort
<1>8. CASE Reload
  BY <1>8 DEF Reload, NextLoad, Nothing
<1>9. CASE Healthy
  BY <1>9 DEF Healthy
<1>10. CASE HardKill
  BY <1>10 DEF HardKill, NextLoad, Nothing, Larger
<1>11. CASE StartAnew
  BY <1>11 DEF StartAnew, NextLoad, Nothing
<1>12. ASSUME NEW m \in Mounts, Mount(m) PROVE HeldInv'
  BY <1>12 DEF Mount
<1>13. ASSUME NEW m \in Mounts, Base(m) PROVE HeldInv'
  BY <1>13 DEF Base
<1>14. ASSUME NEW m \in Mounts, Booted(m) PROVE HeldInv'
  BY <1>14 DEF Booted
<1>15. ASSUME NEW m \in Mounts, Session(m) PROVE HeldInv'
  BY <1>15 DEF Session, Connection
<1>16. ASSUME NEW m \in Mounts, Stage(m) PROVE HeldInv'
  BY <1>16 DEF Stage
<1>17. ASSUME NEW m \in Mounts, OpenCalled(m) PROVE HeldInv'
  BY <1>17 DEF OpenCalled
<1>18. ASSUME NEW m \in Mounts, OpenSettles(m) PROVE HeldInv'
  BY <1>18 DEF OpenSettles
<1>19. ASSUME NEW m \in Mounts, Lock(m) PROVE HeldInv'
  BY <1>19 DEF Lock
<1>20. ASSUME NEW m \in Mounts, Cross(m) PROVE HeldInv'
  BY <1>20 DEF Cross
<1>21. ASSUME NEW m \in Mounts, CollabSheets(m) PROVE HeldInv'
  BY <1>21 DEF CollabSheets
<1>22. ASSUME NEW m \in Mounts, CollabBound(m) PROVE HeldInv'
  BY <1>22 DEF CollabBound
<1>23. ASSUME NEW m \in Mounts, CollabSingle(m) PROVE HeldInv'
  BY <1>23 DEF CollabSingle
<1>24. ASSUME NEW m \in Mounts, SiblingsOpen(m) PROVE HeldInv'
  BY <1>24 DEF SiblingsOpen
<1>25. ASSUME NEW m \in Mounts, SiblingsReady(m) PROVE HeldInv'
  BY <1>25 DEF SiblingsReady
<1>26. ASSUME NEW m \in Mounts, Reveal(m) PROVE HeldInv'
  BY <1>26 DEF Reveal
<1>27. CASE UNCHANGED vars
  BY <1>27 DEF vars
<1> QED BY <1>1, <1>2, <1>3, <1>4, <1>5, <1>6, <1>7, <1>8, <1>9, <1>10, <1>11, <1>12, <1>13, <1>14,
           <1>15, <1>16, <1>17, <1>18, <1>19, <1>20, <1>21, <1>22, <1>23, <1>24, <1>25, <1>26, <1>27 DEF Next, Chain

-----------------------------------------------------------------------------
(* Reloads.                                                                *)

LEMMA CapInductive ==
  TypeOK /\ RoomToRetry /\ MountInv /\ CapInv /\ [Next]_vars => CapInv'
<1> SUFFICES ASSUME TypeOK, RoomToRetry, MountInv, CapInv, [Next]_vars
             PROVE  CapInv'
  OBVIOUS
<1> USE ConstantFacts DEF TypeOK, PageOK, FlagsOK, CountersOK, RoomToRetry, MountInv, CapInv, Cold
<1> USE DEF At, Goes, Throws, Opens, Holds, ChainOnly, RuntimeSame, NothingOpened, RuntimeOnly, oomv, page
<1>1. CASE TryAnyway
  BY <1>1 DEF TryAnyway
<1>2. CASE RefetchFails
  BY <1>2 DEF RefetchFails, Released
<1>3. CASE RefetchSucceeds
  BY <1>3 DEF RefetchSucceeds
<1>4. CASE Scripts
  BY <1>4 DEF Scripts
<1>5. CASE Instantiate
  BY <1>5 DEF Instantiate, Downloaded
<1>6. CASE OpenFinishes
  BY <1>6 DEF OpenFinishes
<1>7. CASE Abort
  BY <1>7 DEF Abort
<1>8. CASE Reload
  BY <1>8 DEF Reload, NextLoad, Nothing
<1>9. CASE Healthy
  BY <1>9 DEF Healthy
<1>10. CASE HardKill
  <2>1. barren <= retry
    <3>1. mounted \in Mounts /\ pc[mounted] \notin {"off", "skipped"}
      BY <1>10 DEF HardKill, Mounts
    <3> QED BY <3>1
  <2>2. retry <= left' /\ left' # None /\ barren' = barren
    BY <1>10 DEF HardKill, Larger
  <2> QED BY <1>10, <2>1, <2>2 DEF HardKill, NextLoad
<1>11. CASE StartAnew
  BY <1>11 DEF StartAnew, NextLoad, Nothing
<1>12. ASSUME NEW m \in Mounts, Mount(m) PROVE CapInv'
  BY <1>12 DEF Mount, Adopted, Anew, Larger
<1>13. ASSUME NEW m \in Mounts, Base(m) PROVE CapInv'
  BY <1>13 DEF Base
<1>14. ASSUME NEW m \in Mounts, Booted(m) PROVE CapInv'
  BY <1>14 DEF Booted
<1>15. ASSUME NEW m \in Mounts, Session(m) PROVE CapInv'
  BY <1>15 DEF Session, Connection
<1>16. ASSUME NEW m \in Mounts, Stage(m) PROVE CapInv'
  BY <1>16 DEF Stage
<1>17. ASSUME NEW m \in Mounts, OpenCalled(m) PROVE CapInv'
  BY <1>17 DEF OpenCalled
<1>18. ASSUME NEW m \in Mounts, OpenSettles(m) PROVE CapInv'
  BY <1>18 DEF OpenSettles
<1>19. ASSUME NEW m \in Mounts, Lock(m) PROVE CapInv'
  BY <1>19 DEF Lock
<1>20. ASSUME NEW m \in Mounts, Cross(m) PROVE CapInv'
  BY <1>20 DEF Cross
<1>21. ASSUME NEW m \in Mounts, CollabSheets(m) PROVE CapInv'
  BY <1>21 DEF CollabSheets
<1>22. ASSUME NEW m \in Mounts, CollabBound(m) PROVE CapInv'
  BY <1>22 DEF CollabBound
<1>23. ASSUME NEW m \in Mounts, CollabSingle(m) PROVE CapInv'
  BY <1>23 DEF CollabSingle
<1>24. ASSUME NEW m \in Mounts, SiblingsOpen(m) PROVE CapInv'
  BY <1>24 DEF SiblingsOpen
<1>25. ASSUME NEW m \in Mounts, SiblingsReady(m) PROVE CapInv'
  BY <1>25 DEF SiblingsReady
<1>26. ASSUME NEW m \in Mounts, Reveal(m) PROVE CapInv'
  BY <1>26 DEF Reveal
<1>27. CASE UNCHANGED vars
  BY <1>27 DEF vars
<1> QED BY <1>1, <1>2, <1>3, <1>4, <1>5, <1>6, <1>7, <1>8, <1>9, <1>10, <1>11, <1>12, <1>13, <1>14,
           <1>15, <1>16, <1>17, <1>18, <1>19, <1>20, <1>21, <1>22, <1>23, <1>24, <1>25, <1>26, <1>27 DEF Next, Chain

-----------------------------------------------------------------------------
(* Theorems.                                                               *)

LEMMA NextIInv == IInv /\ [Next]_vars => IInv'
  BY PageInductive, FlagsInductive, CountersInductive, LockedInductive, QuietInductive,
     MountInductive, HeldInductive, CapInductive DEF IInv, TypeOK

LEMMA InvariantHolds == Spec => []IInv
  BY InitIInv, NextIInv, PTL DEF Spec

\* The page, its mounts, the flags of the runtime and the counters of the memory
\* watch keep their types, for any kinds of session and any bounds.
THEOREM TypeCorrect == Spec => []TypeOK
<1>1. IInv => TypeOK
  BY DEF IInv
<1> QED BY <1>1, InvariantHolds, PTL

\* A viewer publishes, uploads and reports nothing, and its editor is shown only
\* with its frame locked (WasmTool.tsx, "Fails CLOSED").
THEOREM ViewersAreSafe == Spec => []ViewerSafe
<1>1. IInv => ViewerSafe
  <2> SUFFICES ASSUME IInv, kind.readOnly, Shown = "editor", kind.tool # "calculator"
               PROVE  locked
    BY DEF IInv, QuietInv, ViewerSafe
  <2>1. mounted \in Mounts /\ pc[mounted] = "ready"
    BY ConstantFacts DEF Shown, IInv, TypeOK, PageOK, Mounts
  <2> QED BY <2>1 DEF IInv, LockedInv, PastLock
<1> QED BY <1>1, InvariantHolds, PTL

\* A mount whose chain had ended leaves open only what no ref of it keeps
\* (the cleanup of WasmTool.tsx's boot effect).
THEOREM MountsAreTornDown == Spec => []TornDown
<1>1. IInv => TornDown
  BY DEF IInv, HeldInv
<1> QED BY <1>1, InvariantHolds, PTL

\* oom-watch.ts reloads a tab by itself at most MaxRetries times in a row,
\* renderers killed between two reloads included.
THEOREM RetriesAreCapped == Spec => []RetriesCapped
<1>1. IInv => RetriesCapped
  BY ConstantFacts DEF IInv, TypeOK, CountersOK, CapInv, RetriesCapped
<1> QED BY <1>1, InvariantHolds, PTL

=============================================================================
