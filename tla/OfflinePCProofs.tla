--------------------------- MODULE OfflinePCProofs ---------------------------
(***************************************************************************)
(* Safety of a paired PC over any number of outages, crashes between two   *)
(* writes, updates, revocations and pairings.                              *)
(*                                                                         *)
(* Four files describe the PC's row numbers (pairing.json twice, the       *)
(* working copy, the finished copies) and no step writes all of them.      *)
(* What holds at every moment is that one of them is ahead of every row    *)
(* the PC drew: the working copy while there is one, otherwise the highest *)
(* counter of the rest (Counted).                                          *)
(***************************************************************************)
EXTENDS OfflinePC, WellFoundedInduction, SequenceTheorems, TLAPS

\* Fields TypeOK leaves open, and the bounds of the counters.
Bounded ==
    /\ builds \in Nat /\ snap \in [at : Nat, has : SUBSET (Numbers \X Ids)]
    /\ crashes \in Nat
    /\ work.n <= MaxId /\ pairing.lastUsed <= MaxId /\ pairing.srvIds <= MaxId
    /\ \A i \in DOMAIN finished : finished[i].n <= MaxId

\* The working copy is the paired PC's own, and numbers not given out yet are
\* unused.
Owned ==
    /\ WorkIsOwn
    /\ pairing.paired => pairing.dev \in 1..devices
    /\ \A d \in Numbers : d > devices => \A n \in Ids : drawn[d][n] = 0

\* A counter other than the working copy's is at or above row n.
Passed(n) ==
    \/ n <= pairing.lastUsed \/ n <= pairing.srvIds
    \/ \E i \in DOMAIN finished : finished[i].dev = pairing.dev /\ n <= finished[i].n

Counted ==
    pairing.paired => \A n \in Ids : drawn[pairing.dev][n] > 0 =>
        IF work.exists THEN n <= work.n ELSE Passed(n)

\* The copy a standby process may start from is of its own version.
OwnVersion == mode = "standby" /\ copy.at # 0 => copy.ver = appVer

\* The last period is open once there was one: nothing settles it, so a PC
\* with an open period is not ready and has no working copy.
OnePeriod ==
    /\ pairing.period # "settled"
    /\ work.exists => pairing.period = "none"
    /\ mode = "standby" /\ ready /\ pairing.paired => pairing.period = "none"

PCInv == /\ TypeOK /\ Bounded /\ Owned /\ WorkKept /\ Counted /\ IdsUsedOnce
         /\ ModeHasWork /\ OwnVersion /\ OnePeriod

-----------------------------------------------------------------------------
(* Operators.                                                              *)

\* Math.max of a bounded, nonempty set of counters is one of them, and none is
\* above it.
LEMMA MaxOfBounded ==
    ASSUME NEW S \in SUBSET Nat, S # {}, NEW b \in Nat, \A x \in S : x <= b
    PROVE  Max(S) \in S /\ \A x \in S : x <= Max(S)
<1> DEFINE T == {b - x : x \in S}
<1>1. T \subseteq Nat /\ T # {}
  <2>1. \A x \in S : b - x \in Nat
    OBVIOUS
  <2>2. PICK x \in S : TRUE
    OBVIOUS
  <2>3. b - x \in T
    BY <2>2
  <2> QED BY <2>1, <2>3
<1>2. PICK y \in T : \A z \in T : ~(<<z, y>> \in OpToRel(<, Nat))
  <2> HIDE DEF T
  <2> QED BY <1>1, WFMin, NatLessThanWellFounded, Zenon
<1>3. \A z \in T : ~(z < y)
  BY <1>1, <1>2 DEF OpToRel
<1>4. PICK m \in S : y = b - m
  OBVIOUS
<1>5. \A x \in S : x <= m
  <2> TAKE x \in S
  <2>1. b - x \in T
    OBVIOUS
  <2>2. ~(b - x < b - m)
    BY <1>3, <1>4, <2>1
  <2> QED BY <2>2
<1>6. \E x \in S : \A z \in S : x >= z
  BY <1>5
<1> DEFINE M == Max(S)
<1>7. M \in S /\ \A z \in S : M >= z
  BY <1>6 DEF Max
<1> QED BY <1>7

LEMMA ElementType ==
    ASSUME NEW R, NEW s \in Seq(R)
    PROVE  \A i \in DOMAIN s : s[i] \in R
<1>1. DOMAIN s = 1..Len(s)
  OBVIOUS
<1> QED BY <1>1, ElementOfSeq

PairingType == [paired : BOOLEAN, dev : 0..MaxDevices, mode : {"standby", "offline", "finishing"},
                lastUsed : Nat, srvIds : Nat, srvVer : 0..MaxVersion,
                period : {"none", "open", "settled"}, settledAt : Nat,
                told : {"nothing", "re-pair"}]
WorkType    == [exists : BOOLEAN, dev : 0..MaxDevices, n : Nat, ver : 0..MaxVersion,
                waiting : SUBSET Ids, sent : SUBSET Ids]

\* What a process that starts on these files can rely on.
LEMMA BootFacts ==
    ASSUME NEW p, NEW w, NEW c, NEW app, BootOn(p, w, c, app)
    PROVE  /\ mode' \in Modes /\ ready' \in BOOLEAN /\ exiting' = FALSE /\ down' = "some"
           /\ p.mode \in {"standby", "offline", "finishing"} =>
                (mode' \in {"offline", "finishing"} => w.exists /\ w.ver = app)
           /\ mode' = "standby" => p.paired /\ ~w.exists /\ c.ver = app
           /\ mode' = "standby" /\ ready' /\ p.period # "settled" => p.period = "none"
<1>1. mode' \in Modes
  BY DEF BootOn, Decide, Modes
<1>2. ready' \in BOOLEAN /\ exiting' = FALSE /\ down' = "some"
  BY DEF BootOn
<1>3. mode' \in {"offline", "finishing"} => w.exists /\ w.ver = app
  BY DEF BootOn, Decide
<1>4. mode' = "standby" => p.paired /\ ~w.exists /\ c.ver = app
  BY DEF BootOn, Decide
<1>5. mode' = "standby" /\ ready' /\ p.period # "settled" => p.period = "none"
  BY DEF BootOn, Ready
<1> QED BY <1>1, <1>2, <1>3, <1>4, <1>5

\* LastUsed is at or above every counter it reads, and one of them.
LEMMA LastUsedFacts ==
    ASSUME TypeOK, Bounded
    PROVE  /\ LastUsed \in Nat /\ LastUsed <= MaxId
           /\ pairing.lastUsed <= LastUsed /\ pairing.srvIds <= LastUsed
           /\ \A i \in DOMAIN finished : finished[i].dev = pairing.dev => finished[i].n <= LastUsed
<1> DEFINE F == {finished[i].n : i \in {j \in DOMAIN finished : finished[j].dev = pairing.dev}}
           S == {pairing.lastUsed, pairing.srvIds} \cup F
<1>1. pairing.lastUsed \in 0..MaxId /\ pairing.srvIds \in 0..MaxId /\ MaxId \in Nat
  BY PCAssumption DEF TypeOK, Bounded
<1>2. \A i \in DOMAIN finished : finished[i].n \in 0..MaxId
  <2> TAKE i \in DOMAIN finished
  <2>1. finished[i] \in [dev : Numbers, n : Nat]
    BY ElementType DEF TypeOK
  <2>2. finished[i].n \in Nat
    BY <2>1
  <2> QED BY <2>2, <1>1 DEF Bounded
<1>3. \A x \in S : x \in 0..MaxId
  BY <1>1, <1>2
<1>4. S \in SUBSET Nat /\ S # {} /\ \A x \in S : x <= MaxId
  BY <1>1, <1>3
<1>5. LastUsed = Max(S)
  BY DEF LastUsed
<1> HIDE DEF S
<1>6. LastUsed \in S /\ \A x \in S : x <= LastUsed
  BY <1>1, <1>4, <1>5, MaxOfBounded
<1> USE DEF S
<1>7. LastUsed \in 0..MaxId
  BY <1>3, <1>6
<1> QED BY <1>6, <1>7

\* finishWorkingCopy() leaves the working copy's counter in front.
LEMMA FinishFacts ==
    ASSUME PCInv, FinishWork
    PROVE  /\ finished' \in Seq([dev : Numbers, n : Nat]) /\ Len(finished') <= FinishedKept
           /\ 1 \in DOMAIN finished' /\ finished'[1] = [dev |-> work.dev, n |-> work.n]
           /\ \A i \in DOMAIN finished' : finished'[i].n <= MaxId
<1> DEFINE R == [dev : Numbers, n : Nat]
           h == [dev |-> work.dev, n |-> work.n]
           s == <<h>> \o finished
           k == IF Len(finished) < FinishedKept THEN Len(finished) + 1 ELSE FinishedKept
<1>1. h \in R /\ h.n <= MaxId /\ finished \in Seq(R)
  BY PCAssumption DEF FinishWork, PCInv, TypeOK, Owned, WorkIsOwn, Bounded, Numbers
<1>2. \A i \in DOMAIN finished : finished[i] \in R /\ finished[i].n <= MaxId
  BY <1>1, ElementType DEF PCInv, Bounded
<1> HIDE DEF R, h
<1>3. /\ Len(finished) \in Nat /\ DOMAIN finished = 1..Len(finished)
      /\ FinishedKept \in Nat /\ FinishedKept >= 1
  BY <1>1, PCAssumption
<1>4. k \in Nat /\ 1 <= k /\ k <= FinishedKept /\ k <= Len(finished) + 1
  BY <1>3
<1>5. /\ s[1] = h
      /\ \A i \in 2..(Len(finished) + 1) : s[i] = finished[i - 1]
  BY <1>1, <1>3
<1> HIDE DEF k
<1>6. \A i \in 1..k : s[i] \in R /\ s[i].n <= MaxId
  <2> TAKE i \in 1..k
  <2>1. CASE i = 1
    BY <2>1, <1>5, <1>1
  <2>2. CASE i # 1
    <3>1. i \in 2..(Len(finished) + 1) /\ i - 1 \in DOMAIN finished
      BY <2>2, <1>3, <1>4
    <3> QED BY <3>1, <1>5, <1>2
  <2> QED BY <2>1, <2>2
<1> HIDE DEF s
<1>7. finished' = SubSeq(s, 1, k)
  BY DEF FinishWork, s, k, h
<1>8. /\ finished' \in Seq(R) /\ Len(finished') = k
      /\ \A i \in 1..k : finished'[i] = s[i]
  <2>1. 1 \in Int /\ k \in Int
    BY <1>4
  <2>2. /\ SubSeq(s, 1, k) \in Seq(R)
        /\ Len(SubSeq(s, 1, k)) = IF 1 <= k THEN k - 1 + 1 ELSE 0
        /\ \A i \in 1..(k - 1 + 1) : SubSeq(s, 1, k)[i] = s[1 + i - 1]
    BY <1>6, <2>1, SubSeqProperties
  <2> QED BY <2>2, <1>4, <1>7
<1>9. DOMAIN finished' = 1..k
  BY <1>8
<1> QED BY <1>4, <1>5, <1>6, <1>8, <1>9 DEF R, h

-----------------------------------------------------------------------------
(* The actions.                                                            *)

CopyType  == [at : Nat, ver : 0..MaxVersion, has : SUBSET (Numbers \X Ids)]
SnapType  == [at : Nat, has : SUBSET (Numbers \X Ids)]

DiskTypes ==
    /\ pairing \in PairingType /\ copy \in CopyType /\ work \in WorkType
    /\ finished \in Seq([dev : Numbers, n : Nat]) /\ Len(finished) <= FinishedKept
    /\ appVer \in 1..MaxVersion

ProcTypes ==
    /\ mode \in Modes /\ ready \in BOOLEAN /\ exiting \in BOOLEAN
    /\ down \in {"no", "some", "long"}

ServerTypes ==
    /\ net \in BOOLEAN /\ revoked \in BOOLEAN
    /\ serverVer \in 1..MaxVersion /\ devices \in 0..MaxDevices
    /\ stored \in [Numbers -> SUBSET Ids] /\ processed \in [Numbers -> SUBSET Ids]

LEMMA TypeParts ==
    TypeOK <=> DiskTypes /\ ProcTypes /\ ServerTypes /\ drawn \in [Numbers -> [Ids -> Nat]]
BY DEF TypeOK, DiskTypes, ProcTypes, ServerTypes, PairingType, CopyType, WorkType

LEMMA TypePartsNext ==
    TypeOK' <=> DiskTypes' /\ ProcTypes' /\ ServerTypes' /\ drawn' \in [Numbers -> [Ids -> Nat]]
BY DEF TypeOK, DiskTypes, ProcTypes, ServerTypes, PairingType, CopyType, WorkType

\* The network, the server and the clock around the PC.
LEMMA WorldKeeps ==
    ASSUME PCInv,
           Unreachable \/ Elapse \/ SendFails \/ NetChange \/ Process \/ Revoke \/ Deploy
    PROVE  PCInv'
<1>1. UNCHANGED <<diskVars, mode, ready, exiting, devices, stored, builds, drawn, crashes>>
  BY DEF Unreachable, Elapse, SendFails, NetChange, Process, Revoke, Deploy,
         diskVars, procVars, serverVars
<1>2. DiskTypes /\ ProcTypes /\ ServerTypes /\ drawn \in [Numbers -> [Ids -> Nat]] /\ snap \in SnapType
  BY TypeParts DEF PCInv, Bounded, SnapType
<1>3. down' \in {"no", "some", "long"}
  BY <1>2 DEF ProcTypes, Unreachable, Elapse, SendFails, NetChange, Process, Revoke, Deploy,
              procVars
<1>4. net' \in BOOLEAN /\ revoked' \in BOOLEAN
  BY <1>2 DEF ServerTypes, Unreachable, Elapse, SendFails, NetChange, Process, Revoke, Deploy,
              serverVars
<1>5. serverVer' \in 1..MaxVersion
  BY <1>2, PCAssumption DEF ServerTypes, Unreachable, Elapse, SendFails, NetChange, Process,
                            Revoke, Deploy, serverVars
<1>6. snap' \in SnapType
  BY <1>2 DEF SnapType, Unreachable, Elapse, SendFails, NetChange, Process, Revoke, Deploy,
              serverVars
<1>7. processed' \in [Numbers -> SUBSET Ids]
  <2>1. CASE Process
    BY <1>2, <2>1 DEF Process, ServerTypes
  <2>2. CASE ~Process
    BY <1>2, <2>2 DEF ServerTypes, Unreachable, Elapse, SendFails, NetChange,
                      Revoke, Deploy, serverVars
  <2> QED BY <2>1, <2>2
<1>8. TypeOK'
  <2>1. DiskTypes' BY <1>1, <1>2 DEF DiskTypes, diskVars
  <2>2. ProcTypes' BY <1>1, <1>2, <1>3 DEF ProcTypes
  <2>3. ServerTypes' BY <1>1, <1>2, <1>4, <1>5, <1>7 DEF ServerTypes
  <2> QED BY <2>1, <2>2, <2>3, <1>1, <1>2, TypePartsNext
<1>9. Bounded' /\ Owned' /\ WorkKept' /\ Counted' /\ IdsUsedOnce'
  <2>1. Bounded' BY <1>1, <1>6 DEF diskVars, PCInv, Bounded, SnapType
  <2>2. Owned' BY <1>1 DEF diskVars, PCInv, Owned, WorkIsOwn
  <2>3. WorkKept' BY <1>1 DEF diskVars, PCInv, WorkKept
  <2>4. Counted' BY <1>1 DEF diskVars, PCInv, Counted, Passed
  <2>5. IdsUsedOnce' BY <1>1 DEF PCInv, IdsUsedOnce
  <2> QED BY <2>1, <2>2, <2>3, <2>4, <2>5
<1>10. ModeHasWork' /\ OwnVersion' /\ OnePeriod'
  BY <1>1 DEF diskVars, PCInv, ModeHasWork, OwnVersion, OnePeriod
<1> QED BY <1>8, <1>9, <1>10 DEF PCInv

\* A boot on unchanged files, with the installed or the next version.
LEMMA BootKeeps ==
    ASSUME PCInv, Relaunch \/ Restart \/ InstallUpdate
    PROVE  PCInv'
<1>1. /\ UNCHANGED <<pairing, copy, work, finished, serverVars, drawn, crashes, revokes>>
      /\ BootOn(pairing, work, copy, appVer')
  BY DEF Relaunch, Restart, InstallUpdate, diskVars
<1>2. DiskTypes /\ ServerTypes /\ drawn \in [Numbers -> [Ids -> Nat]]
  BY TypeParts DEF PCInv
<1>3. appVer' \in 1..MaxVersion
  BY <1>2, PCAssumption DEF Relaunch, Restart, InstallUpdate, diskVars, DiskTypes
<1>4. pairing.mode \in {"standby", "offline", "finishing"}
  BY <1>2 DEF DiskTypes, PairingType
<1>5. /\ mode' \in Modes /\ ready' \in BOOLEAN /\ exiting' = FALSE /\ down' = "some"
      /\ mode' \in {"offline", "finishing"} => work.exists /\ work.ver = appVer'
      /\ mode' = "standby" => pairing.paired /\ ~work.exists /\ copy.ver = appVer'
      /\ mode' = "standby" /\ ready' /\ pairing.period # "settled" => pairing.period = "none"
  BY <1>1, <1>4, BootFacts, Zenon
<1>6. TypeOK'
  <2>1. DiskTypes' BY <1>1, <1>2, <1>3 DEF DiskTypes
  <2>2. ProcTypes' BY <1>5 DEF ProcTypes
  <2>3. ServerTypes' BY <1>1, <1>2 DEF ServerTypes, serverVars
  <2> QED BY <2>1, <2>2, <2>3, <1>1, <1>2, TypePartsNext
<1>7. Bounded' /\ Owned' /\ WorkKept' /\ Counted' /\ IdsUsedOnce'
  <2>1. Bounded' BY <1>1 DEF serverVars, PCInv, Bounded
  <2>2. Owned' BY <1>1 DEF serverVars, PCInv, Owned, WorkIsOwn
  <2>3. WorkKept' BY <1>1 DEF serverVars, PCInv, WorkKept
  <2>4. Counted' BY <1>1 DEF PCInv, Counted, Passed
  <2>5. IdsUsedOnce' BY <1>1 DEF PCInv, IdsUsedOnce
  <2> QED BY <2>1, <2>2, <2>3, <2>4, <2>5
<1>8. ModeHasWork' /\ OwnVersion'
  BY <1>1, <1>5 DEF ModeHasWork, OwnVersion
<1>9. OnePeriod'
  BY <1>1, <1>5 DEF PCInv, OnePeriod
<1> QED BY <1>6, <1>7, <1>8, <1>9 DEF PCInv

LEMMA BackToWebKeeps == ASSUME PCInv, BackToWeb \/ FinishGiveUp PROVE PCInv'
<1>1. /\ UNCHANGED <<copy, work, finished, appVer, mode, ready, down, serverVars, drawn, crashes>>
      /\ exiting' = TRUE /\ mode # "standby"
      /\ \E m \in {"finishing", "offline"} : pairing' = [pairing EXCEPT !.mode = m]
  BY DEF BackToWeb, FinishGiveUp
<1>2. DiskTypes /\ ProcTypes /\ ServerTypes /\ drawn \in [Numbers -> [Ids -> Nat]]
  BY TypeParts DEF PCInv
<1>3. /\ pairing' \in PairingType
      /\ pairing'.paired = pairing.paired /\ pairing'.dev = pairing.dev
      /\ pairing'.lastUsed = pairing.lastUsed /\ pairing'.srvIds = pairing.srvIds
      /\ pairing'.period = pairing.period
  BY <1>1, <1>2 DEF DiskTypes, PairingType
<1>4. TypeOK'
  <2>1. DiskTypes' BY <1>1, <1>2, <1>3 DEF DiskTypes
  <2>2. ProcTypes' BY <1>1, <1>2 DEF ProcTypes
  <2>3. ServerTypes' BY <1>1, <1>2 DEF ServerTypes, serverVars
  <2> QED BY <2>1, <2>2, <2>3, <1>1, <1>2, TypePartsNext
<1>5. Bounded' /\ Owned' /\ WorkKept' /\ Counted' /\ IdsUsedOnce'
  <2>1. Bounded' BY <1>1, <1>3 DEF serverVars, PCInv, Bounded
  <2>2. Owned' BY <1>1, <1>3 DEF serverVars, PCInv, Owned, WorkIsOwn
  <2>3. WorkKept' BY <1>1 DEF serverVars, PCInv, WorkKept
  <2>4. Counted' BY <1>1, <1>3 DEF PCInv, Counted, Passed
  <2>5. IdsUsedOnce' BY <1>1 DEF PCInv, IdsUsedOnce
  <2> QED BY <2>1, <2>2, <2>3, <2>4, <2>5
<1>6. ModeHasWork' /\ OwnVersion' /\ OnePeriod'
  BY <1>1, <1>3 DEF PCInv, ModeHasWork, OwnVersion, OnePeriod
<1> QED BY <1>4, <1>5, <1>6 DEF PCInv

\* A new number has drawn nothing; a paired PC keeps its number and counters.
LEMMA PairKeeps == ASSUME PCInv, Pair PROVE PCInv'
<1>1. /\ UNCHANGED <<copy, work, finished, appVer, mode, ready, down, net, serverVer,
                     stored, processed, snap, builds, drawn, crashes>>
      /\ revoked' = FALSE /\ exiting' = (exiting \/ mode = "standalone")
      /\ mode \notin {"offline", "finishing"}
  BY DEF Pair
<1>2. DiskTypes /\ ProcTypes /\ ServerTypes /\ drawn \in [Numbers -> [Ids -> Nat]]
  BY TypeParts DEF PCInv
<1>3. /\ pairing' \in PairingType /\ pairing'.paired
      /\ pairing'.lastUsed <= MaxId /\ pairing'.srvIds <= MaxId
      /\ devices' \in 0..MaxDevices /\ devices' >= devices
      /\ \/ /\ pairing.paired /\ devices' = devices
            /\ pairing'.dev = pairing.dev /\ pairing'.period = pairing.period
            /\ pairing'.lastUsed = pairing.lastUsed /\ pairing'.srvIds = pairing.srvIds
         \/ /\ ~pairing.paired /\ devices' = devices + 1
            /\ pairing'.dev = devices' /\ pairing'.period = "none"
            /\ devices' \in Numbers
  <2>1. serverVer \in 0..MaxVersion /\ devices \in 0..MaxDevices /\ MaxDevices \in Nat /\ MaxId \in Nat
    BY <1>2, PCAssumption DEF ServerTypes
  <2>2. CASE pairing.paired
    <3>1. pairing' = [pairing EXCEPT !.srvVer = serverVer, !.told = "nothing"] /\ devices' = devices
      BY <2>2 DEF Pair
    <3>2. /\ pairing' \in PairingType
          /\ pairing'.dev = pairing.dev /\ pairing'.period = pairing.period
          /\ pairing'.paired = pairing.paired
          /\ pairing'.lastUsed = pairing.lastUsed /\ pairing'.srvIds = pairing.srvIds
      BY <3>1, <2>1, <1>2 DEF DiskTypes, PairingType
    <3> QED BY <3>1, <3>2, <2>1, <2>2 DEF PCInv, Bounded
  <2>3. CASE ~pairing.paired
    <3>1. /\ devices < MaxDevices /\ devices' = devices + 1
          /\ pairing' = [NotPaired EXCEPT !.paired = TRUE, !.dev = devices', !.srvVer = serverVer]
      BY <2>3 DEF Pair
    <3>2. devices' \in Numbers /\ devices' \in 0..MaxDevices
      BY <3>1, <2>1 DEF Numbers
    <3>3. pairing' = [paired |-> TRUE, dev |-> devices', mode |-> "standby", lastUsed |-> 0,
                      srvIds |-> 0, srvVer |-> serverVer, period |-> "none", settledAt |-> 0,
                      told |-> "nothing"]
      BY <3>1 DEF NotPaired
    <3>4. pairing' \in PairingType
      BY <3>2, <3>3, <2>1 DEF PairingType
    <3>5. /\ pairing'.paired /\ pairing'.dev = devices' /\ pairing'.period = "none"
          /\ pairing'.lastUsed = 0 /\ pairing'.srvIds = 0
      BY <3>3
    <3> HIDE DEF PairingType, NotPaired
    <3>6. 0 <= MaxId /\ devices' >= devices
      BY <3>1, <2>1
    <3> QED BY <3>1, <3>2, <3>4, <3>5, <3>6, <2>3
  <2> QED BY <2>2, <2>3
<1>4. TypeOK'
  <2>1. DiskTypes' BY <1>1, <1>2, <1>3 DEF DiskTypes
  <2>2. ProcTypes' BY <1>1, <1>2 DEF ProcTypes
  <2>3. ServerTypes' BY <1>1, <1>2, <1>3 DEF ServerTypes
  <2> QED BY <2>1, <2>2, <2>3, <1>1, <1>2, TypePartsNext
<1>5. Bounded'
  BY <1>1, <1>3 DEF PCInv, Bounded
<1>6. Owned'
  <2>1. pairing'.dev \in 1..devices'
    BY <1>2, <1>3, PCAssumption DEF PCInv, Owned, WorkIsOwn, ServerTypes, Numbers
  <2>2. work.exists => pairing.paired /\ work.dev = pairing.dev
    BY DEF PCInv, Owned, WorkIsOwn
  <2>3. \A d \in Numbers : d > devices' => \A n \in Ids : drawn[d][n] = 0
    BY <1>2, <1>3 DEF PCInv, Owned, WorkIsOwn, ServerTypes, Numbers
  <2> QED BY <1>1, <1>3, <2>1, <2>2, <2>3 DEF Owned, WorkIsOwn
<1>7. ~pairing.paired => \A n \in Ids : drawn'[pairing'.dev][n] = 0
  BY <1>1, <1>2, <1>3 DEF PCInv, Owned, WorkIsOwn, ServerTypes
<1>8. WorkKept' /\ IdsUsedOnce'
  BY <1>1 DEF PCInv, WorkKept, IdsUsedOnce
<1>9. Counted'
  <2>1. CASE pairing.paired
    BY <2>1, <1>1, <1>3 DEF PCInv, Counted, Passed
  <2>2. CASE ~pairing.paired
    BY <2>2, <1>7 DEF Counted
  <2> QED BY <2>1, <2>2
<1>10. ModeHasWork' /\ OwnVersion'
  BY <1>1 DEF PCInv, ModeHasWork, OwnVersion
<1>11. OnePeriod'
  BY <1>1, <1>3 DEF PCInv, OnePeriod, Owned, WorkIsOwn
<1> QED BY <1>4, <1>5, <1>6, <1>8, <1>9, <1>10, <1>11 DEF PCInv

LEMMA UnpairKeeps == ASSUME PCInv, Unpair PROVE PCInv'
<1>1. /\ UNCHANGED <<work, finished, appVer, mode, ready, down, serverVars, drawn, crashes>>
      /\ ~work.exists /\ pairing' = NotPaired /\ copy' = NoCopy /\ exiting' = TRUE
  BY DEF Unpair
<1>2. DiskTypes /\ ProcTypes /\ ServerTypes /\ drawn \in [Numbers -> [Ids -> Nat]]
  BY TypeParts DEF PCInv
<1>3. NotPaired \in PairingType /\ NoCopy \in CopyType
  BY PCAssumption DEF NotPaired, NoCopy, PairingType, CopyType
<1>4. TypeOK'
  <2>1. DiskTypes' BY <1>1, <1>2, <1>3 DEF DiskTypes
  <2>2. ProcTypes' BY <1>1, <1>2 DEF ProcTypes
  <2>3. ServerTypes' BY <1>1, <1>2 DEF ServerTypes, serverVars
  <2> QED BY <2>1, <2>2, <2>3, <1>1, <1>2, TypePartsNext
<1>5. Bounded'
  BY <1>1, PCAssumption DEF PCInv, Bounded, serverVars, NotPaired
<1>6. Owned' /\ Counted'
  BY <1>1 DEF PCInv, Owned, WorkIsOwn, Counted, serverVars, NotPaired
<1>7. WorkKept' /\ IdsUsedOnce'
  BY <1>1 DEF PCInv, WorkKept, IdsUsedOnce, serverVars
<1>8. ModeHasWork' /\ OwnVersion' /\ OnePeriod'
  BY <1>1 DEF ModeHasWork, OwnVersion, OnePeriod, NotPaired, NoCopy
<1> QED BY <1>4, <1>5, <1>6, <1>7, <1>8 DEF PCInv

\* What the server stores of the PC is at or below the number it answers.
LEMMA CheckinKeeps == ASSUME PCInv, Checkin PROVE PCInv'
<1> DEFINE S == {0} \cup stored[pairing.dev]
<1>1. /\ UNCHANGED <<work, finished, appVer, mode, ready, exiting, net, devices, revoked,
                     serverVer, stored, processed, drawn, crashes>>
      /\ down' = "no" /\ pairing.paired
  BY DEF Checkin
<1>2. DiskTypes /\ ProcTypes /\ ServerTypes /\ drawn \in [Numbers -> [Ids -> Nat]]
  BY TypeParts DEF PCInv
<1>3. pairing.dev \in Numbers
  BY <1>1, <1>2, PCAssumption DEF PCInv, Owned, WorkIsOwn, ServerTypes, Numbers
<1>4. S \in SUBSET Nat /\ S # {} /\ MaxId \in Nat /\ \A x \in S : x <= MaxId
  BY <1>2, <1>3, PCAssumption DEF ServerTypes, Ids
<1>5. Max(S) \in S /\ \A x \in S : x <= Max(S)
  <2> HIDE DEF S
  <2> QED BY <1>4, MaxOfBounded
<1>6. Max(S) \in Nat /\ Max(S) <= MaxId
  BY <1>4, <1>5
<1>7. /\ pairing' \in PairingType
      /\ pairing'.paired = pairing.paired /\ pairing'.dev = pairing.dev
      /\ pairing'.lastUsed = pairing.lastUsed /\ pairing'.period = pairing.period
      /\ pairing'.srvIds = pairing.srvIds \/ pairing'.srvIds = Max(S)
  <2>1. serverVer \in 0..MaxVersion
    BY <1>2, PCAssumption DEF ServerTypes
  <2>2. CASE revoked
    BY <2>2, <1>2 DEF Checkin, DiskTypes, PairingType
  <2>3. CASE ~revoked
    <3> DEFINE m == Max(S)
    <3>1. pairing' = [pairing EXCEPT !.srvVer = serverVer, !.told = "nothing", !.srvIds = m]
      BY <2>3 DEF Checkin
    <3>2. m \in Nat
      BY <1>6
    <3> HIDE DEF m
    <3>3. /\ pairing' \in PairingType
          /\ pairing'.paired = pairing.paired /\ pairing'.dev = pairing.dev
          /\ pairing'.lastUsed = pairing.lastUsed /\ pairing'.period = pairing.period
          /\ pairing'.srvIds = m
      BY <3>1, <3>2, <2>1, <1>2 DEF DiskTypes, PairingType
    <3> QED BY <3>3 DEF m
  <2> QED BY <2>2, <2>3
<1>8. /\ copy' \in CopyType /\ snap' \in SnapType /\ builds' \in Nat
      /\ copy' = copy \/ copy'.ver = appVer
  <2>1. copy \in CopyType /\ snap \in SnapType /\ builds \in Nat /\ serverVer \in 0..MaxVersion
    BY <1>2, PCAssumption DEF DiskTypes, ServerTypes, PCInv, Bounded, SnapType
  <2>2. CASE UNCHANGED <<copy, snap, builds>>
    BY <2>1, <2>2
  <2>3. CASE RefreshCopy /\ appVer = serverVer /\ ~(UNCHANGED <<copy, snap, builds>>)
    <3>1. snap' \in SnapType /\ builds' \in Nat
      BY <2>1, <2>3 DEF RefreshCopy, SnapType
    <3>2. copy' = [at |-> snap'.at, ver |-> serverVer, has |-> snap'.has]
      BY <2>3 DEF RefreshCopy
    <3>3. copy' \in CopyType /\ copy'.ver = appVer
      BY <2>1, <2>3, <3>1, <3>2 DEF SnapType, CopyType
    <3> QED BY <3>1, <3>3
  <2> QED BY <2>2, <2>3 DEF Checkin, RefreshCopy
<1>9. TypeOK'
  <2>1. DiskTypes' BY <1>1, <1>2, <1>7, <1>8 DEF DiskTypes
  <2>2. ProcTypes' BY <1>1, <1>2 DEF ProcTypes
  <2>3. ServerTypes' BY <1>1, <1>2 DEF ServerTypes
  <2> QED BY <2>1, <2>2, <2>3, <1>1, <1>2, TypePartsNext
<1>10. Bounded'
  BY <1>1, <1>6, <1>7, <1>8 DEF PCInv, Bounded, SnapType
<1>11. Owned' /\ WorkKept' /\ IdsUsedOnce'
  BY <1>1, <1>7 DEF PCInv, Owned, WorkIsOwn, WorkKept, IdsUsedOnce
<1>12. Counted'
  <2> SUFFICES ASSUME NEW n \in Ids, drawn[pairing.dev][n] > 0
               PROVE  IF work.exists THEN n <= work.n ELSE Passed(n)'
    BY <1>1, <1>7 DEF Counted
  <2>1. CASE work.exists
    BY <2>1, <1>1 DEF PCInv, Counted
  <2>2. CASE ~work.exists
    <3>1. n \in stored[pairing.dev]
      BY <2>2, <1>3 DEF PCInv, WorkKept
    <3>2. n <= Max(S)
      BY <3>1, <1>5
    <3>3. Passed(n)
      BY <2>2, <1>1 DEF PCInv, Counted
    <3>4. CASE pairing'.srvIds = Max(S)
      <4>1. n <= pairing'.srvIds
        BY <3>2, <3>4
      <4>2. Passed(n)'
        BY <4>1 DEF Passed
      <4> QED BY <4>2, <2>2
    <3>5. CASE pairing'.srvIds = pairing.srvIds
      <4>1. Passed(n)'
        BY <3>3, <3>5, <1>1, <1>7 DEF Passed
      <4> QED BY <4>1, <2>2
    <3> QED BY <3>4, <3>5, <2>2, <1>7
  <2> QED BY <2>1, <2>2
<1>13. ModeHasWork' /\ OwnVersion' /\ OnePeriod'
  BY <1>1, <1>7, <1>8 DEF PCInv, ModeHasWork, OwnVersion, OnePeriod
<1> QED BY <1>9, <1>10, <1>11, <1>12, <1>13 DEF PCInv

\* The new working copy is of the app's version and starts above every row the
\* PC drew.
LEMMA CreateFacts ==
    ASSUME PCInv, CreateWork
    PROVE  /\ work' \in WorkType /\ work'.exists /\ work'.dev = pairing.dev
           /\ work'.n <= MaxId /\ work'.ver = appVer
           /\ pairing.paired /\ ~work.exists /\ pairing.period = "none"
           /\ \A n \in Ids : drawn[pairing.dev][n] > 0 => n <= work'.n
           /\ \A d \in Numbers, n \in Ids : drawn[d][n] > 0 => n \in stored[d]
<1> DEFINE u == LastUsed
<1>1. /\ mode = "standby" /\ ready /\ pairing.paired /\ copy.at # 0 /\ ~work.exists
      /\ work' = [exists |-> TRUE, dev |-> pairing.dev, n |-> u, ver |-> copy.ver,
                  waiting |-> {}, sent |-> {}]
  BY DEF CreateWork
<1>2. /\ u \in Nat /\ u <= MaxId /\ pairing.lastUsed <= u /\ pairing.srvIds <= u
      /\ \A i \in DOMAIN finished : finished[i].dev = pairing.dev => finished[i].n <= u
  BY LastUsedFacts DEF PCInv
<1> HIDE DEF u
<1>3. copy.ver = appVer /\ pairing.period = "none"
  BY <1>1 DEF PCInv, OwnVersion, OnePeriod
<1>4. DiskTypes
  BY TypeParts DEF PCInv
<1>5. appVer \in 0..MaxVersion /\ pairing.dev \in 0..MaxDevices
  BY <1>4, PCAssumption DEF DiskTypes, PairingType
<1>6. work' \in WorkType
  BY <1>1, <1>2, <1>3, <1>5 DEF WorkType
<1>7. \A n \in Ids : drawn[pairing.dev][n] > 0 => n <= u
  <2> SUFFICES ASSUME NEW n \in Ids, drawn[pairing.dev][n] > 0 PROVE n <= u
    OBVIOUS
  <2>1. Passed(n) /\ n \in Nat
    BY <1>1, PCAssumption DEF PCInv, Counted, Ids
  <2>2. pairing.lastUsed \in Nat /\ pairing.srvIds \in Nat
    BY <1>4 DEF DiskTypes, PairingType
  <2>3. \A i \in DOMAIN finished : finished[i].n \in Nat
    <3>1. \A i \in DOMAIN finished : finished[i] \in [dev : Numbers, n : Nat]
      BY <1>4, ElementType DEF DiskTypes
    <3> QED BY <3>1
  <2> QED BY <1>2, <2>1, <2>2, <2>3 DEF Passed
<1>8. \A d \in Numbers, n \in Ids : drawn[d][n] > 0 => n \in stored[d]
  BY <1>1 DEF PCInv, WorkKept
<1> QED BY <1>1, <1>2, <1>3, <1>6, <1>7, <1>8

LEMMA GoOfflineKeeps == ASSUME PCInv, GoOffline \/ GoOfflineCrash PROVE PCInv'
<1>1. /\ UNCHANGED <<copy, finished, appVer, serverVars, drawn>>
      /\ CreateWork
      /\ crashes' = crashes \/ crashes' = crashes + 1
      /\ \/ pairing' = [pairing EXCEPT !.mode = "offline"] /\ UNCHANGED <<mode, ready, down>>
                /\ exiting' = TRUE /\ crashes' = crashes
         \/ pairing' = pairing /\ BootOn(pairing, work', copy, appVer) /\ crashes' = crashes + 1
  BY DEF GoOffline, GoOfflineCrash
<1>2. /\ work' \in WorkType /\ work'.exists /\ work'.dev = pairing.dev
      /\ work'.n <= MaxId /\ work'.ver = appVer
      /\ pairing.paired /\ ~work.exists /\ pairing.period = "none"
      /\ \A n \in Ids : drawn[pairing.dev][n] > 0 => n <= work'.n
      /\ \A d \in Numbers, n \in Ids : drawn[d][n] > 0 => n \in stored[d]
  BY <1>1, CreateFacts
<1>3. DiskTypes /\ ProcTypes /\ ServerTypes /\ drawn \in [Numbers -> [Ids -> Nat]] /\ crashes \in Nat
  BY TypeParts DEF PCInv, Bounded
<1>4. /\ pairing' \in PairingType
      /\ pairing'.paired = pairing.paired /\ pairing'.dev = pairing.dev
      /\ pairing'.lastUsed = pairing.lastUsed /\ pairing'.srvIds = pairing.srvIds
      /\ pairing'.period = pairing.period
  BY <1>1, <1>3 DEF DiskTypes, PairingType
<1>5. pairing.mode \in {"standby", "offline", "finishing"}
  BY <1>3 DEF DiskTypes, PairingType
<1>6. \/ UNCHANGED <<mode, ready, down>> /\ exiting' = TRUE /\ crashes' = crashes
      \/ /\ mode' \in Modes /\ ready' \in BOOLEAN /\ exiting' = FALSE /\ down' = "some"
         /\ mode' # "standby" /\ crashes' # 0
  <2>1. CASE BootOn(pairing, work', copy, appVer) /\ crashes' = crashes + 1
    <3>1. /\ mode' \in Modes /\ ready' \in BOOLEAN /\ exiting' = FALSE /\ down' = "some"
          /\ mode' = "standby" => pairing.paired /\ ~(work').exists /\ copy.ver = appVer
      BY <2>1, BootFacts, Zenon
    <3> QED BY <2>1, <3>1, <1>2, <1>3
  <2> QED BY <2>1, <1>1
<1>7. TypeOK'
  <2>1. DiskTypes' BY <1>1, <1>2, <1>3, <1>4 DEF DiskTypes
  <2>2. ProcTypes' BY <1>3, <1>6 DEF ProcTypes
  <2>3. ServerTypes' BY <1>1, <1>3 DEF ServerTypes, serverVars
  <2> QED BY <2>1, <2>2, <2>3, <1>1, <1>3, TypePartsNext
<1>8. Bounded'
  BY <1>1, <1>2, <1>3, <1>4 DEF PCInv, Bounded, serverVars
<1>9. Owned'
  BY <1>1, <1>2, <1>4 DEF PCInv, Owned, WorkIsOwn, serverVars
<1>10. WorkKept' /\ Counted' /\ IdsUsedOnce'
  <2>1. WorkKept' BY <1>1, <1>2 DEF WorkKept, serverVars
  <2>2. Counted' BY <1>1, <1>2, <1>4 DEF Counted
  <2>3. IdsUsedOnce' BY <1>1 DEF PCInv, IdsUsedOnce
  <2> QED BY <2>1, <2>2, <2>3
<1>11. ModeHasWork' /\ OwnVersion'
  BY <1>1, <1>2, <1>6 DEF PCInv, ModeHasWork, OwnVersion
<1>12. OnePeriod'
  BY <1>2, <1>4 DEF OnePeriod
<1> QED BY <1>7, <1>8, <1>9, <1>10, <1>11, <1>12 DEF PCInv

\* The next row number is above every one the PC drew.
LEMMA RecordKeeps == ASSUME PCInv, Record PROVE PCInv'
<1> DEFINE d == work.dev
           k == work.n + 1
<1>1. /\ UNCHANGED <<pairing, copy, finished, appVer, procVars, serverVars, crashes>>
      /\ mode = "offline" /\ work.exists /\ work.n < MaxId
      /\ work' = [work EXCEPT !.n = @ + 1, !.waiting = @ \cup {work.n + 1}]
      /\ drawn' = [drawn EXCEPT ![d][k] = @ + 1]
  BY DEF Record
<1>2. DiskTypes /\ ProcTypes /\ ServerTypes /\ drawn \in [Numbers -> [Ids -> Nat]]
  BY TypeParts DEF PCInv
<1>3. work \in WorkType /\ work.n \in Nat
  BY <1>2 DEF DiskTypes, WorkType
<1>4. k \in Ids /\ d \in Numbers /\ pairing.paired /\ d = pairing.dev /\ d \in 1..devices
  <2>1. pairing.paired /\ d = pairing.dev /\ d \in 1..devices
    BY <1>1 DEF PCInv, Owned, WorkIsOwn
  <2>2. d \in Numbers
    BY <2>1, <1>2, PCAssumption DEF ServerTypes, Numbers
  <2>3. k \in Ids
    BY <1>1, <1>3, PCAssumption DEF Ids
  <2> QED BY <2>1, <2>2, <2>3
<1>5. /\ work' \in WorkType
      /\ work'.exists /\ work'.dev = d /\ work'.ver = work.ver
      /\ work'.n = k /\ work'.waiting = work.waiting \cup {k}
  <2> HIDE DEF d, k
  <2>1. k \in Nat /\ work.waiting \cup {k} \in SUBSET Ids
    BY <1>3, <1>4 DEF WorkType, k
  <2>2. work' = [work EXCEPT !.n = k, !.waiting = work.waiting \cup {k}]
    BY <1>1, <1>3 DEF k, WorkType
  <2> DEFINE w == work.waiting \cup {k}
  <2> HIDE DEF w
  <2>3. work' = [work EXCEPT !.n = k, !.waiting = w] /\ w \in SUBSET Ids
    BY <2>1, <2>2 DEF w
  <2>4. /\ work' \in WorkType /\ work'.n = k /\ work'.waiting = w
        /\ work'.exists = work.exists /\ work'.dev = work.dev /\ work'.ver = work.ver
    BY <2>1, <2>3, <1>3 DEF WorkType
  <2> QED BY <2>4, <1>1 DEF w, d
<1>6. drawn[d][k] = 0
  <2>1. drawn[d][k] > 0 => k <= work.n
    BY <1>1, <1>4 DEF PCInv, Counted
  <2>2. drawn[d][k] \in Nat
    BY <1>2, <1>4
  <2> QED BY <2>1, <2>2, <1>3
<1> HIDE DEF d, k
<1>7. /\ drawn' \in [Numbers -> [Ids -> Nat]]
      /\ drawn'[d][k] = 1
      /\ \A x \in Numbers, n \in Ids : <<x, n>> # <<d, k>> => drawn'[x][n] = drawn[x][n]
  <2>1. drawn[d] \in [Ids -> Nat] /\ drawn' = [drawn EXCEPT ![d] = [drawn[d] EXCEPT ![k] = drawn[d][k] + 1]]
    BY <1>1, <1>2, <1>4
  <2> DEFINE row == [drawn[d] EXCEPT ![k] = drawn[d][k] + 1]
  <2>2. row \in [Ids -> Nat] /\ row[k] = 1 /\ \A n \in Ids : n # k => row[n] = drawn[d][n]
    BY <2>1, <1>4, <1>6
  <2> HIDE DEF row
  <2>3. drawn' = [drawn EXCEPT ![d] = row]
    BY <2>1 DEF row
  <2> QED BY <2>2, <2>3, <1>2, <1>4
<1>8. TypeOK'
  <2>1. DiskTypes' BY <1>1, <1>2, <1>5 DEF DiskTypes
  <2>2. ProcTypes' BY <1>1, <1>2 DEF ProcTypes, procVars
  <2>3. ServerTypes' BY <1>1, <1>2 DEF ServerTypes, serverVars
  <2> QED BY <2>1, <2>2, <2>3, <1>1, <1>7, TypePartsNext
<1>9. Bounded'
  BY <1>1, <1>3, <1>5, PCAssumption DEF PCInv, Bounded, serverVars, k
<1>10. Owned'
  <2>1. \A x \in Numbers : x > devices => x # d
    BY <1>2, <1>4, PCAssumption DEF ServerTypes, Numbers
  <2>2. \A x \in Numbers : x > devices => \A n \in Ids : drawn'[x][n] = 0
    BY <1>7, <2>1 DEF PCInv, Owned, WorkIsOwn
  <2> QED BY <1>1, <1>4, <1>5, <2>2 DEF PCInv, Owned, WorkIsOwn, serverVars
<1>11. WorkKept'
  <2> SUFFICES ASSUME NEW x \in Numbers, NEW n \in Ids, drawn'[x][n] > 0
               PROVE  n \in stored[x] \/ (work'.exists /\ work'.dev = x /\ n \in work'.waiting)
    BY <1>1 DEF WorkKept, serverVars
  <2>1. CASE <<x, n>> = <<d, k>>
    BY <2>1, <1>5
  <2>2. CASE <<x, n>> # <<d, k>>
    <3>1. drawn[x][n] > 0
      BY <2>2, <1>7
    <3>2. n \in stored[x] \/ (work.exists /\ work.dev = x /\ n \in work.waiting)
      BY <3>1 DEF PCInv, WorkKept
    <3> QED BY <3>2, <1>5 DEF d
  <2> QED BY <2>1, <2>2
<1>12. Counted'
  <2> SUFFICES ASSUME NEW n \in Ids, drawn'[d][n] > 0
               PROVE  n <= k
    BY <1>1, <1>4, <1>5 DEF Counted
  <2>1. CASE n = k
    BY <2>1, <1>4, PCAssumption DEF Ids
  <2>2. CASE n # k
    <3>1. drawn[d][n] > 0
      BY <2>2, <1>4, <1>7
    <3>2. n <= work.n
      BY <3>1, <1>1, <1>4 DEF PCInv, Counted
    <3> QED BY <3>2, <1>3, PCAssumption DEF k, Ids
  <2> QED BY <2>1, <2>2
<1>13. IdsUsedOnce'
  <2> SUFFICES ASSUME NEW x \in Numbers, NEW n \in Ids PROVE drawn'[x][n] <= 1
    BY DEF IdsUsedOnce
  <2>1. CASE <<x, n>> = <<d, k>>
    BY <2>1, <1>7
  <2>2. CASE <<x, n>> # <<d, k>>
    BY <2>2, <1>7 DEF PCInv, IdsUsedOnce
  <2> QED BY <2>1, <2>2
<1>14. ModeHasWork' /\ OwnVersion' /\ OnePeriod'
  BY <1>1, <1>5 DEF PCInv, ModeHasWork, OwnVersion, OnePeriod, procVars
<1> QED BY <1>8, <1>9, <1>10, <1>11, <1>12, <1>13, <1>14 DEF PCInv

\* Rows leave the working copy's waiting list only when the server stores them
\* under the PC's own number; the period that is open is never settled here.
LEMMA SendKeeps == ASSUME PCInv, Send PROVE PCInv'
<1> DEFINE d == pairing.dev
           refused == revoked \/ appVer > serverVer
<1>1. /\ UNCHANGED <<copy, finished, appVer, procVars, net, devices, revoked, serverVer,
                     processed, snap, builds, drawn, crashes>>
      /\ mode \in {"offline", "finishing"} /\ work.exists
      /\ stored' = IF refused THEN stored ELSE [stored EXCEPT ![d] = @ \cup work.waiting]
      /\ work' = IF refused THEN work ELSE [work EXCEPT !.waiting = {}, !.sent = @ \cup work.waiting]
  BY DEF Send
<1>2. DiskTypes /\ ProcTypes /\ ServerTypes /\ drawn \in [Numbers -> [Ids -> Nat]]
  BY TypeParts DEF PCInv
<1>3. d \in Numbers /\ pairing.paired /\ work.dev = d /\ pairing.period = "none"
  BY <1>1, <1>2, PCAssumption DEF PCInv, Owned, WorkIsOwn, OnePeriod, ServerTypes, Numbers
<1>4. /\ pairing' \in PairingType
      /\ pairing'.paired = pairing.paired /\ pairing'.dev = pairing.dev
      /\ pairing'.lastUsed = pairing.lastUsed /\ pairing'.srvIds = pairing.srvIds
      /\ pairing'.period = pairing.period
  <2>1. pairing' = IF revoked THEN [pairing EXCEPT !.told = "re-pair"] ELSE pairing
    BY <1>3 DEF Send
  <2> QED BY <2>1, <1>2 DEF DiskTypes, PairingType
<1> HIDE DEF d, refused
<1>5. work \in WorkType /\ stored \in [Numbers -> SUBSET Ids]
  BY <1>2 DEF DiskTypes, ServerTypes
<1>6. /\ work' \in WorkType /\ work'.exists /\ work'.dev = d
      /\ work'.n = work.n /\ work'.ver = work.ver
      /\ refused => work'.waiting = work.waiting
  <2>1. CASE refused
    BY <2>1, <1>1, <1>3, <1>5
  <2>2. CASE ~refused
    <3> DEFINE s == work.sent \cup work.waiting
    <3>1. s \in SUBSET Ids /\ work' = [work EXCEPT !.waiting = {}, !.sent = s]
      BY <2>2, <1>1, <1>5 DEF WorkType
    <3> HIDE DEF s
    <3>2. /\ work' \in WorkType /\ work'.exists = work.exists /\ work'.dev = work.dev
          /\ work'.n = work.n /\ work'.ver = work.ver
      BY <3>1, <1>5 DEF WorkType
    <3> QED BY <3>2, <2>2, <1>1, <1>3
  <2> QED BY <2>1, <2>2
<1>7. /\ stored' \in [Numbers -> SUBSET Ids]
      /\ \A x \in Numbers : stored[x] \subseteq stored'[x]
      /\ ~refused => work.waiting \subseteq stored'[d]
  <2>1. work.waiting \in SUBSET Ids
    BY <1>5 DEF WorkType
  <2> QED BY <2>1, <1>1, <1>3, <1>5
<1>8. TypeOK'
  <2>1. DiskTypes' BY <1>1, <1>2, <1>4, <1>6 DEF DiskTypes
  <2>2. ProcTypes' BY <1>1, <1>2 DEF ProcTypes, procVars
  <2>3. ServerTypes' BY <1>1, <1>2, <1>7 DEF ServerTypes
  <2> QED BY <2>1, <2>2, <2>3, <1>1, <1>2, TypePartsNext
<1>9. Bounded' /\ Owned'
  <2>1. Bounded' BY <1>1, <1>4, <1>6 DEF PCInv, Bounded
  <2>2. Owned' BY <1>1, <1>3, <1>4, <1>6 DEF PCInv, Owned, WorkIsOwn, d
  <2> QED BY <2>1, <2>2
<1>10. WorkKept'
  <2> SUFFICES ASSUME NEW x \in Numbers, NEW n \in Ids, drawn[x][n] > 0
               PROVE  n \in stored'[x] \/ (work'.exists /\ work'.dev = x /\ n \in work'.waiting)
    BY <1>1 DEF WorkKept
  <2>1. n \in stored[x] \/ (work.dev = x /\ n \in work.waiting)
    BY DEF PCInv, WorkKept
  <2> QED BY <2>1, <1>3, <1>6, <1>7
<1>11. Counted' /\ IdsUsedOnce'
  BY <1>1, <1>3, <1>4, <1>6 DEF PCInv, Counted, IdsUsedOnce
<1>12. ModeHasWork' /\ OwnVersion' /\ OnePeriod'
  <2>1. ModeHasWork' /\ OwnVersion' BY <1>1, <1>6 DEF PCInv, ModeHasWork, OwnVersion, procVars
  <2>2. OnePeriod' BY <1>3, <1>4 DEF OnePeriod
  <2> QED BY <2>1, <2>2
<1> QED BY <1>8, <1>9, <1>10, <1>11, <1>12 DEF PCInv

\* The counter of the finished working copy is in finished/ before, and whether
\* or not, pairing.json gets it.
LEMMA FinishKeeps == ASSUME PCInv, Finish \/ FinishCrash PROVE PCInv'
<1> DEFINE u == Max({pairing.lastUsed, work.n})
<1>1. /\ UNCHANGED <<copy, appVer, serverVars, drawn>>
      /\ FinishWork /\ work' = NoWork
      /\ mode = "finishing" /\ ~exiting /\ work.exists /\ work.waiting = {}
      /\ \/ /\ pairing' = [pairing EXCEPT !.mode = "standby", !.period = "open", !.settledAt = 0,
                                         !.lastUsed = u]
            /\ UNCHANGED <<mode, ready, down, crashes>> /\ exiting' = TRUE
         \/ pairing' = pairing /\ BootOn(pairing, work', copy, appVer) /\ crashes' = crashes + 1
  BY DEF Finish, FinishCrash, FinishWork
<1>2. /\ finished' \in Seq([dev : Numbers, n : Nat]) /\ Len(finished') <= FinishedKept
      /\ 1 \in DOMAIN finished' /\ finished'[1] = [dev |-> work.dev, n |-> work.n]
      /\ \A i \in DOMAIN finished' : finished'[i].n <= MaxId
  BY <1>1, FinishFacts
<1>3. DiskTypes /\ ProcTypes /\ ServerTypes /\ drawn \in [Numbers -> [Ids -> Nat]] /\ crashes \in Nat
  BY TypeParts DEF PCInv, Bounded
<1>4. pairing.paired /\ work.dev = pairing.dev /\ pairing.period = "none"
  BY <1>1 DEF PCInv, Owned, WorkIsOwn, OnePeriod
<1>5. u \in Nat /\ u <= MaxId
  <2> DEFINE S == {pairing.lastUsed, work.n}
  <2>1. S \in SUBSET Nat /\ S # {} /\ MaxId \in Nat /\ \A x \in S : x <= MaxId
    BY <1>3, PCAssumption DEF DiskTypes, PairingType, WorkType, PCInv, Bounded
  <2>2. Max(S) \in S
    <3> HIDE DEF S
    <3> QED BY <2>1, MaxOfBounded
  <2> QED BY <2>1, <2>2
<1> HIDE DEF u
<1>6. /\ pairing' \in PairingType
      /\ pairing'.paired = pairing.paired /\ pairing'.dev = pairing.dev
      /\ pairing'.lastUsed <= MaxId /\ pairing'.srvIds <= MaxId
      /\ pairing'.period # "settled"
  <2>1. pairing.lastUsed <= MaxId /\ pairing.srvIds <= MaxId /\ pairing \in PairingType
    BY <1>3 DEF PCInv, Bounded, DiskTypes
  <2>2. CASE pairing' = pairing
    BY <2>1, <2>2, <1>4
  <2>3. CASE pairing' = [pairing EXCEPT !.mode = "standby", !.period = "open", !.settledAt = 0,
                                        !.lastUsed = u]
    <3>1. /\ pairing' \in PairingType
          /\ pairing'.paired = pairing.paired /\ pairing'.dev = pairing.dev
          /\ pairing'.lastUsed = u /\ pairing'.srvIds = pairing.srvIds
          /\ pairing'.period = "open"
      BY <2>1, <2>3, <1>5 DEF PairingType
    <3> QED BY <3>1, <2>1, <1>5
  <2> QED BY <2>2, <2>3, <1>1
<1>7. \/ /\ UNCHANGED <<mode, ready, down, crashes>> /\ exiting' = TRUE
         /\ pairing'.period = "open"
      \/ /\ mode' \in Modes /\ ready' \in BOOLEAN /\ exiting' = FALSE /\ down' = "some"
         /\ mode' \notin {"offline", "finishing"} /\ crashes' # 0
         /\ mode' = "standby" => copy.ver = appVer
         /\ pairing'.period = "none"
  <2>1. pairing.mode \in {"standby", "offline", "finishing"}
    BY <1>3 DEF DiskTypes, PairingType
  <2>2. CASE pairing' = pairing /\ BootOn(pairing, work', copy, appVer) /\ crashes' = crashes + 1
    <3>1. /\ mode' \in Modes /\ ready' \in BOOLEAN /\ exiting' = FALSE /\ down' = "some"
          /\ mode' \in {"offline", "finishing"} => work'.exists /\ work'.ver = appVer
          /\ mode' = "standby" => pairing.paired /\ ~(work').exists /\ copy.ver = appVer
      BY <2>1, <2>2, BootFacts, Zenon
    <3>2. ~(work').exists
      BY <1>1 DEF NoWork
    <3> QED BY <2>2, <3>1, <3>2, <1>3, <1>4
  <2>3. CASE /\ pairing' = [pairing EXCEPT !.mode = "standby", !.period = "open", !.settledAt = 0,
                                           !.lastUsed = u]
             /\ UNCHANGED <<mode, ready, down, crashes>> /\ exiting' = TRUE
    BY <2>3, <1>3 DEF DiskTypes, PairingType
  <2> QED BY <2>2, <2>3, <1>1
<1>8. NoWork \in WorkType /\ ~NoWork.exists /\ NoWork.n = 0
  BY PCAssumption DEF NoWork, WorkType
<1>9. TypeOK'
  <2>1. DiskTypes' BY <1>1, <1>2, <1>3, <1>6, <1>8 DEF DiskTypes
  <2>2. ProcTypes' BY <1>3, <1>7 DEF ProcTypes
  <2>3. ServerTypes' BY <1>1, <1>3 DEF ServerTypes, serverVars
  <2> QED BY <2>1, <2>2, <2>3, <1>1, <1>3, TypePartsNext
<1>10. Bounded'
  <2>1. crashes' \in Nat
    BY <1>1, <1>3
  <2> QED BY <2>1, <1>1, <1>2, <1>6, <1>8, PCAssumption DEF PCInv, Bounded, serverVars
<1>11. Owned'
  BY <1>1, <1>6, <1>8 DEF PCInv, Owned, WorkIsOwn, serverVars
<1>12. WorkKept' /\ IdsUsedOnce'
  BY <1>1, <1>8 DEF PCInv, WorkKept, IdsUsedOnce, serverVars
<1>13. Counted'
  <2> SUFFICES ASSUME NEW n \in Ids, drawn[pairing.dev][n] > 0
               PROVE  Passed(n)'
    BY <1>1, <1>6, <1>8 DEF Counted
  <2>1. n <= work.n
    BY <1>1, <1>4 DEF PCInv, Counted
  <2>2. finished'[1].dev = pairing'.dev /\ n <= finished'[1].n
    BY <2>1, <1>2, <1>4, <1>6
  <2> QED BY <2>2, <1>2 DEF Passed
<1>14. ModeHasWork' /\ OwnVersion'
  BY <1>1, <1>7 DEF ModeHasWork, OwnVersion
<1>15. OnePeriod'
  BY <1>1, <1>6, <1>7, <1>8 DEF OnePeriod
<1> QED BY <1>9, <1>10, <1>11, <1>12, <1>13, <1>14, <1>15 DEF PCInv

-----------------------------------------------------------------------------
(* Theorems.                                                               *)

LEMMA InitHolds == Init => PCInv
<1> SUFFICES ASSUME Init PROVE PCInv
  OBVIOUS
<1>1. NotPaired \in PairingType /\ NoCopy \in CopyType /\ NoWork \in WorkType
  BY PCAssumption DEF NotPaired, NoCopy, NoWork, PairingType, CopyType, WorkType
<1>2. TypeOK
  <2>1. finished \in Seq([dev : Numbers, n : Nat]) /\ Len(finished) <= FinishedKept
    BY PCAssumption DEF Init
  <2>2. DiskTypes BY <1>1, <2>1, PCAssumption DEF Init, DiskTypes
  <2>3. ProcTypes BY DEF Init, ProcTypes, Modes
  <2>4. ServerTypes
    <3>1. 1 \in 1..MaxVersion /\ 0 \in 0..MaxDevices
      BY PCAssumption
    <3>2. stored \in [Numbers -> SUBSET Ids] /\ processed \in [Numbers -> SUBSET Ids]
      BY DEF Init
    <3> QED BY <3>1, <3>2 DEF Init, ServerTypes
  <2>5. drawn \in [Numbers -> [Ids -> Nat]] BY DEF Init
  <2> QED BY <2>2, <2>3, <2>4, <2>5, TypeParts
<1>3. Bounded
  BY PCAssumption DEF Init, Bounded, NoWork, NotPaired
<1>4. Owned /\ WorkKept /\ Counted /\ IdsUsedOnce
  BY DEF Init, Owned, WorkIsOwn, WorkKept, Counted, IdsUsedOnce, NoWork, NotPaired
<1>5. ModeHasWork /\ OwnVersion /\ OnePeriod
  BY DEF Init, ModeHasWork, OwnVersion, OnePeriod, NoWork, NotPaired
<1> QED BY <1>2, <1>3, <1>4, <1>5 DEF PCInv

LEMMA NextHolds == PCInv /\ [Next]_vars => PCInv'
<1> SUFFICES ASSUME PCInv, [Next]_vars PROVE PCInv'
  OBVIOUS
<1>1. CASE UNCHANGED vars
  <2> USE <1>1 DEF vars, diskVars, procVars, serverVars
  <2>1. TypeOK' /\ Bounded'
    BY DEF PCInv, TypeOK, Bounded
  <2>2. Owned' /\ WorkKept' /\ Counted' /\ IdsUsedOnce'
    BY DEF PCInv, Owned, WorkIsOwn, WorkKept, Counted, Passed, IdsUsedOnce
  <2>3. ModeHasWork' /\ OwnVersion' /\ OnePeriod'
    BY DEF PCInv, ModeHasWork, OwnVersion, OnePeriod
  <2> QED BY <2>1, <2>2, <2>3 DEF PCInv
<1>2. CASE Unreachable \/ Elapse \/ SendFails \/ NetChange \/ Process \/ Revoke \/ Deploy
  BY <1>2, WorldKeeps
<1>3. CASE Relaunch \/ Restart \/ InstallUpdate
  BY <1>3, BootKeeps
<1>4. CASE Pair \/ Unpair \/ Checkin
  BY <1>4, PairKeeps, UnpairKeeps, CheckinKeeps
<1>5. CASE GoOffline \/ GoOfflineCrash \/ Record \/ Send
  BY <1>5, GoOfflineKeeps, RecordKeeps, SendKeeps
<1>6. CASE BackToWeb \/ FinishGiveUp \/ Finish \/ FinishCrash
  BY <1>6, BackToWebKeeps, FinishKeeps
<1> QED BY <1>1, <1>2, <1>3, <1>4, <1>5, <1>6 DEF Next, PCStep

\* The inductive invariant of a paired PC: its files, counters and modes agree
\* (decideBoot, modeSwitch, workingCopy, pairingStore).
THEOREM PCInvariant == Spec => []PCInv
<1>1. PCInv /\ [Next]_vars => PCInv'
  BY NextHolds
<1> QED BY InitHolds, <1>1, PTL DEF Spec

\* Every file and field of the PC keeps its type.
THEOREM PCTypes == Spec => []TypeOK
<1>1. PCInv => TypeOK BY DEF PCInv
<1> QED BY <1>1, PCInvariant, PTL

\* FR-008a: recorded work is in the working copy until the server stores it,
\* through every switch, crash, pairing and update.
THEOREM WorkIsKept == Spec => []WorkKept
<1>1. PCInv => WorkKept BY DEF PCInv
<1> QED BY <1>1, PCInvariant, PTL

\* FR-012: no row number is drawn twice, whichever counter a crash left behind
\* (LastUsed over pairing.json, finished copies and the server's answer).
THEOREM RowNumbersUsedOnce == Spec => []IdsUsedOnce
<1>1. PCInv => IdsUsedOnce BY DEF PCInv
<1> QED BY <1>1, PCInvariant, PTL

\* A process in offline or finishing mode has a working copy of its version.
THEOREM ModesHaveWork == Spec => []ModeHasWork
<1>1. PCInv => ModeHasWork BY DEF PCInv
<1> QED BY <1>1, PCInvariant, PTL

\* A working copy belongs to the number the PC is paired under, through re-keying,
\* unpairing and updates between going offline and the relaunch.
THEOREM WorkBelongsToPC == Spec => []WorkIsOwn
<1>1. PCInv => WorkIsOwn BY DEF PCInv, Owned
<1> QED BY <1>1, PCInvariant, PTL

\* No step of the code ever sets lastPeriod.settledAt: refreshStatus could, but
\* it runs only in a process with a working copy, and none is made while the
\* last period is open (decideBoot).
THEOREM PeriodNeverSettles == Spec => [](pairing.period # "settled")
<1>1. PCInv => pairing.period # "settled" BY DEF PCInv, OnePeriod
<1> QED BY <1>1, PCInvariant, PTL

\* FR-007: a working copy is made from a copy of the app's own data version.
THEOREM WorkStartsOnOwnVersion == Spec => StartsOnOwnVersion
<1> DEFINE A == ~work.exists /\ work'.exists => work'.ver = appVer
<1>1. PCInv /\ [Next]_vars => [A]_vars
  <2> SUFFICES ASSUME PCInv, Next, ~work.exists, work'.exists PROVE work'.ver = appVer
    BY DEF vars
  <2>1. CASE GoOffline \/ GoOfflineCrash
    BY <2>1, CreateFacts DEF GoOffline, GoOfflineCrash
  <2>2. CASE ~(GoOffline \/ GoOfflineCrash)
    <3>1. work' = work \/ work' = NoWork \/ work.exists
      BY <2>2 DEF Next, PCStep, Relaunch, Restart, InstallUpdate, Pair, Unpair, Checkin,
           Unreachable, Elapse, Record, Send, SendFails, BackToWeb, FinishGiveUp, Finish,
           FinishCrash, FinishWork, NetChange, Process, Revoke, Deploy, diskVars
    <3> QED BY <3>1 DEF NoWork
  <2> QED BY <2>1, <2>2
<1> QED BY <1>1, PCInvariant, PTL DEF Spec, StartsOnOwnVersion
=============================================================================
